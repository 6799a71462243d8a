--------------------------- MODULE UdevBlockProofs ---------------------------
(***************************************************************************)
(* Proofs about UdevBlock: for any number of partitions and of changes,    *)
(* the list in QubesDB is right when all events are handled.               *)
(*                                                                         *)
(* Both properties speak of a moment at which nothing is queued and no     *)
(* script runs.  The invariant says for every other moment who will still  *)
(* look: for each reason not to list a device, either it does not hold, or *)
(* there is an event in the queue or a script that has yet to read it, or  *)
(* the list is about to be corrected.  A script that is not marked         *)
(* "company" is the only one for its device (AloneInv), so that what it    *)
(* has read can be followed until it writes.  A second invariant (SkipInv) *)
(* follows the partitions that were found to be those of an attached disk. *)
(***************************************************************************)
EXTENDS UdevBlock, FiniteSetTheorems, SequenceTheorems, TLAPS

-----------------------------------------------------------------------------
(* The inductive invariant *)

(* A script reads nothing about its own device before "self".  In Leaving  *)
(* it removes the entry, in Removal it is the one of udev-block-remove.    *)
Early == {"start", "parent", "slaves", "self"}
Leaving == {"remove", "rm"}
Removal == {"gone", "trigger"}
Pcs == Early \cup {"parts", "write"} \cup Leaving \cup Removal
Hows == {"clean", "company", "missed", "skipped"}

Events == [dev : Devices, act : {"add", "change", "remove"}]
Scripts == [dev : Devices, pc : Pcs, todo : SUBSET Parts, how : Hows]

TypeInv ==
    /\ exists \in SUBSET Devices /\ mounted \in SUBSET exists
    /\ attached \in SUBSET exists /\ listed \in SUBSET Devices
    /\ queue \in Seq(Events)
    /\ handler \in [Devices -> Seq(Scripts)]
    /\ slaves \in {NoFile, {}, {Slave}}
    /\ last \in [Devices -> Hows]

KernelInv ==
    /\ Parts \cap exists = {} \/ Parts \cup {Disk} \subseteq exists
    /\ Dm \in exists => Slave \in exists

(* What is known of a script wherever it runs *)
ScriptOk(h, s) ==
    /\ s.dev = Dm => h = Dm /\ s.how # "company"
    /\ s.pc \in Removal => Len(handler[h]) = 1
    /\ s.pc \in Early => s.todo = Parts
    /\ s.pc = "parent" => s.dev \in Parts
StackInv == \A h \in Devices : \A n \in 1..Len(handler[h]) : ScriptOk(h, handler[h][n])

(* Two scripts for a device know of each other. *)
AloneInv ==
    \A h, g \in Devices : \A n \in 1..Len(handler[h]), m \in 1..Len(handler[g]) :
        handler[h][n].dev = handler[g][m].dev =>
            (h = g /\ n = m) \/ handler[h][n].how = "company"

(* The scripts that are running for a device *)
Run(d) ==
    {s \in Scripts : /\ s.dev = d
                     /\ \E h \in Devices : \E n \in 1..Len(handler[h]) : s = handler[h][n]}
HasScript(d, pcs) == \E s \in Run(d) : s.pc \in pcs
Alone(d) == \A s \in Run(d) : s.how # "company"
AllClean(d) == \A s \in Run(d) : s.how = "clean"

IsUpdate(n, d) == queue[n].dev = d /\ queue[n].act # "remove"
IsRemove(n, d) == queue[n].dev = d /\ queue[n].act = "remove"
Queued(d) == \E n \in 1..Len(queue) : IsUpdate(n, d)
Removed(d) == \E n \in 1..Len(queue) : IsRemove(n, d)

(* The last event of a device agrees with what became of the device. *)
OrderInv ==
    \A d \in Devices, n \in 1..Len(queue) :
        /\ IsUpdate(n, d) /\ d \notin exists => \E m \in (n + 1)..Len(queue) : IsRemove(m, d)
        /\ IsRemove(n, d) /\ d \in exists => \E m \in (n + 1)..Len(queue) : IsUpdate(m, d)

FollowOk(d) ==
    \A s \in Run(d) : s.how # "company" =>
        /\ s.pc \notin Removal /\ d \notin exists => Removed(d)
        /\ s.pc \in Removal /\ d \in exists => Queued(d)
        /\ s.pc = "trigger" => d \notin listed
FollowInv == \A d \in Devices : FollowOk(d)

(* The cache is there when the script for the removal of Dm looks for it. *)
CacheReady ==
    /\ ~HasScript(Dm, Removal)
    /\ slaves # NoFile \/ HasScript(Dm, Early)

CacheInv ==
    /\ HasScript(Dm, Removal) => slaves # NoFile
    /\ Dm \in exists => Queued(Dm) \/ CacheReady
    /\ \A i, j \in 1..Len(queue) : i < j /\ IsRemove(i, Dm) /\ IsRemove(j, Dm) =>
            \E m \in (i + 1)..(j - 1) : IsUpdate(m, Dm)
    /\ \A n \in 1..Len(queue) :
            IsRemove(n, Dm) /\ (\A m \in 1..(n - 1) : queue[m].dev # Dm) => CacheReady

(* Who will look at a device, at a partition for its disk, or at Slave for *)
(* the sake of Dm *)
Looks(d) == Queued(d) \/ HasScript(d, Early \cup Leaving)
Asks(p) == Queued(p) \/ HasScript(p, {"start"})
AsksSlave == Queued(Dm) \/ HasScript(Dm, {"start", "slaves"})
LooksAtPart(p) ==
    \/ Looks(Disk) \/ Asks(p)
    \/ \E s \in Run(Disk) : s.pc = "parts" /\ p \in s.todo

(* Every reason not to list d is absent or will be seen. *)
Seen(d) ==
    /\ d \notin exists => Removed(d) \/ HasScript(d, {"gone"})
    /\ d \in mounted => Looks(d)
    /\ d = Slave /\ Dm \in exists => Looks(d) \/ AsksSlave
    /\ d = Disk =>
        /\ \A p \in Parts : p \in mounted \cup attached => LooksAtPart(p)
        /\ Dm \in exists => LooksAtPart(Slave) \/ AsksSlave
        /\ Disk \in exists /\ exists \cap Parts = {} => Looks(d) \/ HasScript(d, {"parts"})

ListOk(d) ==
    /\ (d \in listed /\ last[d] # "company") \/ HasScript(d, {"parts", "write"})
    /\ Alone(d)
    /\ d \notin attached
    => Seen(d)
ListInv == \A d \in Devices : ListOk(d)

(* Something will have d looked at again. *)
Comes(d) ==
    \/ Queued(d)
    \/ d = Disk /\ \E p \in Parts \cap exists : Asks(p)
    \/ d \in {Slave, Disk} /\ Dm \notin exists /\ (Removed(Dm) \/ HasScript(Dm, Removal))

FreeOk(d) ==
    Unused(d) /\ AllClean(d) =>
        /\ d \notin listed /\ last[d] = "clean" =>
                Comes(d) \/ HasScript(d, Early \cup {"parts", "write"})
        /\ HasScript(d, Leaving) => Comes(d)
FreeInv == \A d \in Devices : FreeOk(d)

UdevInv ==
    /\ TypeInv /\ KernelInv /\ StackInv /\ AloneInv
    /\ OrderInv /\ FollowInv /\ CacheInv
    /\ ListInv /\ FreeInv

-----------------------------------------------------------------------------
(* The sequences *)

(* EventsFor() has an event for each partition. *)
LEMMA EventsForParts ==
    ASSUME NEW a \in {"add", "change", "remove"}
    PROVE  /\ EventsFor(a) \in Seq(Events)
           /\ \A n \in 1..Len(EventsFor(a)) :
                EventsFor(a)[n].dev \in Parts /\ EventsFor(a)[n].act = a
           /\ \A p \in Parts : \E n \in 1..Len(EventsFor(a)) : EventsFor(a)[n].dev = p
<1> DEFINE f == SetToSeq(Parts)
           c == Cardinality(Parts)
<1>1. IsFiniteSet(Parts) /\ c \in Nat /\ ExistsBijection(1..c, Parts)
  BY UdevAssumption, FS_CardinalityType
<1>2. \E g \in [1..c -> Parts] : IsInjective(g)
  <2>1. PICK g \in Bijection(1..c, Parts) : TRUE
    BY <1>1 DEF ExistsBijection
  <2> QED
    BY <2>1 DEF Bijection, Injection
<1>3. f \in [1..c -> Parts] /\ IsInjective(f)
  BY <1>2 DEF SetToSeq
<1>4. f \in Injection(1..c, Parts)
  BY <1>3 DEF IsInjective, Injection
<1>5. IsFiniteSet(1..c) /\ Cardinality(1..c) = c
  BY <1>1, FS_Interval
<1>6. f \in Surjection(1..c, Parts)
  BY <1>1, <1>4, <1>5, FS_Injection
<1>7. \A p \in Parts : \E n \in 1..c : f[n] = p
  BY <1>6 DEF Surjection
<1>8. f \in Seq(Parts) /\ Len(f) = c
  BY <1>1, <1>3
<1> HIDE DEF f, c
<1>9. EventsFor(a) = [n \in 1..c |-> Event(a, f[n])]
  BY <1>8 DEF EventsFor, f
<1>10. \A n \in 1..c : Event(a, f[n]) \in Events /\ Event(a, f[n]).dev = f[n] /\ Event(a, f[n]).act = a
  BY <1>3 DEF Event, Events, Devices
<1>11. EventsFor(a) \in Seq(Events) /\ Len(EventsFor(a)) = c
  BY <1>1, <1>9, <1>10
<1>12. \A n \in 1..c : EventsFor(a)[n] = Event(a, f[n])
  BY <1>9
<1> QED
  BY <1>3, <1>7, <1>10, <1>11, <1>12

(* RemoveAt() takes one event out and leaves the others in order. *)
LEMMA RemoveAtFacts ==
    ASSUME NEW S, NEW s \in Seq(S), NEW n \in 1..Len(s)
    PROVE  /\ RemoveAt(s, n) \in Seq(S)
           /\ Len(RemoveAt(s, n)) = Len(s) - 1
           /\ \A i \in 1..(n - 1) : RemoveAt(s, n)[i] = s[i]
           /\ \A i \in n..(Len(s) - 1) : RemoveAt(s, n)[i] = s[i + 1]
<1> DEFINE a == SubSeq(s, 1, n - 1)
           b == SubSeq(s, n + 1, Len(s))
<1>0. Len(s) \in Nat /\ n \in Nat /\ 1 <= n /\ n <= Len(s)
  OBVIOUS
<1>1. a \in Seq(S) /\ Len(a) = n - 1 /\ \A i \in 1..(n - 1) : a[i] = s[i]
  OBVIOUS
<1>2. b \in Seq(S) /\ Len(b) = Len(s) - n /\ \A i \in 1..(Len(s) - n) : b[i] = s[i + n]
  OBVIOUS
<1> HIDE DEF a, b
<1>3. a \o b \in Seq(S) /\ Len(a \o b) = Len(s) - 1
  <2>1. a \o b \in Seq(S) /\ Len(a \o b) = Len(a) + Len(b)
    BY <1>1, <1>2, ConcatProperties
  <2> QED
    BY <1>0, <1>1, <1>2, <2>1
<1>4. \A i \in 1..Len(a \o b) : (a \o b)[i] = IF i <= n - 1 THEN a[i] ELSE b[i - (n - 1)]
  BY <1>1, <1>2, ConcatProperties
<1>5. RemoveAt(s, n) = a \o b
  BY DEF RemoveAt, a, b
<1>6. ASSUME NEW i \in n..(Len(s) - 1) PROVE (a \o b)[i] = s[i + 1]
  <2>0. i \in 1..Len(a \o b) /\ ~(i <= n - 1)
    BY <1>0, <1>3
  <2>1. (a \o b)[i] = b[i - (n - 1)]
    BY <1>4, <2>0
  <2>2. i - (n - 1) \in 1..(Len(s) - n) /\ (i - (n - 1)) + n = i + 1
    OBVIOUS
  <2> QED
    BY <1>2, <2>1, <2>2
<1> QED
  BY <1>1, <1>3, <1>4, <1>5, <1>6

-----------------------------------------------------------------------------
(* What a step does to the scripts *)

(* A script at the top of a handler runs, and below it are others. *)
LEMMA TopFacts ==
    ASSUME TypeInv, NEW h \in Devices, handler[h] # <<>>
    PROVE  /\ Len(handler[h]) \in Nat /\ Len(handler[h]) >= 1
           /\ Top(h) = handler[h][1]
           /\ Top(h) \in Scripts /\ Top(h).dev \in Devices
           /\ Top(h) \in Run(Top(h).dev)
           /\ Tail(handler[h]) \in Seq(Scripts)
           /\ Len(Tail(handler[h])) = Len(handler[h]) - 1
           /\ \A n \in 1..(Len(handler[h]) - 1) : Tail(handler[h])[n] = handler[h][n + 1]
<1>1. handler[h] \in Seq(Scripts)
  BY DEF TypeInv
<1>2. /\ Len(handler[h]) \in Nat /\ Len(handler[h]) >= 1 /\ Top(h) = handler[h][1]
      /\ handler[h][1] \in Scripts
      /\ Tail(handler[h]) \in Seq(Scripts) /\ Len(Tail(handler[h])) = Len(handler[h]) - 1
      /\ \A n \in 1..(Len(handler[h]) - 1) : Tail(handler[h])[n] = handler[h][n + 1]
  BY <1>1 DEF Top
<1>3. Top(h).dev \in Devices
  BY <1>2 DEF Scripts
<1>4. Top(h) \in Run(Top(h).dev)
  BY <1>2 DEF Run
<1> QED
  BY <1>2, <1>3, <1>4

(* A script that is not marked is the only one for its device; if it is,   *)
(* all are.                                                                *)
LEMMA TopAlone ==
    ASSUME TypeInv, AloneInv, NEW h \in Devices, handler[h] # <<>>
    PROVE  /\ Top(h).how # "company" => Run(Top(h).dev) = {Top(h)}
           /\ Top(h).how = "company" => \A s \in Run(Top(h).dev) : s.how = "company"
<1>1. Len(handler[h]) \in Nat /\ 1 \in 1..Len(handler[h]) /\ Top(h) = handler[h][1] /\ Top(h) \in Run(Top(h).dev)
  BY TopFacts
<1>2. ASSUME NEW s \in Run(Top(h).dev)
      PROVE  s = Top(h) \/ (s.how = "company" /\ Top(h).how = "company")
  <2>0. PICK g \in Devices : \E n \in 1..Len(handler[g]) : s = handler[g][n]
    BY DEF Run
  <2>1. PICK n \in 1..Len(handler[g]) : s = handler[g][n]
    BY <2>0
  <2>2. s.dev = Top(h).dev
    BY DEF Run
  <2>3. \/ g = h /\ n = 1
        \/ handler[g][n].how = "company" /\ handler[h][1].how = "company"
    BY <1>1, <2>1, <2>2 DEF AloneInv
  <2> QED
    BY <1>1, <2>1, <2>3
<1> QED
  BY <1>1, <1>2

(* The script at the top of h goes on as t. *)
Changes(h, t) ==
    /\ handler' \in [Devices -> Seq(Scripts)]
    /\ \A g \in Devices : Len(handler'[g]) = Len(handler[g])
    /\ handler'[h][1] = t
    /\ \A g \in Devices : \A n \in 1..Len(handler[g]) :
            ~(g = h /\ n = 1) => handler'[g][n] = handler[g][n]

(* An assignment to the top of one handler changes that script and no other. *)
LEMMA ChangesFacts ==
    ASSUME TypeInv, NEW h \in Devices, handler[h] # <<>>, NEW t \in Scripts,
           handler' = [handler EXCEPT ![h][1] = t]
    PROVE  Changes(h, t)
<1>1. handler \in [Devices -> Seq(Scripts)] /\ 1 \in 1..Len(handler[h])
  BY TopFacts DEF TypeInv
<1>2. [handler[h] EXCEPT ![1] = t] \in Seq(Scripts)
      /\ Len([handler[h] EXCEPT ![1] = t]) = Len(handler[h])
  BY <1>1, ExceptSeq
<1>3. handler' = [handler EXCEPT ![h] = [handler[h] EXCEPT ![1] = t]]
  OBVIOUS
<1>4. handler' \in [Devices -> Seq(Scripts)] /\ handler'[h] = [handler[h] EXCEPT ![1] = t]
      /\ \A g \in Devices : g # h => handler'[g] = handler[g]
  BY <1>1, <1>2, <1>3
<1>5. \A n \in 1..Len(handler[h]) : handler'[h][n] = IF n = 1 THEN t ELSE handler[h][n]
  BY <1>1, <1>4
<1> QED
  BY <1>1, <1>2, <1>4, <1>5 DEF Changes

(* What a step of one script does to the scripts that run for each device: the
   old form of the script gives way to the new one, the others stay. *)
LEMMA ChangesRun ==
    ASSUME TypeInv, AloneInv, NEW h \in Devices, handler[h] # <<>>, NEW t \in Scripts,
           Changes(h, t), t.dev = Top(h).dev, Top(h).how = "company" => t.how = "company"
    PROVE  /\ \A d \in Devices : d # t.dev => Run(d)' = Run(d)
           /\ t \in Run(t.dev)'
           /\ Run(t.dev) \subseteq Run(t.dev)' \cup {Top(h)}
           /\ Run(t.dev)' \subseteq Run(t.dev) \cup {t}
           /\ Top(h).how # "company" => Run(t.dev)' = {t}
           /\ AloneInv'
<1>1. /\ Len(handler[h]) \in Nat /\ 1 \in 1..Len(handler[h]) /\ Top(h) = handler[h][1]
  BY TopFacts
<1>2. /\ \A g \in Devices : Len(handler'[g]) = Len(handler[g])
      /\ handler'[h][1] = t
      /\ \A g \in Devices : \A n \in 1..Len(handler[g]) :
            ~(g = h /\ n = 1) => handler'[g][n] = handler[g][n]
  BY DEF Changes
<1>3. ASSUME NEW d \in Devices, NEW s \in Run(d)'
      PROVE  s \in Run(d) \/ (s = t /\ d = t.dev)
  BY <1>1, <1>2, <1>3 DEF Run
<1>4. ASSUME NEW d \in Devices, NEW s \in Run(d)
      PROVE  s \in Run(d)' \/ (s = Top(h) /\ d = t.dev)
  BY <1>1, <1>2, <1>4 DEF Run
<1>5. t \in Run(t.dev)'
  BY <1>1, <1>2 DEF Run
<1>6. AloneInv'
  <2> SUFFICES ASSUME NEW g1 \in Devices, NEW g2 \in Devices,
                      NEW n1 \in 1..Len(handler'[g1]), NEW n2 \in 1..Len(handler'[g2]),
                      handler'[g1][n1].dev = handler'[g2][n2].dev
               PROVE  (g1 = g2 /\ n1 = n2) \/ handler'[g1][n1].how = "company"
    BY DEF AloneInv
  <2>1. n1 \in 1..Len(handler[g1]) /\ n2 \in 1..Len(handler[g2])
    BY <1>2
  <2>2. /\ handler'[g1][n1].dev = handler[g1][n1].dev
        /\ handler'[g2][n2].dev = handler[g2][n2].dev
        /\ handler[g1][n1].how = "company" => handler'[g1][n1].how = "company"
    BY <1>1, <1>2, <2>1
  <2>3. (g1 = g2 /\ n1 = n2) \/ handler[g1][n1].how = "company"
    BY <2>1, <2>2 DEF AloneInv
  <2> QED
    BY <2>2, <2>3
<1>7. Top(h).how # "company" => Run(t.dev)' = {t}
  <2> SUFFICES ASSUME Top(h).how # "company", NEW s \in Run(t.dev)' PROVE s = t
    BY <1>5
  <2>0. PICK g \in Devices : \E n \in 1..Len(handler'[g]) : s = handler'[g][n]
    BY DEF Run
  <2>1. PICK n \in 1..Len(handler'[g]) : s = handler'[g][n]
    BY <2>0
  <2>2. s.dev = t.dev
    BY DEF Run
  <2>3. ~(g = h /\ n = 1) => handler[g][n].dev = handler[h][1].dev
    BY <1>1, <1>2, <2>1, <2>2
  <2>4. g = h /\ n = 1
    BY <1>1, <1>2, <2>3 DEF AloneInv
  <2> QED
    BY <1>2, <2>1, <2>4
<1>8. t.dev \in Devices
  BY DEF Scripts
<1> QED
  BY <1>3, <1>4, <1>5, <1>6, <1>7, <1>8

(* The script at the top of h ends. *)
Pops(h) ==
    /\ handler' \in [Devices -> Seq(Scripts)]
    /\ \A g \in Devices : g # h => handler'[g] = handler[g]
    /\ Len(handler'[h]) = Len(handler[h]) - 1
    /\ \A n \in 1..(Len(handler[h]) - 1) : handler'[h][n] = handler[h][n + 1]

(* Taking the top off one handler is the end of that script and of no other. *)
LEMMA PopsFacts ==
    ASSUME TypeInv, NEW h \in Devices, handler[h] # <<>>,
           handler' = [handler EXCEPT ![h] = Tail(@)]
    PROVE  Pops(h)
  BY TopFacts DEF Pops, TypeInv

(* What the end of a script does to the scripts that run for its device: a
   script without company leaves none behind. *)
LEMMA PopsRun ==
    ASSUME TypeInv, AloneInv, NEW h \in Devices, handler[h] # <<>>, Pops(h),
           NEW d, d = Top(h).dev
    PROVE  /\ \A e \in Devices : e # d => Run(e)' = Run(e)
           /\ Run(d)' \subseteq Run(d)
           /\ Run(d) \subseteq Run(d)' \cup {Top(h)}
           /\ Top(h).how # "company" => Run(d)' = {}
           /\ AloneInv'
<1>1. /\ Len(handler[h]) \in Nat /\ 1 \in 1..Len(handler[h]) /\ Top(h) = handler[h][1]
      /\ Top(h).dev \in Devices
  BY TopFacts
<1>2. /\ \A g \in Devices : g # h => handler'[g] = handler[g]
      /\ Len(handler'[h]) = Len(handler[h]) - 1
      /\ \A n \in 1..(Len(handler[h]) - 1) : handler'[h][n] = handler[h][n + 1]
  BY DEF Pops
<1>3. ASSUME NEW g \in Devices, NEW n \in 1..Len(handler'[g])
      PROVE  \E m \in 1..Len(handler[g]) :
                /\ m = (IF g = h THEN n + 1 ELSE n)
                /\ ~(g = h /\ m = 1)
                /\ handler'[g][n] = handler[g][m]
  BY <1>1, <1>2
<1>4. ASSUME NEW g \in Devices, NEW n \in 1..Len(handler[g]), ~(g = h /\ n = 1)
      PROVE  \E m \in 1..Len(handler'[g]) : handler'[g][m] = handler[g][n]
  <2>1. CASE g # h
    BY <1>2, <2>1
  <2>2. CASE g = h
    <3>1. n - 1 \in 1..(Len(handler[h]) - 1) /\ (n - 1) + 1 = n
      BY <1>1, <1>4, <2>2
    <3> QED
      BY <1>2, <2>2, <3>1
  <2> QED
    BY <2>1, <2>2
<1>5. ASSUME NEW e \in Devices, NEW s \in Run(e)'
      PROVE  s \in Run(e)
  <2>0. PICK g \in Devices : \E n \in 1..Len(handler'[g]) : s = handler'[g][n]
    BY DEF Run
  <2>1. PICK n \in 1..Len(handler'[g]) : s = handler'[g][n]
    BY <2>0
  <2>2. s \in Scripts /\ s.dev = e
    BY DEF Run
  <2>3. PICK m \in 1..Len(handler[g]) : s = handler[g][m]
    BY <1>3, <2>1
  <2> QED
    BY <2>2, <2>3 DEF Run
<1>6. ASSUME NEW e \in Devices, NEW s \in Run(e)
      PROVE  s \in Run(e)' \/ (s = Top(h) /\ e = d)
  <2>0. PICK g \in Devices : \E n \in 1..Len(handler[g]) : s = handler[g][n]
    BY DEF Run
  <2>1. PICK n \in 1..Len(handler[g]) : s = handler[g][n]
    BY <2>0
  <2>2. CASE g = h /\ n = 1
    BY <1>1, <2>1, <2>2 DEF Run
  <2>3. CASE ~(g = h /\ n = 1)
    <3>1. PICK m \in 1..Len(handler'[g]) : handler'[g][m] = handler[g][n]
      BY <1>4, <2>3
    <3> QED
      BY <2>1, <3>1 DEF Run
  <2> QED
    BY <2>2, <2>3
<1>7. Top(h).how # "company" => Run(d)' = {}
  <2> SUFFICES ASSUME Top(h).how # "company", NEW s \in Run(d)' PROVE FALSE
    OBVIOUS
  <2>0. PICK g \in Devices : \E n \in 1..Len(handler'[g]) : s = handler'[g][n]
    BY DEF Run
  <2>1. PICK n \in 1..Len(handler'[g]) : s = handler'[g][n]
    BY <2>0
  <2>2. s.dev = d
    BY DEF Run
  <2>3. PICK m \in 1..Len(handler[g]) : ~(g = h /\ m = 1) /\ s = handler[g][m]
    BY <1>3, <2>1
  <2> QED
    BY <1>1, <2>2, <2>3 DEF AloneInv
<1>8. AloneInv'
  <2> SUFFICES ASSUME NEW g1 \in Devices, NEW g2 \in Devices,
                      NEW n1 \in 1..Len(handler'[g1]), NEW n2 \in 1..Len(handler'[g2]),
                      handler'[g1][n1].dev = handler'[g2][n2].dev
               PROVE  (g1 = g2 /\ n1 = n2) \/ handler'[g1][n1].how = "company"
    BY DEF AloneInv
  <2>1. PICK m1 \in 1..Len(handler[g1]) : m1 = (IF g1 = h THEN n1 + 1 ELSE n1) /\ handler'[g1][n1] = handler[g1][m1]
    BY <1>3
  <2>2. PICK m2 \in 1..Len(handler[g2]) : m2 = (IF g2 = h THEN n2 + 1 ELSE n2) /\ handler'[g2][n2] = handler[g2][m2]
    BY <1>3
  <2>3. (g1 = g2 /\ m1 = m2) \/ handler[g1][m1].how = "company"
    BY <2>1, <2>2 DEF AloneInv
  <2> QED
    BY <2>1, <2>2, <2>3
<1> QED
  BY <1>1, <1>5, <1>6, <1>7, <1>8

(* A script gets company. *)
Marked(s, d) == IF s.dev = d /\ s.how # "company" THEN [s EXCEPT !.how = "company"] ELSE s

(* A script that gets company goes on where it was. *)
LEMMA MarkedFacts ==
    ASSUME NEW s \in Scripts, NEW d
    PROVE  /\ Marked(s, d) \in Scripts
           /\ Marked(s, d).dev = s.dev /\ Marked(s, d).pc = s.pc /\ Marked(s, d).todo = s.todo
           /\ s.dev = d \/ s.how = "company" => Marked(s, d).how = "company"
           /\ s.dev # d => Marked(s, d) = s
  BY DEF Marked, Scripts, Hows

(* Disturbed changes nothing but how the scripts of the given devices run. *)
LEMMA DisturbedFacts ==
    ASSUME TypeInv, NEW devs, NEW by \in Hows
    PROVE  /\ Disturbed(devs, by) \in [Devices -> Seq(Scripts)]
           /\ \A h \in Devices : Len(Disturbed(devs, by)[h]) = Len(handler[h])
           /\ \A h \in Devices : \A n \in 1..Len(handler[h]) :
                Disturbed(devs, by)[h][n] =
                    IF handler[h][n].dev \in devs /\ handler[h][n].how # "company"
                    THEN [handler[h][n] EXCEPT !.how = by] ELSE handler[h][n]
<1> DEFINE m(s) == IF s.dev \in devs /\ s.how # "company" THEN [s EXCEPT !.how = by] ELSE s
           f(h) == [n \in 1..Len(handler[h]) |-> m(handler[h][n])]
<1>1. ASSUME NEW s \in Scripts PROVE m(s) \in Scripts
  BY DEF Scripts
<1>2. ASSUME NEW h \in Devices
      PROVE  Len(handler[h]) \in Nat /\ \A n \in 1..Len(handler[h]) : handler[h][n] \in Scripts
  BY DEF TypeInv
<1>3. Disturbed(devs, by) = [h \in Devices |-> f(h)]
  BY DEF Disturbed
<1> HIDE DEF m
<1>4. ASSUME NEW h \in Devices PROVE f(h) \in Seq(Scripts) /\ Len(f(h)) = Len(handler[h])
  BY <1>1, <1>2
<1>5. \A h \in Devices : Disturbed(devs, by)[h] = f(h)
  BY <1>3
<1>6. Disturbed(devs, by) \in [Devices -> Seq(Scripts)]
  BY <1>3, <1>4
<1>7. \A h \in Devices : \A n \in 1..Len(handler[h]) : Disturbed(devs, by)[h][n] = m(handler[h][n])
  BY <1>5
<1> QED
  BY <1>4, <1>5, <1>6, <1>7 DEF m

(* A script new comes on top of h, whose script goes on as t when new has  *)
(* ended.                                                                  *)
Arrives(h, new, t) ==
    /\ handler' \in [Devices -> Seq(Scripts)]
    /\ \A g \in Devices : g # h =>
            /\ Len(handler'[g]) = Len(handler[g])
            /\ \A n \in 1..Len(handler[g]) : handler'[g][n] = Marked(handler[g][n], new.dev)
    /\ Len(handler'[h]) = Len(handler[h]) + 1
    /\ handler'[h][1] = new
    /\ \A n \in 2..(Len(handler[h]) + 1) :
            handler'[h][n] = IF n = 2 THEN t ELSE Marked(handler[h][n - 1], new.dev)

(* What that does to the scripts for d *)
Joins(d, new) ==
    /\ new \in Run(d)'
    /\ \/ Run(d) = {} /\ Run(d)' = {new} /\ new.how = "clean"
       \/ /\ Run(d) # {} /\ \A s \in Run(d)' : s.how = "company"
          /\ \A r \in Run(d) : \E s \in Run(d)' : s.pc = r.pc /\ s.todo = r.todo

(* Running says that the set of scripts for the device is not empty. *)
LEMMA RunningFacts ==
    ASSUME TypeInv, NEW d \in Devices
    PROVE  Running(d) <=> Run(d) # {}
<1>1. \A h \in Devices : \A n \in 1..Len(handler[h]) : handler[h][n] \in Scripts
  BY DEF TypeInv
<1>2. ASSUME Running(d) PROVE Run(d) # {}
  <2>1. PICK h \in Devices : \E n \in 1..Len(handler[h]) : handler[h][n].dev = d
    BY <1>2 DEF Running
  <2>2. PICK n \in 1..Len(handler[h]) : handler[h][n].dev = d
    BY <2>1
  <2> QED
    BY <1>1, <2>2 DEF Run
<1>3. ASSUME Run(d) # {} PROVE Running(d)
  BY <1>3 DEF Run, Running
<1> QED
  BY <1>2, <1>3

(* What a new script does to the scripts that run for each device: it is alone,
   or it and all the others for its device are in company from now on. *)
LEMMA ArrivesRun ==
    ASSUME TypeInv, AloneInv, NEW h \in Devices, NEW new \in Scripts, NEW t \in Scripts,
           Arrives(h, new, t),
           new.how = IF Run(new.dev) # {} THEN "company" ELSE "clean",
           handler[h] # <<>> => t.dev = Top(h).dev /\ t.dev # new.dev /\ t.how = Top(h).how
    PROVE  /\ Joins(new.dev, new)
           /\ \A e \in Devices : e # new.dev /\ (handler[h] = <<>> \/ e # t.dev) => Run(e)' = Run(e)
           /\ handler[h] # <<>> =>
                /\ t \in Run(t.dev)'
                /\ Run(t.dev) \subseteq Run(t.dev)' \cup {Top(h)}
                /\ Run(t.dev)' \subseteq Run(t.dev) \cup {t}
                /\ Top(h).how # "company" => Run(t.dev)' = {t}
           /\ AloneInv'
<1> DEFINE d == new.dev
<1>1. /\ \A g \in Devices : Len(handler[g]) \in Nat
      /\ \A g \in Devices : \A n \in 1..Len(handler[g]) : handler[g][n] \in Scripts
      /\ handler' \in [Devices -> Seq(Scripts)]
      /\ d \in Devices
  <2>1. handler \in [Devices -> Seq(Scripts)] /\ handler' \in [Devices -> Seq(Scripts)]
    BY DEF TypeInv, Arrives
  <2>2. d \in Devices
    BY DEF Scripts
  <2> QED
    BY <2>1, <2>2
<1>2. /\ \A g \in Devices : g # h =>
            /\ Len(handler'[g]) = Len(handler[g])
            /\ \A n \in 1..Len(handler[g]) : handler'[g][n] = Marked(handler[g][n], d)
      /\ Len(handler'[h]) = Len(handler[h]) + 1
      /\ handler'[h][1] = new
      /\ \A n \in 2..(Len(handler[h]) + 1) :
            handler'[h][n] = IF n = 2 THEN t ELSE Marked(handler[h][n - 1], d)
  BY DEF Arrives
<1>3. handler[h] # <<>> => Top(h) = handler[h][1] /\ Len(handler[h]) >= 1
  BY TopFacts
<1>4. handler[h] = <<>> => Len(handler[h]) = 0
  OBVIOUS
<1> DEFINE old(g, n) == IF g = h THEN n - 1 ELSE n
\* where the scripts of the new state come from
<1>5. ASSUME NEW g \in Devices, NEW n \in 1..Len(handler'[g]), ~(g = h /\ n = 1)
      PROVE  /\ old(g, n) \in 1..Len(handler[g])
             /\ handler'[g][n] = IF g = h /\ n = 2 THEN t ELSE Marked(handler[g][old(g, n)], d)
             /\ g = h /\ n = 2 => handler[h] # <<>> /\ handler[g][old(g, n)] = Top(h)
  <2>1. CASE g # h
    BY <1>2, <2>1
  <2>2. CASE g = h
    <3>1. n \in 2..(Len(handler[h]) + 1) /\ n - 1 \in 1..Len(handler[h])
      BY <1>1, <1>2, <1>5, <2>2
    <3>2. handler[h] # <<>>
      BY <1>1, <1>4, <3>1
    <3> QED
      BY <1>2, <1>3, <2>2, <3>1, <3>2
  <2> QED
    BY <2>1, <2>2
<1>6. ASSUME NEW g \in Devices, NEW n \in 1..Len(handler'[g]), ~(g = h /\ n = 1)
      PROVE  /\ handler'[g][n].dev = handler[g][old(g, n)].dev
             /\ handler[g][old(g, n)].how = "company" => handler'[g][n].how = "company"
             /\ handler'[g][n].dev = d => handler'[g][n].how = "company"
             /\ handler'[g][n].dev # d /\ ~(g = h /\ n = 2) => handler'[g][n] = handler[g][old(g, n)]
  <2>1. handler[g][old(g, n)] \in Scripts
    BY <1>1, <1>5, <1>6
  <2> DEFINE r == handler[g][old(g, n)]
  <2>2. /\ Marked(r, d).dev = r.dev
        /\ r.dev = d \/ r.how = "company" => Marked(r, d).how = "company"
        /\ r.dev # d => Marked(r, d) = r
    BY <2>1, MarkedFacts
  <2>3. /\ handler'[g][n] = IF g = h /\ n = 2 THEN t ELSE Marked(r, d)
        /\ g = h /\ n = 2 => handler[h] # <<>> /\ r = Top(h)
    BY <1>5, <1>6
  <2> HIDE DEF r, old
  <2>4. CASE g = h /\ n = 2
    BY <2>3, <2>4 DEF r
  <2>5. CASE ~(g = h /\ n = 2)
    BY <2>2, <2>3, <2>5 DEF r
  <2> QED
    BY <2>4, <2>5
\* where those of the old state go
<1>7. ASSUME NEW g \in Devices, NEW m \in 1..Len(handler[g])
      PROVE  \E n \in 1..Len(handler'[g]) : ~(g = h /\ n = 1) /\ m = old(g, n)
  <2>1. CASE g # h
    BY <1>2, <2>1
  <2>2. CASE g = h
    <3>1. m + 1 \in 1..Len(handler'[h]) /\ m + 1 # 1 /\ (m + 1) - 1 = m
      BY <1>1, <1>2, <2>2
    <3> QED
      BY <2>2, <3>1
  <2> QED
    BY <2>1, <2>2
<1>8. 1 \in 1..Len(handler'[h])
  BY <1>1, <1>2
<1>9. new \in Run(d)'
  BY <1>1, <1>2, <1>8 DEF Run
<1> HIDE DEF old
<1>10. ASSUME NEW e \in Devices, NEW s \in Run(e)'
       PROVE  \/ s = new /\ e = d
              \/ e = d /\ s.how = "company" /\ Run(d) # {}
              \/ handler[h] # <<>> /\ e = t.dev /\ s = t
              \/ e # d /\ s \in Run(e)
  <2>1. PICK g \in Devices : \E n \in 1..Len(handler'[g]) : s = handler'[g][n]
    BY DEF Run
  <2>2. PICK n \in 1..Len(handler'[g]) : s = handler'[g][n]
    BY <2>1
  <2>3. s \in Scripts /\ s.dev = e
    BY DEF Run
  <2>4. CASE g = h /\ n = 1
    BY <1>2, <2>2, <2>3, <2>4
  <2>5. CASE ~(g = h /\ n = 1)
    <3>1. /\ old(g, n) \in 1..Len(handler[g])
          /\ s = IF g = h /\ n = 2 THEN t ELSE Marked(handler[g][old(g, n)], d)
          /\ g = h /\ n = 2 => handler[h] # <<>>
      BY <1>5, <2>2, <2>5
    <3>2. /\ s.dev = handler[g][old(g, n)].dev
          /\ s.dev = d => s.how = "company"
          /\ s.dev # d /\ ~(g = h /\ n = 2) => s = handler[g][old(g, n)]
      BY <1>6, <2>2, <2>5
    <3>3. handler[g][old(g, n)] \in Run(e)
      BY <1>1, <2>3, <3>1, <3>2 DEF Run
    <3>4. CASE e = d
      BY <2>3, <3>2, <3>3, <3>4
    <3>5. CASE e # d /\ g = h /\ n = 2
      BY <2>3, <3>1, <3>5
    <3>6. CASE e # d /\ ~(g = h /\ n = 2)
      BY <2>3, <3>2, <3>3, <3>6
    <3> QED
      BY <3>4, <3>5, <3>6
  <2> QED
    BY <2>4, <2>5
<1>11. ASSUME NEW e \in Devices, NEW r \in Run(e)
       PROVE  /\ e = d => \E s \in Run(d)' : s.pc = r.pc /\ s.todo = r.todo
              /\ e # d => r \in Run(e)' \/ (handler[h] # <<>> /\ e = t.dev /\ r = Top(h))
  <2>1. PICK g \in Devices : \E m \in 1..Len(handler[g]) : r = handler[g][m]
    BY DEF Run
  <2>2. PICK m \in 1..Len(handler[g]) : r = handler[g][m]
    BY <2>1
  <2>3. r \in Scripts /\ r.dev = e
    BY DEF Run
  <2>4. PICK n \in 1..Len(handler'[g]) : ~(g = h /\ n = 1) /\ m = old(g, n)
    BY <1>7
  <2>5. /\ handler'[g][n] = IF g = h /\ n = 2 THEN t ELSE Marked(r, d)
        /\ g = h /\ n = 2 => handler[h] # <<>> /\ r = Top(h)
    BY <1>5, <2>2, <2>4
  <2>6. handler'[g][n] \in Scripts /\ handler'[g][n].dev = e
    <3>1. handler'[g] \in Seq(Scripts)
      BY <1>1
    <3>2. handler'[g][n] \in Scripts
      BY <3>1
    <3>3. handler'[g][n].dev = handler[g][m].dev
      BY <1>6, <2>4
    <3> QED
      BY <2>2, <2>3, <3>2, <3>3
  <2>7. handler'[g][n] \in Run(e)'
    BY <2>6 DEF Run
  <2>8. /\ Marked(r, d).pc = r.pc /\ Marked(r, d).todo = r.todo
        /\ r.dev # d => Marked(r, d) = r
    BY <2>3, MarkedFacts
  <2>9. CASE g = h /\ n = 2
    BY <2>3, <2>5, <2>9
  <2>10. CASE ~(g = h /\ n = 2)
    BY <2>3, <2>5, <2>7, <2>8, <2>10
  <2> QED
    BY <2>9, <2>10
<1>12. AloneInv'
  <2> SUFFICES ASSUME NEW g1 \in Devices, NEW g2 \in Devices,
                      NEW n1 \in 1..Len(handler'[g1]), NEW n2 \in 1..Len(handler'[g2]),
                      handler'[g1][n1].dev = handler'[g2][n2].dev
               PROVE  (g1 = g2 /\ n1 = n2) \/ handler'[g1][n1].how = "company"
    BY DEF AloneInv
  <2>1. CASE g1 = h /\ n1 = 1
    <3>1. CASE g2 = h /\ n2 = 1
      BY <2>1, <3>1
    <3>2. CASE ~(g2 = h /\ n2 = 1)
      <4>1. handler[g2][old(g2, n2)].dev = d /\ old(g2, n2) \in 1..Len(handler[g2])
        BY <1>2, <1>5, <1>6, <2>1, <3>2
      <4>2. Run(d) # {}
        BY <1>1, <4>1 DEF Run
      <4> QED
        BY <1>2, <2>1, <4>2
    <3> QED
      BY <3>1, <3>2
  <2>2. CASE ~(g1 = h /\ n1 = 1)
    <3>1. CASE g2 = h /\ n2 = 1
      BY <1>2, <1>6, <2>2, <3>1
    <3>2. CASE ~(g2 = h /\ n2 = 1)
      <4>1. /\ old(g1, n1) \in 1..Len(handler[g1]) /\ old(g2, n2) \in 1..Len(handler[g2])
            /\ handler[g1][old(g1, n1)].dev = handler[g2][old(g2, n2)].dev
            /\ handler[g1][old(g1, n1)].how = "company" => handler'[g1][n1].how = "company"
        BY <1>5, <1>6, <2>2, <3>2
      <4>2. (g1 = g2 /\ old(g1, n1) = old(g2, n2)) \/ handler[g1][old(g1, n1)].how = "company"
        BY <4>1 DEF AloneInv
      <4> QED
        BY <1>1, <4>1, <4>2 DEF old
    <3> QED
      BY <3>1, <3>2
  <2> QED
    BY <2>1, <2>2
<1>13. Joins(d, new)
  BY <1>1, <1>9, <1>10, <1>11 DEF Joins
<1>14. ASSUME handler[h] # <<>>
       PROVE  /\ t \in Run(t.dev)'
              /\ Run(t.dev) \subseteq Run(t.dev)' \cup {Top(h)}
              /\ Run(t.dev)' \subseteq Run(t.dev) \cup {t}
              /\ Top(h).how # "company" => Run(t.dev)' = {t}
  <2>1. t.dev \in Devices
    BY DEF Scripts
  <2>2. t \in Run(t.dev)'
    <3>1. 2 \in 1..Len(handler'[h]) /\ handler'[h][2] = t
      BY <1>1, <1>2, <1>3, <1>14
    <3> QED
      BY <3>1 DEF Run
  <2>3. Run(t.dev)' \subseteq Run(t.dev) \cup {t} /\ Run(t.dev) \subseteq Run(t.dev)' \cup {Top(h)}
    BY <1>10, <1>11, <1>14, <2>1
  <2>4. ASSUME Top(h).how # "company", NEW s \in Run(t.dev)' PROVE s = t
    <3>1. PICK g \in Devices : \E n \in 1..Len(handler'[g]) : s = handler'[g][n]
      BY DEF Run
    <3>2. PICK n \in 1..Len(handler'[g]) : s = handler'[g][n]
      BY <3>1
    <3>3. s.dev = t.dev
      BY DEF Run
    <3>4. 2 \in 1..Len(handler'[h]) /\ handler'[h][2] = t
      BY <1>1, <1>2, <1>3, <1>14
    <3>5. (h = g /\ 2 = n) \/ handler'[h][2].how = "company"
      BY <1>12, <3>2, <3>3, <3>4 DEF AloneInv
    <3> QED
      BY <1>14, <2>4, <3>2, <3>4, <3>5
  <2> QED
    BY <2>2, <2>3, <2>4
<1>15. \A e \in Devices : e # d /\ (handler[h] = <<>> \/ e # t.dev) => Run(e)' = Run(e)
  BY <1>10, <1>11
<1> QED
  BY <1>12, <1>13, <1>14, <1>15

(* Disturbed by company marks the scripts of one device. *)
LEMMA DisturbedMarks ==
    ASSUME TypeInv, NEW d
    PROVE  /\ Disturbed({d}, "company") \in [Devices -> Seq(Scripts)]
           /\ \A g \in Devices : Len(Disturbed({d}, "company")[g]) = Len(handler[g])
           /\ \A g \in Devices : \A n \in 1..Len(handler[g]) :
                Disturbed({d}, "company")[g][n] = Marked(handler[g][n], d)
<1>1. "company" \in Hows
  BY DEF Hows
<1> DEFINE D == Disturbed({d}, "company")
<1>2. /\ D \in [Devices -> Seq(Scripts)]
      /\ \A h \in Devices : Len(D[h]) = Len(handler[h])
      /\ \A h \in Devices : \A n \in 1..Len(handler[h]) :
            D[h][n] = IF handler[h][n].dev \in {d} /\ handler[h][n].how # "company"
                      THEN [handler[h][n] EXCEPT !.how = "company"] ELSE handler[h][n]
  BY <1>1, DisturbedFacts
<1> HIDE DEF D
<1>3. \A h \in Devices : \A n \in 1..Len(handler[h]) : D[h][n] = Marked(handler[h][n], d)
  BY <1>2 DEF Marked
<1> QED
  BY <1>2, <1>3 DEF D

(* refresh_another() for a device that is there *)
LEMMA RefreshFacts ==
    ASSUME TypeInv, NEW h \in Devices, handler[h] # <<>>, NEW d \in exists,
           NEW label \in Early, d # Top(h).dev, refresh_another(h, d, label)
    PROVE  Arrives(h, Script(d, "start"), [Top(h) EXCEPT !.pc = label])
<1> DEFINE D == Disturbed({d}, "company")
           new == Script(d, "start")
           t == [Top(h) EXCEPT !.pc = label]
<1>1. /\ D \in [Devices -> Seq(Scripts)]
      /\ \A g \in Devices : Len(D[g]) = Len(handler[g])
      /\ \A g \in Devices : \A n \in 1..Len(handler[g]) : D[g][n] = Marked(handler[g][n], d)
  BY DisturbedMarks
<1>2. /\ Len(handler[h]) \in Nat /\ Len(handler[h]) >= 1
      /\ Top(h) = handler[h][1] /\ Top(h) \in Scripts
  BY TopFacts
<1>3. new \in Scripts /\ new.dev = d
  BY DEF Script, Scripts, Pcs, Early, Hows, TypeInv
<1>4. t \in Scripts
  BY <1>2 DEF Scripts, Pcs
<1> HIDE DEF new, D
<1>5. handler' = [D EXCEPT ![h] = <<new, [Head(D[h]) EXCEPT !.pc = label]>> \o Tail(D[h])]
  BY DEF refresh_another, D, new
<1>6. /\ D[h] \in Seq(Scripts) /\ D[h] # <<>> /\ Head(D[h]) = D[h][1]
      /\ Tail(D[h]) \in Seq(Scripts) /\ Len(Tail(D[h])) = Len(handler[h]) - 1
      /\ \A n \in 1..(Len(handler[h]) - 1) : Tail(D[h])[n] = D[h][n + 1]
  BY <1>1, <1>2
<1>7. Head(D[h]) = Top(h)
  BY <1>1, <1>2, <1>6, MarkedFacts
<1>8. handler' = [D EXCEPT ![h] = <<new, t>> \o Tail(D[h])]
  BY <1>5, <1>7
<1> HIDE DEF t
<1> DEFINE w == <<new, t>> \o Tail(D[h])
<1>9. <<new, t>> \in Seq(Scripts) /\ Len(<<new, t>>) = 2 /\ <<new, t>>[1] = new /\ <<new, t>>[2] = t
  BY <1>3, <1>4
<1>10. /\ w \in Seq(Scripts) /\ Len(w) = Len(handler[h]) + 1
       /\ \A i \in 1..(Len(handler[h]) + 1) : w[i] = IF i <= 2 THEN <<new, t>>[i] ELSE Tail(D[h])[i - 2]
  BY <1>2, <1>6, <1>9, ConcatProperties
<1>11. \A n \in 2..(Len(handler[h]) + 1) :
            w[n] = IF n = 2 THEN t ELSE Marked(handler[h][n - 1], d)
  <2> SUFFICES ASSUME NEW n \in 2..(Len(handler[h]) + 1)
               PROVE  w[n] = IF n = 2 THEN t ELSE Marked(handler[h][n - 1], d)
    OBVIOUS
  <2>1. CASE n = 2
    BY <1>2, <1>9, <1>10, <2>1
  <2>2. CASE n # 2
    <3>1. w[n] = Tail(D[h])[n - 2] /\ n - 2 \in 1..(Len(handler[h]) - 1) /\ (n - 2) + 1 = n - 1
      BY <1>2, <1>10, <2>2
    <3>2. Tail(D[h])[n - 2] = D[h][n - 1] /\ n - 1 \in 1..Len(handler[h])
      BY <1>2, <1>6, <3>1
    <3> QED
      BY <1>1, <2>2, <3>1, <3>2
  <2> QED
    BY <2>1, <2>2
<1>12. w[1] = new
  BY <1>2, <1>9, <1>10
<1> HIDE DEF w
<1>13. handler' = [D EXCEPT ![h] = w]
  BY <1>8 DEF w
<1>14. handler' \in [Devices -> Seq(Scripts)] /\ handler'[h] = w
       /\ \A g \in Devices : g # h => handler'[g] = D[g]
  BY <1>1, <1>10, <1>13
<1>15. Arrives(h, new, t)
  BY <1>1, <1>3, <1>10, <1>11, <1>12, <1>14 DEF Arrives
<1> QED
  BY <1>15 DEF new, t

(* A script that starts is alone or has company. *)
LEMMA NewScript ==
    ASSUME TypeInv, NEW d \in Devices, NEW start \in {"start", "gone"}
    PROVE  /\ Script(d, start) \in Scripts
           /\ Script(d, start).dev = d /\ Script(d, start).pc = start
           /\ Script(d, start).todo = Parts
           /\ Script(d, start).how = IF Run(d) # {} THEN "company" ELSE "clean"
  BY RunningFacts DEF Script, Scripts, Pcs, Early, Removal, Hows

(* One value of a function is replaced. *)
LEMMA ExceptFacts ==
    ASSUME NEW S, NEW T, NEW f \in [S -> T], NEW x \in S, NEW v \in T
    PROVE  /\ [f EXCEPT ![x] = v] \in [S -> T]
           /\ [f EXCEPT ![x] = v][x] = v
           /\ \A y \in S : y # x => [f EXCEPT ![x] = v][y] = f[y]
  OBVIOUS

(* The script that udevd starts is a new script on a handler that was idle. *)
LEMMA StartFacts ==
    ASSUME TypeInv, NEW d \in Devices, handler[d] = <<>>, NEW new \in Scripts, new.dev = d,
           handler' = [Disturbed({d}, "company") EXCEPT ![d] = <<new>>]
    PROVE  Arrives(d, new, new)
<1> DEFINE D == Disturbed({d}, "company")
<1>1. /\ D \in [Devices -> Seq(Scripts)]
      /\ \A g \in Devices : Len(D[g]) = Len(handler[g])
      /\ \A g \in Devices : \A n \in 1..Len(handler[g]) : D[g][n] = Marked(handler[g][n], d)
  BY DisturbedMarks
<1> HIDE DEF D
<1> DEFINE w == <<new>>
<1>3. w \in Seq(Scripts) /\ Len(w) = 1 /\ w[1] = new
  OBVIOUS
<1>2. handler' = [D EXCEPT ![d] = w]
  BY DEF D
<1> HIDE DEF w
<1>4. handler' \in [Devices -> Seq(Scripts)] /\ handler'[d] = w
      /\ \A g \in Devices : g # d => handler'[g] = D[g]
  <2>1. /\ [D EXCEPT ![d] = w] \in [Devices -> Seq(Scripts)]
        /\ [D EXCEPT ![d] = w][d] = w
        /\ \A g \in Devices : g # d => [D EXCEPT ![d] = w][g] = D[g]
    <3>1. D \in [Devices -> Seq(Scripts)] /\ w \in Seq(Scripts)
      BY <1>1, <1>3
    <3> QED
      BY <3>1, ExceptFacts
  <2> QED
    BY <1>2, <2>1
<1>5. Len(handler[d]) = 0
  OBVIOUS
<1>6. \A g \in Devices : g # d =>
            /\ Len(handler'[g]) = Len(handler[g])
            /\ \A n \in 1..Len(handler[g]) : handler'[g][n] = Marked(handler[g][n], d)
  <2> SUFFICES ASSUME NEW g \in Devices, g # d
               PROVE  /\ Len(handler'[g]) = Len(handler[g])
                      /\ \A n \in 1..Len(handler[g]) : handler'[g][n] = Marked(handler[g][n], d)
    BY Zenon
  <2>1. handler'[g] = D[g]
    BY <1>4, Zenon
  <2>2. /\ Len(D[g]) = Len(handler[g])
        /\ \A n \in 1..Len(handler[g]) : D[g][n] = Marked(handler[g][n], d)
    BY <1>1, Zenon
  <2> QED
    BY <2>1, <2>2, Zenon
<1>7. Len(handler'[d]) = Len(handler[d]) + 1 /\ handler'[d][1] = new
  BY <1>3, <1>4, <1>5
<1>8. \A n \in 2..(Len(handler[d]) + 1) : FALSE
  BY <1>5
<1> QED
  BY <1>4, <1>6, <1>7, <1>8, Zenon DEF Arrives

(* The script for the removal of Dm ends, and those for the slaves, if     *)
(* these were missed, are marked.                                          *)
Misses(e) ==
    /\ \A r \in Run(e) : \E s \in Run(e)' :
            s.pc = r.pc /\ s.todo = r.todo /\ (s.how = "company" <=> r.how = "company")
    /\ \A s \in Run(e)' : s.how \in {"company", "missed"} /\ \E r \in Run(e) :
            s.pc = r.pc /\ s.todo = r.todo /\ (s.how = "company" <=> r.how = "company")

(* What the removal of Dm, passed on to the slaves in its cache, does to the
   scripts that run for each device. *)
LEMMA ClearsRun ==
    ASSUME TypeInv, AloneInv, NEW h \in Devices, Len(handler[h]) = 1,
           NEW missed \in SUBSET Devices, Top(h).dev \notin missed,
           NEW d, d = Top(h).dev,
           Top(h).how # "company",
           handler' = [Disturbed(missed, "missed") EXCEPT ![h] = <<>>]
    PROVE  /\ handler' \in [Devices -> Seq(Scripts)]
           /\ Run(d)' = {}
           /\ \A e \in Devices \ (missed \cup {d}) : Run(e)' = Run(e)
           /\ \A e \in missed : Misses(e)
           /\ AloneInv'
<1> DEFINE D == Disturbed(missed, "missed")
           m(s) == IF s.dev \in missed /\ s.how # "company" THEN [s EXCEPT !.how = "missed"] ELSE s
<1>1. /\ D \in [Devices -> Seq(Scripts)]
      /\ \A g \in Devices : Len(D[g]) = Len(handler[g])
      /\ \A g \in Devices : \A n \in 1..Len(handler[g]) : D[g][n] = m(handler[g][n])
  <2>1. "missed" \in Hows
    BY DEF Hows
  <2> QED
    BY <2>1, DisturbedFacts, Zenon
<1>2. ASSUME NEW s \in Scripts
      PROVE  /\ m(s) \in Scripts /\ m(s).dev = s.dev /\ m(s).pc = s.pc /\ m(s).todo = s.todo
             /\ m(s).how = "company" <=> s.how = "company"
             /\ s.dev \in missed => m(s).how \in {"company", "missed"}
             /\ s.dev \notin missed => m(s) = s
  BY DEF Scripts, Hows
<1> HIDE DEF D, m
<1> DEFINE w == <<>>
<1>0. w \in Seq(Scripts) /\ Len(w) = 0
  OBVIOUS
<1>3. handler' = [D EXCEPT ![h] = w]
  BY DEF D
<1> HIDE DEF w
<1>4. handler' \in [Devices -> Seq(Scripts)] /\ Len(handler'[h]) = 0
      /\ \A g \in Devices : g # h => handler'[g] = D[g]
  BY <1>0, <1>1, <1>3
<1>5. \A g \in Devices : \A n \in 1..Len(handler'[g]) :
         g # h /\ n \in 1..Len(handler[g]) /\ handler'[g][n] = m(handler[g][n])
  BY <1>1, <1>4
<1>6. \A g \in Devices : \A n \in 1..Len(handler[g]) : handler[g][n] \in Scripts
  BY DEF TypeInv
<1>7. handler[h] # <<>> /\ Top(h) = handler[h][1] /\ 1 \in 1..Len(handler[h]) /\ Top(h) \in Scripts
      /\ d \in Devices
  <2>1. handler[h] # <<>>
    OBVIOUS
  <2> QED
    BY <2>1, TopFacts
<1>8. ASSUME NEW e \in Devices, NEW s \in Run(e)'
      PROVE  e # d /\ \E r \in Run(e) : s = m(r)
  <2>1. PICK g \in Devices : \E n \in 1..Len(handler'[g]) : s = handler'[g][n]
    BY DEF Run
  <2>2. PICK n \in 1..Len(handler'[g]) : s = handler'[g][n]
    BY <2>1
  <2>3. s \in Scripts /\ s.dev = e
    BY DEF Run
  <2>4. g # h /\ n \in 1..Len(handler[g]) /\ s = m(handler[g][n]) /\ handler[g][n] \in Scripts
    BY <1>5, <1>6, <2>2
  <2>5. handler[g][n].dev = e
    BY <1>2, <2>3, <2>4
  <2>6. handler[g][n] \in Run(e)
    BY <2>4, <2>5 DEF Run
  <2>7. e # d
    BY <1>7, <2>4, <2>5 DEF AloneInv
  <2> QED
    BY <2>4, <2>6, <2>7
<1>9. ASSUME NEW e \in Devices, e # d, NEW r \in Run(e)
      PROVE  m(r) \in Run(e)'
  <2>1. PICK g \in Devices : \E n \in 1..Len(handler[g]) : r = handler[g][n]
    BY DEF Run
  <2>2. PICK n \in 1..Len(handler[g]) : r = handler[g][n]
    BY <2>1
  <2>3. r \in Scripts /\ r.dev = e
    BY DEF Run
  <2>4. g # h
    BY <1>7, <1>9, <2>2, <2>3
  <2>5. n \in 1..Len(handler'[g]) /\ handler'[g][n] = m(r)
    BY <1>1, <1>4, <2>2, <2>4
  <2>6. m(r) \in Scripts /\ m(r).dev = e
    BY <1>2, <2>3
  <2> QED
    BY <2>5, <2>6 DEF Run
<1>10. Run(d)' = {}
  BY <1>7, <1>8
<1>11. ASSUME NEW e \in Devices \ (missed \cup {d}) PROVE Run(e)' = Run(e)
  <2>1. \A r \in Run(e) : r \in Scripts /\ r.dev = e
    BY DEF Run
  <2>2. \A r \in Run(e) : m(r) = r
    BY <1>2, <1>11, <2>1
  <2> QED
    <3>1. e \in Devices /\ e # d
      BY <1>11
    <3>2. \A s \in Run(e)' : s \in Run(e)
      BY <1>8, <2>2, <3>1
    <3>3. \A s \in Run(e) : s \in Run(e)'
      BY <1>9, <2>2, <3>1
    <3> QED
      BY <3>2, <3>3
<1>12. ASSUME NEW e \in missed PROVE Misses(e)
  <2>1. \A r \in Run(e) : r \in Scripts /\ r.dev = e
    BY DEF Run
  <2>2. e # d /\ e \in Devices
    BY <1>12
  <2>3. \A r \in Run(e) :
            /\ m(r).pc = r.pc /\ m(r).todo = r.todo /\ (m(r).how = "company" <=> r.how = "company")
            /\ m(r).how \in {"company", "missed"}
    BY <1>2, <1>12, <2>1
  <2> QED
    BY <1>8, <1>9, <2>2, <2>3 DEF Misses
<1>13. AloneInv'
  <2> SUFFICES ASSUME NEW g1 \in Devices, NEW g2 \in Devices,
                      NEW n1 \in 1..Len(handler'[g1]), NEW n2 \in 1..Len(handler'[g2]),
                      handler'[g1][n1].dev = handler'[g2][n2].dev
               PROVE  (g1 = g2 /\ n1 = n2) \/ handler'[g1][n1].how = "company"
    BY DEF AloneInv
  <2>1. /\ n1 \in 1..Len(handler[g1]) /\ handler'[g1][n1] = m(handler[g1][n1]) /\ handler[g1][n1] \in Scripts
        /\ n2 \in 1..Len(handler[g2]) /\ handler'[g2][n2] = m(handler[g2][n2]) /\ handler[g2][n2] \in Scripts
    BY <1>5, <1>6
  <2>2. /\ handler[g1][n1].dev = handler[g2][n2].dev
        /\ handler[g1][n1].how = "company" => handler'[g1][n1].how = "company"
    <3>1. /\ m(handler[g1][n1]).dev = handler[g1][n1].dev
          /\ m(handler[g2][n2]).dev = handler[g2][n2].dev
          /\ m(handler[g1][n1]).how = "company" <=> handler[g1][n1].how = "company"
      BY <1>2, <2>1
    <3> QED
      BY <2>1, <3>1
  <2>3. (g1 = g2 /\ n1 = n2) \/ handler[g1][n1].how = "company"
    BY <2>1, <2>2 DEF AloneInv
  <2> QED
    BY <2>2, <2>3
<1> QED
  BY <1>4, <1>10, <1>11, <1>12, <1>13

-----------------------------------------------------------------------------
(* StackInv when a script goes on, ends or arrives *)

(* A script that goes on stays well placed. *)
LEMMA ChangesStack ==
    ASSUME TypeInv, StackInv, NEW h \in Devices, handler[h] # <<>>, NEW t \in Scripts,
           Changes(h, t), t.dev = Top(h).dev,
           Top(h).how # "company" => t.how # "company",
           t.pc \in Removal => Top(h).pc \in Removal,
           t.pc \in Early => t.todo = Parts,
           t.pc = "parent" => t.dev \in Parts
    PROVE  StackInv'
<1>1. /\ Len(handler[h]) \in Nat /\ 1 \in 1..Len(handler[h]) /\ Top(h) = handler[h][1]
  BY TopFacts
<1>2. /\ \A g \in Devices : Len(handler'[g]) = Len(handler[g])
      /\ handler'[h][1] = t
      /\ \A g \in Devices : \A n \in 1..Len(handler[g]) :
            ~(g = h /\ n = 1) => handler'[g][n] = handler[g][n]
  BY DEF Changes
<1> SUFFICES ASSUME NEW g \in Devices, NEW n \in 1..Len(handler'[g])
             PROVE  ScriptOk(g, handler[g][n])'
  BY DEF StackInv
<1>3. n \in 1..Len(handler[g]) /\ ScriptOk(g, handler[g][n])
  BY <1>2 DEF StackInv
<1>4. CASE g = h /\ n = 1
  BY <1>1, <1>2, <1>3, <1>4 DEF ScriptOk
<1>5. CASE ~(g = h /\ n = 1)
  BY <1>2, <1>3, <1>5 DEF ScriptOk
<1> QED
  BY <1>4, <1>5

(* When a script ends, the one below it was not alone in its handler. *)
LEMMA PopsStack ==
    ASSUME TypeInv, StackInv, NEW h \in Devices, handler[h] # <<>>, Pops(h)
    PROVE  StackInv'
<1>1. Len(handler[h]) \in Nat
  BY TopFacts
<1>2. /\ \A g \in Devices : g # h => handler'[g] = handler[g]
      /\ Len(handler'[h]) = Len(handler[h]) - 1
      /\ \A n \in 1..(Len(handler[h]) - 1) : handler'[h][n] = handler[h][n + 1]
  BY DEF Pops
<1> SUFFICES ASSUME NEW g \in Devices, NEW n \in 1..Len(handler'[g])
             PROVE  ScriptOk(g, handler[g][n])'
  BY DEF StackInv
<1>3. CASE g # h
  BY <1>2, <1>3 DEF StackInv, ScriptOk
<1>4. CASE g = h
  <2>1. /\ n + 1 \in 1..Len(handler[h]) /\ handler'[g][n] = handler[h][n + 1]
        /\ Len(handler[h]) # 1
    BY <1>1, <1>2, <1>4
  <2>2. ScriptOk(h, handler[h][n + 1])
    BY <2>1 DEF StackInv
  <2> QED
    BY <1>4, <2>1, <2>2 DEF ScriptOk
<1> QED
  BY <1>3, <1>4

(* A script does not start on top of one of udev-block-remove, and one for *)
(* Dm only when there is no other.                                         *)
LEMMA ArrivesStack ==
    ASSUME TypeInv, StackInv, NEW h \in Devices, NEW new \in Scripts, NEW t \in Scripts,
           Arrives(h, new, t),
           new.dev = Dm => h = Dm /\ new.how # "company" /\ Run(Dm) = {},
           new.todo = Parts, new.pc # "parent",
           handler[h] # <<>> =>
                /\ new.pc \notin Removal /\ Top(h).pc \notin Removal
                /\ t.dev = Top(h).dev /\ t.how = Top(h).how /\ t.todo = Parts
                /\ t.pc \in Early /\ (t.pc = "parent" => t.dev \in Parts)
    PROVE  StackInv'
<1> DEFINE d == new.dev
<1>1. /\ \A g \in Devices : Len(handler[g]) \in Nat
      /\ \A g \in Devices : \A n \in 1..Len(handler[g]) : handler[g][n] \in Scripts
  BY DEF TypeInv
<1>2. /\ \A g \in Devices : g # h =>
            /\ Len(handler'[g]) = Len(handler[g])
            /\ \A n \in 1..Len(handler[g]) : handler'[g][n] = Marked(handler[g][n], d)
      /\ Len(handler'[h]) = Len(handler[h]) + 1
      /\ handler'[h][1] = new
      /\ \A n \in 2..(Len(handler[h]) + 1) :
            handler'[h][n] = IF n = 2 THEN t ELSE Marked(handler[h][n - 1], d)
  BY DEF Arrives
<1>3. handler[h] # <<>> => Top(h) = handler[h][1] /\ Len(handler[h]) >= 1
  BY TopFacts
<1>4. handler[h] = <<>> => Len(handler[h]) = 0
  OBVIOUS
<1> HIDE DEF d
<1>5. ASSUME NEW g \in Devices, NEW n \in 1..Len(handler[g])
      PROVE  /\ ScriptOk(g, handler[g][n])
             /\ Marked(handler[g][n], d).dev = handler[g][n].dev
             /\ Marked(handler[g][n], d).pc = handler[g][n].pc
             /\ Marked(handler[g][n], d).todo = handler[g][n].todo
             /\ handler[g][n].dev = Dm => Marked(handler[g][n], d).how # "company"
  <2>1. handler[g][n] \in Scripts /\ ScriptOk(g, handler[g][n])
    BY <1>1 DEF StackInv
  <2>2. handler[g][n].dev = Dm => d # Dm /\ handler[g][n].how # "company"
    <3>1. handler[g][n].dev = Dm => Run(Dm) # {}
      BY <2>1 DEF Run
    <3> QED
      BY <2>1, <3>1 DEF ScriptOk, d
  <2> QED
    BY <2>1, <2>2, MarkedFacts
<1> SUFFICES ASSUME NEW g \in Devices, NEW n \in 1..Len(handler'[g])
             PROVE  ScriptOk(g, handler[g][n])'
  BY DEF StackInv
<1>6. CASE g # h
  BY <1>2, <1>5, <1>6 DEF ScriptOk
<1>7. CASE g = h /\ n = 1
  <2>1. handler'[g][n] = new
    BY <1>2, <1>7
  <2>3. Len(handler[h]) = 0 => Len(handler'[g]) = 1
    BY <1>2, <1>7
  <2> QED
    BY <1>4, <1>7, <2>1, <2>3 DEF ScriptOk
<1>8. CASE g = h /\ n = 2
  <2>1. handler[h] # <<>> /\ handler'[g][n] = t /\ Top(h) = handler[h][1] /\ 1 \in 1..Len(handler[h])
    BY <1>1, <1>2, <1>3, <1>4, <1>8
  <2>2. ScriptOk(h, Top(h))
    BY <1>5, <2>1
  <2> QED
    BY <1>8, <2>1, <2>2 DEF ScriptOk, Early, Removal
<1>9. CASE g = h /\ n \notin {1, 2}
  <2>1. /\ n \in 2..(Len(handler[h]) + 1) /\ n - 1 \in 1..Len(handler[h])
        /\ Len(handler[h]) # 1
    BY <1>1, <1>2, <1>9
  <2>2. handler'[g][n] = Marked(handler[h][n - 1], d)
    BY <1>2, <1>9, <2>1
  <2>3. ScriptOk(h, handler[h][n - 1])
    BY <1>5, <2>1
  <2> QED
    BY <1>5, <1>9, <2>1, <2>2, <2>3 DEF ScriptOk
<1> QED
  BY <1>6, <1>7, <1>8, <1>9

-----------------------------------------------------------------------------
(* The invariant for one device when a script takes a step *)

(* What is known after any step that leaves the kernel's state alone *)
LEMMA KernelSame ==
    ASSUME TypeInv, KernelInv, UNCHANGED kernelVars
    PROVE  /\ KernelInv'
           /\ exists' = exists /\ mounted' = mounted /\ attached' = attached
           /\ \A d \in Devices : Unused(d)' <=> Unused(d)
           /\ mounted \subseteq exists /\ attached \subseteq exists
           /\ Dm \in exists => Slave \in exists
           /\ exists \cap Parts # {} => Disk \in exists /\ Parts \subseteq exists
           /\ Slave \in Parts /\ Dm \notin Parts /\ Disk \notin Parts /\ Disk # Dm
           /\ Disk \in Devices /\ Dm \in Devices /\ Slave \in Devices
<1>1. exists' = exists /\ mounted' = mounted /\ attached' = attached
  BY DEF kernelVars
<1>2. KernelInv'
  BY <1>1 DEF KernelInv
<1>3. \A d \in Devices : Unused(d)' <=> Unused(d)
  BY <1>1 DEF Unused, is_used, is_attached, Claimed
<1>4. /\ mounted \subseteq exists /\ attached \subseteq exists
      /\ Dm \in exists => Slave \in exists
      /\ exists \cap Parts # {} => Disk \in exists /\ Parts \subseteq exists
  BY DEF TypeInv, KernelInv
<1>5. /\ Slave \in Parts /\ Dm \notin Parts /\ Disk \notin Parts /\ Disk # Dm
      /\ Disk \in Devices /\ Dm \in Devices /\ Slave \in Devices
  BY UdevAssumption DEF Devices
<1> QED
  BY <1>1, <1>2, <1>3, <1>4, <1>5, Zenon

(* A script that is going to read everything about its device sees         *)
(* whatever is wrong.                                                      *)
LEMMA WillSee ==
    ASSUME TypeInv', KernelInv', NEW d \in Devices,
           d \in exists' => Looks(d)',
           d \notin exists' => Removed(d)' \/ HasScript(d, {"gone"})'
    PROVE  Seen(d)'
<1>1. /\ mounted' \subseteq exists' /\ attached' \subseteq exists'
      /\ Dm \in exists' => Slave \in exists'
      /\ exists' \cap Parts # {} => Disk \in exists'
  BY DEF TypeInv, KernelInv
<1>2. Slave \in Parts
  BY UdevAssumption
<1>3. CASE d \in exists'
  BY <1>3 DEF Seen, LooksAtPart
<1>4. CASE d \notin exists'
  BY <1>1, <1>2, <1>4 DEF Seen
<1> QED
  BY <1>3, <1>4

(* All scripts for d have company, or had: nothing is promised for d.      *)
LEMMA CompanyOk ==
    ASSUME NEW d \in Devices,
           \A s \in Run(d)' : s.how = "company",
           Run(d)' = {} => last'[d] = "company"
    PROVE  FollowOk(d)' /\ ListOk(d)' /\ FreeOk(d)'
<1>1. FollowOk(d)'
  BY DEF FollowOk
<1>2. CASE Run(d)' = {}
  BY <1>1, <1>2 DEF ListOk, FreeOk, HasScript
<1>3. CASE Run(d)' # {}
  <2>1. ~Alone(d)' /\ ~AllClean(d)'
    BY <1>3 DEF Alone, AllClean
  <2> QED
    BY <1>1, <2>1 DEF ListOk, FreeOk
<1> QED
  BY <1>1, <1>2, <1>3

(* A step of a script for d keeps what holds for the other devices.  They  *)
(* count on d to look at its disk (1) or its slave (2), and at its slave   *)
(* when it is gone (3).                                                    *)
LEMMA OthersOk ==
    ASSUME TypeInv, KernelInv, FollowInv, ListInv, FreeInv, NEW d \in Devices,
           UNCHANGED kernelVars, UNCHANGED queue,
           \A e \in Devices : e # d =>
                Run(e)' = Run(e) /\ (e \in listed' <=> e \in listed) /\ last'[e] = last[e],
           d \in Parts \cap exists /\ HasScript(d, {"start"}) => HasScript(d, {"start"})',
           d = Dm /\ Dm \in exists /\ HasScript(d, {"start", "slaves"}) =>
                HasScript(d, {"start", "slaves"})',
           d = Dm /\ HasScript(d, Removal) => HasScript(d, Removal)',
           NEW e \in Devices, e # d
    PROVE  FollowOk(e)' /\ ListOk(e)' /\ FreeOk(e)'
<1>1. /\ exists' = exists /\ mounted' = mounted /\ attached' = attached
      /\ Unused(e)' <=> Unused(e)
      /\ mounted \subseteq exists /\ attached \subseteq exists
      /\ Dm \in exists => Slave \in exists
      /\ Slave \in Parts /\ Dm \notin Parts /\ Disk \notin Parts /\ Disk # Dm
      /\ Disk \in Devices /\ Dm \in Devices /\ Slave \in Devices /\ Parts \subseteq Devices
  BY KernelSame DEF Devices
<1>2. /\ \A c \in Devices : Queued(c)' <=> Queued(c)
      /\ \A c \in Devices : Removed(c)' <=> Removed(c)
  BY DEF Queued, Removed, IsUpdate, IsRemove
<1>3. /\ Run(e)' = Run(e) /\ (e \in listed' <=> e \in listed) /\ last'[e] = last[e]
      /\ \A pcs : HasScript(e, pcs)' <=> HasScript(e, pcs)
      /\ Looks(e)' <=> Looks(e)
      /\ Alone(e)' <=> Alone(e)
      /\ AllClean(e)' <=> AllClean(e)
  BY <1>2 DEF HasScript, Looks, Alone, AllClean
<1>4. FollowOk(e) /\ ListOk(e) /\ FreeOk(e)
  BY DEF FollowInv, ListInv, FreeInv
<1>5. FollowOk(e)'
  BY <1>1, <1>2, <1>3, <1>4 DEF FollowOk
<1>6. \A p \in Parts : p \in exists /\ Asks(p) => Asks(p)'
  <2> SUFFICES ASSUME NEW p \in Parts, p \in exists, Asks(p) PROVE Asks(p)'
    OBVIOUS
  <2>1. CASE p = d
    BY <1>1, <1>2, <2>1 DEF Asks
  <2>2. CASE p # d
    <3>1. Run(p)' = Run(p)
      BY <1>1, <2>2
    <3> QED
      BY <1>1, <1>2, <3>1 DEF Asks, HasScript
  <2> QED
    BY <2>1, <2>2
<1>7. Dm \in exists /\ AsksSlave => AsksSlave'
  <2>1. CASE d = Dm
    BY <1>1, <1>2, <2>1 DEF AsksSlave
  <2>2. CASE d # Dm
    <3>1. Run(Dm)' = Run(Dm)
      BY <1>1, <2>2
    <3> QED
      BY <1>1, <1>2, <3>1 DEF AsksSlave, HasScript
  <2> QED
    BY <2>1, <2>2
<1>8. HasScript(Dm, Removal) => HasScript(Dm, Removal)'
  <2>1. CASE d # Dm
    <3>1. Run(Dm)' = Run(Dm)
      BY <1>1, <2>1
    <3> QED
      BY <3>1 DEF HasScript
  <2> QED
    BY <2>1
<1>9. e = Disk => \A p \in Parts : p \in exists /\ LooksAtPart(p) => LooksAtPart(p)'
  BY <1>3, <1>6 DEF LooksAtPart
<1>10. ListOk(e)'
  <2>1. Seen(e) => Seen(e)'
    <3>1. Seen(e) =>
             /\ e \notin exists' => Removed(e)' \/ HasScript(e, {"gone"})'
             /\ e \in mounted' => Looks(e)'
             /\ e = Slave /\ Dm \in exists' => Looks(e)' \/ AsksSlave'
      BY <1>1, <1>2, <1>3, <1>7 DEF Seen
    <3>2. Seen(e) /\ e = Disk =>
             /\ \A p \in Parts : p \in mounted' \cup attached' => LooksAtPart(p)'
             /\ Dm \in exists' => LooksAtPart(Slave)' \/ AsksSlave'
             /\ Disk \in exists' /\ exists' \cap Parts = {} => Looks(e)' \/ HasScript(e, {"parts"})'
      BY <1>1, <1>3, <1>7, <1>9 DEF Seen
    <3> QED
      BY <3>1, <3>2 DEF Seen
  <2> QED
    BY <1>1, <1>3, <1>4, <2>1 DEF ListOk
<1>11. FreeOk(e)'
  <2>1. Comes(e) => Comes(e)'
    BY <1>1, <1>2, <1>6, <1>8 DEF Comes
  <2> QED
    BY <1>1, <1>3, <1>4, <2>1 DEF FreeOk
<1> QED
  BY <1>5, <1>10, <1>11

(* What the step of a script that is alone with its device keeps for the   *)
(* device: where it read that nothing is wrong, it has seen so, and where  *)
(* it starts to remove the entry, the device is not free.                  *)
LEMMA OwnOk ==
    ASSUME TypeInv, TypeInv', KernelInv, FollowInv, ListInv, FreeInv,
           UNCHANGED kernelVars, UNCHANGED queue, UNCHANGED last,
           NEW d \in Devices, NEW s \in Scripts, NEW t \in Scripts,
           Run(d) = {s}, Run(d)' = {t},
           \A e \in Devices : e # d => Run(e)' = Run(e),
           listed' \subseteq listed,
           s.how # "company",
           t.how = "clean" => s.how = "clean",
           t.pc \in Removal <=> s.pc \in Removal,
           t.pc = "trigger" => d \notin listed',
           d \notin listed' => d \notin listed \/ t.pc \in Removal,
           s.pc = "start" => t.pc = "start" \/ d \notin Parts \cap exists,
           d = Dm /\ Dm \in exists /\ s.pc \in {"start", "slaves"} => t.pc \in {"start", "slaves"},
           t.pc \in {"parts", "write"} /\ d \notin attached => Seen(d)',
           t.pc \in Leaving /\ t.how = "clean" => s.pc \in Leaving \/ ~Unused(d)
    PROVE  FollowOk(d)' /\ ListOk(d)' /\ FreeOk(d)'
<1>1. /\ exists' = exists /\ mounted' = mounted /\ attached' = attached
      /\ Unused(d)' <=> Unused(d)
      /\ mounted \subseteq exists /\ attached \subseteq exists
      /\ Dm \in exists => Slave \in exists
      /\ Slave \in Parts /\ Dm \notin Parts /\ Disk \notin Parts /\ Disk # Dm
      /\ Disk \in Devices /\ Dm \in Devices /\ Slave \in Devices /\ Parts \subseteq Devices
  BY KernelSame DEF Devices
<1>2. /\ \A c \in Devices : Queued(c)' <=> Queued(c)
      /\ \A c \in Devices : Removed(c)' <=> Removed(c)
      /\ last'[d] = last[d]
  BY DEF Queued, Removed, IsUpdate, IsRemove
<1>3. /\ \A pcs : HasScript(d, pcs) <=> s.pc \in pcs
      /\ \A pcs : HasScript(d, pcs)' <=> t.pc \in pcs
      /\ Alone(d)
      /\ AllClean(d)' => AllClean(d) /\ t.how = "clean"
  BY DEF HasScript, Alone, AllClean
<1>4. FollowOk(d) /\ ListOk(d) /\ FreeOk(d)
  BY DEF FollowInv, ListInv, FreeInv
<1>5. s.pc \in Pcs /\ t.pc \in Pcs
  BY DEF Scripts
<1>6. /\ s.pc \notin Removal /\ d \notin exists => Removed(d)
      /\ s.pc \in Removal /\ d \in exists => Queued(d)
  BY <1>4 DEF FollowOk
<1>7. FollowOk(d)'
  BY <1>1, <1>2, <1>6 DEF FollowOk
<1>8. ListOk(d)'
  <2> SUFFICES ASSUME ~ListOk(d)' PROVE FALSE
    OBVIOUS
  <2>1. /\ (d \in listed' /\ last'[d] # "company") \/ t.pc \in {"parts", "write"}
        /\ d \notin attached /\ ~Seen(d)'
    BY <1>1, <1>3 DEF ListOk
  <2>2. t.pc \notin {"parts", "write"} /\ d \in listed
    BY <2>1
  <2>3. Seen(d)
    BY <1>2, <1>3, <1>4, <2>1, <2>2 DEF ListOk
  <2>4. CASE s.pc \notin Removal
    <3>1. t.pc \in Early \cup Leaving
      BY <1>5, <2>2, <2>4 DEF Pcs
    <3>2. Looks(d)'
      BY <1>3, <3>1 DEF Looks
    <3>3. KernelInv'
      BY KernelSame
    <3> QED
      BY <1>1, <1>2, <1>6, <2>1, <2>4, <3>2, <3>3, WillSee
  <2>5. CASE s.pc \in Removal
    <3>1. t.pc = "gone"
      BY <1>5, <2>1, <2>2, <2>5 DEF Removal
    <3>2. d \in exists => Looks(d)'
      BY <1>2, <1>6, <2>5 DEF Looks
    <3>3. HasScript(d, {"gone"})'
      BY <1>3, <3>1
    <3>4. KernelInv'
      BY KernelSame
    <3> QED
      BY <1>1, <2>1, <3>2, <3>3, <3>4, WillSee
  <2> QED
    BY <2>4, <2>5
<1>9. FreeOk(d)'
  <2> SUFFICES ASSUME Unused(d)', AllClean(d)'
               PROVE  /\ d \notin listed' /\ last'[d] = "clean" =>
                            Comes(d)' \/ HasScript(d, Early \cup {"parts", "write"})'
                      /\ HasScript(d, Leaving)' => Comes(d)'
    BY DEF FreeOk
  <2>1. Unused(d) /\ AllClean(d) /\ t.how = "clean" /\ d \in exists
    BY <1>1, <1>3 DEF Unused
  <2>2. Comes(d) => Comes(d)'
    <3>1. \A p \in Parts \cap exists : Asks(p) => Asks(p)'
      <4> SUFFICES ASSUME NEW p \in Parts \cap exists, Asks(p) PROVE Asks(p)'
        OBVIOUS
      <4>1. CASE p = d
        BY <1>1, <1>2, <1>3, <4>1 DEF Asks
      <4>2. CASE p # d
        <5>1. Run(p)' = Run(p)
          BY <1>1, <4>2
        <5> QED
          BY <1>1, <1>2, <5>1 DEF Asks, HasScript
      <4> QED
        BY <4>1, <4>2
    <3>2. HasScript(Dm, Removal) => HasScript(Dm, Removal)'
      <4>1. CASE d # Dm
        <5>1. Run(Dm)' = Run(Dm)
          BY <1>1, <4>1
        <5> QED
          BY <5>1 DEF HasScript
      <4>2. CASE d = Dm
        BY <1>3, <4>2
      <4> QED
        BY <4>1, <4>2
    <3> QED
      BY <1>1, <1>2, <3>1, <3>2 DEF Comes
  <2>3. t.pc \in Leaving => Comes(d)'
    BY <1>3, <1>4, <2>1, <2>2 DEF FreeOk
  <2>4. s.pc \in Removal => Comes(d)'
    BY <1>2, <1>6, <2>1 DEF Comes
  <2>5. CASE t.pc \in Leaving
    BY <1>3, <2>3, <2>5
  <2>6. CASE t.pc \in Removal
    BY <1>3, <2>4, <2>6 DEF Leaving, Removal
  <2>7. CASE t.pc \notin Leaving \cup Removal
    BY <1>3, <1>5, <2>7 DEF Pcs
  <2> QED
    BY <2>5, <2>6, <2>7
<1> QED
  BY <1>7, <1>8, <1>9

(* What the script at the top of h may do when it goes on as t *)
GoesOn(h, t) ==
    /\ t \in Scripts /\ t.dev = Top(h).dev
    /\ Top(h).how = "company" => t.how = "company"
    /\ Top(h).how # "company" => t.how # "company"
    /\ t.how = "clean" => Top(h).how = "clean"
    /\ t.pc \in Removal <=> Top(h).pc \in Removal
    /\ t.pc \in Early => t.todo = Parts
    /\ t.pc = "parent" => t.dev \in Parts
    /\ Top(h).pc = "start" => t.pc = "start" \/ t.dev \notin Parts \cap exists
    /\ t.dev = Dm /\ Dm \in exists /\ Top(h).pc \in {"start", "slaves"} =>
            t.pc \in {"start", "slaves"}

(* A script that goes on keeps the invariant. *)
LEMMA ChangeKeeps ==
    ASSUME UdevInv, NEW h \in Devices, handler[h] # <<>>, NEW t, GoesOn(h, t),
           Changes(h, t),
           UNCHANGED kernelVars, UNCHANGED queue, UNCHANGED last,
           NEW d, d = Top(h).dev,
           listed' \subseteq listed, \A e \in Devices : e # d => (e \in listed <=> e \in listed'),
           t.pc = "trigger" => d \notin listed',
           d \notin listed' => d \notin listed \/ t.pc \in Removal,
           \/ slaves' = slaves
           \/ slaves' \in {{}, {Slave}} /\ slaves' # NoFile,
           d = Dm /\ Top(h).pc \in Early => t.pc \in Early \/ slaves' # NoFile,
           /\ t.pc \in {"parts", "write"} /\ d \notin attached /\ Top(h).how # "company"
           /\ Run(d) = {Top(h)} /\ Run(d)' = {t} /\ (\A e \in Devices : e # d => Run(e)' = Run(e))
           => Seen(d)',
           t.pc \in Leaving /\ t.how = "clean" => Top(h).pc \in Leaving \/ ~Unused(d)
    PROVE  UdevInv'
<1>1. /\ TypeInv /\ KernelInv /\ StackInv /\ AloneInv
      /\ OrderInv /\ FollowInv /\ CacheInv
      /\ ListInv /\ FreeInv
  BY DEF UdevInv
<1>2. /\ Top(h) \in Scripts /\ d \in Devices
      /\ Top(h).how # "company" => Run(d) = {Top(h)}
      /\ Top(h).how = "company" => \A s \in Run(d) : s.how = "company"
  BY <1>1, TopFacts, TopAlone
<1>3. /\ \A e \in Devices : e # d => Run(e)' = Run(e)
      /\ t \in Run(d)'
      /\ Run(d) \subseteq Run(d)' \cup {Top(h)}
      /\ Run(d)' \subseteq Run(d) \cup {t}
      /\ Top(h).how # "company" => Run(d)' = {t}
      /\ AloneInv'
  BY <1>1, ChangesRun DEF GoesOn
<1>4. TypeInv'
  BY <1>1 DEF TypeInv, Changes, kernelVars
<1>5. KernelInv'
  BY <1>1, KernelSame
<1>6. StackInv'
  BY <1>1, ChangesStack DEF GoesOn
<1>7. OrderInv'
  BY <1>1 DEF OrderInv, IsUpdate, IsRemove, kernelVars
<1>8. /\ d \in Parts \cap exists /\ HasScript(d, {"start"}) => HasScript(d, {"start"})'
      /\ d = Dm /\ Dm \in exists /\ HasScript(d, {"start", "slaves"}) =>
                HasScript(d, {"start", "slaves"})'
      /\ HasScript(d, Removal) <=> HasScript(d, Removal)'
  BY <1>3, TopFacts, <1>1 DEF HasScript, GoesOn
<1>9. \A e \in Devices : e # d => FollowOk(e)' /\ ListOk(e)' /\ FreeOk(e)'
  BY <1>1, <1>2, <1>3, <1>8, OthersOk
<1>10. FollowOk(d)' /\ ListOk(d)' /\ FreeOk(d)'
  <2>1. CASE Top(h).how = "company"
    BY <1>2, <1>3, <2>1, CompanyOk DEF GoesOn
  <2>2. CASE Top(h).how # "company"
    BY <1>1, <1>2, <1>3, <1>4, <2>2, OwnOk DEF GoesOn
  <2> QED
    BY <2>1, <2>2
<1>11. CacheInv'
  <2>1. HasScript(Dm, Removal) <=> HasScript(Dm, Removal)'
    <3>1. CASE d = Dm
      BY <1>8, <3>1
    <3>2. CASE d # Dm
      BY <1>3, <3>2 DEF HasScript, Devices
    <3> QED
      BY <3>1, <3>2
  <2>2. slaves # NoFile \/ HasScript(Dm, Early) => slaves' # NoFile \/ HasScript(Dm, Early)'
    <3>1. CASE d = Dm
      <4>1. HasScript(Dm, Early) => HasScript(Dm, Early)' \/ slaves' # NoFile
        BY <1>3, <3>1 DEF HasScript
      <4> QED
        BY <4>1
    <3>2. CASE d # Dm
      BY <1>3, <3>2 DEF HasScript, Devices
    <3> QED
      BY <3>1, <3>2
  <2>3. slaves # NoFile => slaves' # NoFile
    OBVIOUS
  <2> QED
    BY <1>1, <2>1, <2>2, <2>3 DEF CacheInv, CacheReady, Queued, IsUpdate, IsRemove, kernelVars
<1> QED
  BY <1>3, <1>4, <1>5, <1>6, <1>7, <1>9, <1>10, <1>11 DEF UdevInv, FollowInv, ListInv, FreeInv

(* The script at the top of h ends, alone or not. *)
LEMMA PopKeeps ==
    ASSUME UdevInv, NEW h \in Devices, handler[h] # <<>>, Exit(h),
           UNCHANGED kernelVars, UNCHANGED queue, UNCHANGED slaves,
           NEW d, d = Top(h).dev,
           listed' \in SUBSET Devices, \A e \in Devices : e # d => (e \in listed <=> e \in listed'),
           Top(h).pc # "start", d = Dm => Top(h).pc \in Leaving \cup {"write"},
           d \in listed' /\ d \notin attached /\ Top(h).how # "company" => Seen(d) /\ Top(h).pc = "write",
           d \notin listed' /\ Unused(d) /\ Top(h).how = "clean" => Comes(d)
    PROVE  UdevInv'
<1>1. /\ TypeInv /\ KernelInv /\ StackInv /\ AloneInv
      /\ OrderInv /\ FollowInv /\ CacheInv
      /\ ListInv /\ FreeInv
  BY DEF UdevInv
<1>2. /\ Top(h) \in Scripts /\ d \in Devices /\ Top(h) \in Run(d)
      /\ Top(h).how # "company" => Run(d) = {Top(h)}
      /\ Top(h).how = "company" => \A s \in Run(d) : s.how = "company"
  BY <1>1, TopFacts, TopAlone
<1>3. Pops(h)
  BY <1>1, PopsFacts DEF Exit
<1>4. /\ \A e \in Devices : e # d => Run(e)' = Run(e)
      /\ Run(d)' \subseteq Run(d)
      /\ Run(d) \subseteq Run(d)' \cup {Top(h)}
      /\ Top(h).how # "company" => Run(d)' = {}
      /\ AloneInv'
  BY <1>1, <1>3, PopsRun
<1>5. /\ last' \in [Devices -> Hows] /\ last'[d] = Top(h).how
      /\ \A e \in Devices : e # d => last'[e] = last[e]
  <2>1. last \in [Devices -> Hows] /\ Top(h).how \in Hows /\ last' = [last EXCEPT ![d] = Top(h).how]
    BY <1>1, <1>2 DEF TypeInv, Scripts, Exit
  <2> QED
    BY <1>2, <2>1
<1>6. TypeInv'
  BY <1>1, <1>3, <1>5 DEF TypeInv, Pops, kernelVars
<1>7. /\ KernelInv' /\ exists' = exists /\ mounted' = mounted /\ attached' = attached
      /\ Unused(d)' <=> Unused(d)
  BY <1>1, <1>2, KernelSame
<1>8. StackInv'
  BY <1>1, <1>3, PopsStack
<1>9. OrderInv'
  BY <1>1, <1>7 DEF OrderInv, IsUpdate, IsRemove
<1>10. /\ HasScript(d, {"start"}) => HasScript(d, {"start"})'
       /\ d = Dm => ~HasScript(d, {"start", "slaves"}) /\ ~HasScript(d, Removal) /\ ~HasScript(d, Early)
       /\ d = Dm => Run(d) = {Top(h)} /\ Run(d)' = {}
  <2>1. HasScript(d, {"start"}) => HasScript(d, {"start"})'
    BY <1>4 DEF HasScript
  <2>2. d = Dm => Top(h).how # "company"
    <3>1. 1 \in 1..Len(handler[h]) /\ Top(h) = handler[h][1]
      BY <1>1, TopFacts
    <3> QED
      BY <1>1, <3>1 DEF StackInv, ScriptOk
  <2>3. d = Dm => Run(d) = {Top(h)} /\ Run(d)' = {}
    BY <1>2, <1>4, <2>2
  <2>4. d = Dm => ~HasScript(d, {"start", "slaves"}) /\ ~HasScript(d, Removal) /\ ~HasScript(d, Early)
    BY <2>3 DEF HasScript, Removal, Leaving, Early
  <2> QED
    BY <2>1, <2>3, <2>4
<1>11. \A e \in Devices : e # d => FollowOk(e)' /\ ListOk(e)' /\ FreeOk(e)'
  BY <1>1, <1>2, <1>4, <1>5, <1>10, OthersOk
<1>12. FollowOk(d)' /\ ListOk(d)' /\ FreeOk(d)'
  <2>1. CASE Top(h).how = "company"
    BY <1>2, <1>4, <1>5, <2>1, CompanyOk
  <2>2. CASE Top(h).how # "company"
    <3>1. Run(d) = {Top(h)} /\ Run(d)' = {}
      BY <1>2, <1>4, <2>2
    <3>2. FollowOk(d)'
      BY <3>1 DEF FollowOk
    <3>3. d \in listed' /\ d \notin attached => Seen(d)'
      <4> SUFFICES ASSUME d \in listed', d \notin attached PROVE Seen(d)'
        OBVIOUS
      <4>1. Seen(d) /\ Top(h).pc = "write"
        BY <2>2
      <4>2. \A pcs : "write" \notin pcs => ~HasScript(d, pcs) /\ ~HasScript(d, pcs)'
        BY <3>1, <4>1 DEF HasScript
      <4>3. \A e \in Devices : e # d => \A pcs : HasScript(e, pcs)' <=> HasScript(e, pcs)
        BY <1>4 DEF HasScript
      <4>4. \A e \in Devices : /\ Queued(e)' <=> Queued(e)
                               /\ Removed(e)' <=> Removed(e)
        BY DEF Queued, Removed, IsUpdate, IsRemove
      <4>5. d = Disk => \A p \in Parts : LooksAtPart(p) => LooksAtPart(p)'
        <5> SUFFICES ASSUME d = Disk, NEW p \in Parts, LooksAtPart(p) PROVE LooksAtPart(p)'
          OBVIOUS
        <5>1. p \in Devices /\ p # d /\ Disk \in Devices
          BY UdevAssumption DEF Devices
        <5>2. Asks(p) => Asks(p)'
          BY <4>3, <4>4, <5>1 DEF Asks
        <5>3. Looks(Disk) => Looks(Disk)'
          BY <4>2, <4>4, <5>1 DEF Looks, Early, Leaving
        <5>4. ~\E s \in Run(Disk) : s.pc = "parts" /\ p \in s.todo
          BY <3>1, <4>1
        <5> QED
          BY <5>2, <5>3, <5>4 DEF LooksAtPart
      <4>6. /\ Looks(d) => Looks(d)'
            /\ AsksSlave => AsksSlave'
            /\ ~HasScript(d, {"gone"}) /\ ~HasScript(d, {"parts"})
            /\ Removed(d) => Removed(d)'
        <5>1. AsksSlave => AsksSlave'
          <6>1. Dm \in Devices
            BY DEF Devices
          <6> QED
            BY <1>10, <4>3, <4>4, <6>1 DEF AsksSlave
        <5> QED
          BY <1>2, <4>2, <4>4, <5>1 DEF Looks, Early, Leaving
      <4>7. Slave \in Parts
        BY UdevAssumption
      <4> QED
        BY <1>7, <4>1, <4>5, <4>6, <4>7 DEF Seen
    <3>4. ListOk(d)'
      BY <1>7, <3>1, <3>3 DEF ListOk, HasScript
    <3>5. Comes(d) => Comes(d)'
      <4>1. \A e \in Devices : /\ Queued(e)' <=> Queued(e)
                               /\ Removed(e)' <=> Removed(e)
        BY DEF Queued, Removed, IsUpdate, IsRemove
      <4>2. d = Disk => \A p \in Parts : Asks(p) => Asks(p)'
        BY <1>4, <4>1, UdevAssumption DEF Asks, HasScript, Devices
      <4>3. HasScript(Dm, Removal) => HasScript(Dm, Removal)'
        BY <1>4, <1>10 DEF HasScript, Devices
      <4> QED
        BY <1>2, <1>7, <4>1, <4>2, <4>3 DEF Comes, Devices
    <3>6. FreeOk(d)'
      BY <1>5, <1>7, <3>1, <3>5 DEF FreeOk, HasScript
    <3> QED
      BY <3>2, <3>4, <3>6
  <2> QED
    BY <2>1, <2>2
<1>13. CacheInv'
  <2>1. /\ HasScript(Dm, Removal)' => HasScript(Dm, Removal)
        /\ HasScript(Dm, Early) => HasScript(Dm, Early)'
    <3>1. CASE d = Dm
      BY <1>10, <3>1 DEF HasScript
    <3>2. CASE d # Dm
      BY <1>4, <3>2 DEF HasScript, Devices
    <3> QED
      BY <3>1, <3>2
  <2> QED
    BY <1>1, <1>7, <2>1 DEF CacheInv, CacheReady, Queued, IsUpdate, IsRemove
<1> QED
  BY <1>4, <1>6, <1>7, <1>8, <1>9, <1>11, <1>12, <1>13 DEF UdevInv, FollowInv, ListInv, FreeInv

-----------------------------------------------------------------------------
(* The steps of the scripts: those in which one goes on *)

(* Goto() changes the place in the script at the top, nothing else. *)
LEMMA GotoFacts ==
    ASSUME TypeInv, NEW h \in Devices, handler[h] # <<>>, NEW label \in Pcs, Goto(h, label)
    PROVE  \E t \in Scripts :
                /\ Changes(h, t)
                /\ t.dev = Top(h).dev /\ t.pc = label
                /\ t.todo = Top(h).todo /\ t.how = Top(h).how
<1> DEFINE t == [Top(h) EXCEPT !.pc = label]
<1>1. Top(h) \in Scripts /\ Top(h) = handler[h][1] /\ 1 \in 1..Len(handler[h])
  BY TopFacts
<1>2. t \in Scripts /\ t.dev = Top(h).dev /\ t.pc = label /\ t.todo = Top(h).todo /\ t.how = Top(h).how
  BY <1>1 DEF Scripts
<1>3. handler' = [handler EXCEPT ![h][1] = t]
  BY <1>1 DEF Goto
<1> HIDE DEF t
<1>4. Changes(h, t)
  BY <1>2, <1>3, ChangesFacts
<1> QED
  BY <1>2, <1>4

(* The script at the top is one of those that AtPc() tells apart. *)
LEMMA AtFacts ==
    ASSUME UdevInv, NEW h \in Devices, NEW label, AtPc(h, label)
    PROVE  /\ handler[h] # <<>> /\ Top(h) \in Scripts /\ Top(h).pc = label
           /\ Top(h).dev \in Devices
           /\ ScriptOk(h, Top(h))
           /\ Top(h).how # "company" => Run(Top(h).dev) = {Top(h)}
           /\ FollowOk(Top(h).dev) /\ ListOk(Top(h).dev) /\ FreeOk(Top(h).dev)
<1>1. TypeInv /\ StackInv /\ AloneInv /\ FollowInv /\ ListInv /\ FreeInv
  BY DEF UdevInv
<1>2. handler[h] # <<>> /\ Top(h).pc = label
  BY DEF AtPc
<1>3. /\ Top(h) \in Scripts /\ Top(h) = handler[h][1] /\ 1 \in 1..Len(handler[h])
      /\ Top(h).dev \in Devices
  BY <1>1, <1>2, TopFacts
<1>5. Top(h).how # "company" => Run(Top(h).dev) = {Top(h)}
  BY <1>1, <1>2, TopAlone, Zenon
<1>4. ScriptOk(h, Top(h))
  BY <1>1, <1>3 DEF StackInv
<1> QED
  BY <1>1, <1>2, <1>3, <1>4, <1>5 DEF FollowInv, ListInv, FreeInv

(* A script that goes on to a place where it has not read anything about   *)
(* its device, or removes an entry that it was removing.                   *)
LEMMA GotoKeeps ==
    ASSUME UdevInv, NEW h \in Devices, NEW label, AtPc(h, label), NEW next, Goto(h, next),
           UNCHANGED kernelVars, UNCHANGED queue, UNCHANGED last, UNCHANGED slaves, UNCHANGED listed,
           \/ label = "start" /\ next = "slaves" /\ Top(h).dev \notin Parts \cap exists
           \/ label = "slaves" /\ next = "self" /\ ~(Top(h).dev = Dm /\ Dm \in exists)
           \/ label = "remove" /\ next = "rm"
    PROVE  UdevInv'
<1>1. /\ handler[h] # <<>> /\ Top(h).pc = label /\ ScriptOk(h, Top(h))
  BY AtFacts
<1>2. TypeInv /\ next \in Pcs
  BY DEF UdevInv, Pcs, Early, Leaving
<1>3. PICK t \in Scripts :
        /\ Changes(h, t)
        /\ t.dev = Top(h).dev /\ t.pc = next /\ t.todo = Top(h).todo /\ t.how = Top(h).how
  BY <1>1, <1>2, GotoFacts
<1>4. GoesOn(h, t)
  BY <1>1, <1>3 DEF GoesOn, ScriptOk, Removal, Early
<1> QED
  BY <1>1, <1>3, <1>4, ChangeKeeps DEF Early, Leaving, Removal

(* xs_remove: an attached device keeps its entry (line 14), another one is *)
(* about to lose it.                                                       *)
LEMMA KeepAttachedKeeps ==
    ASSUME UdevInv, NEW h \in Devices, KeepAttached(h)
    PROVE  UdevInv'
<1> DEFINE d == Top(h).dev
<1>1. /\ handler[h] # <<>> /\ Top(h).pc = "remove" /\ d \in Devices
      /\ Top(h).how # "company" => Run(d) = {Top(h)}
      /\ FreeOk(d)
      /\ AtPc(h, "remove")
  BY AtFacts DEF KeepAttached
<1>2. CASE is_attached(d)
  <2>1. Exit(h)
    BY <1>2 DEF KeepAttached
  <2>2. Unused(d) /\ Top(h).how = "clean" => Comes(d)
    BY <1>1 DEF FreeOk, HasScript, AllClean, Leaving
  <2>3. listed' \in SUBSET Devices
    BY DEF KeepAttached, UdevInv, TypeInv
  <2> QED
    BY <1>1, <1>2, <2>1, <2>2, <2>3, PopKeeps DEF KeepAttached, is_attached, Leaving
<1>3. CASE ~is_attached(d)
  BY <1>1, <1>3, GotoKeeps DEF KeepAttached
<1> QED
  BY <1>2, <1>3

(* The entry is removed: what is free by now will be looked at again. *)
LEMMA RemoveEntryKeeps ==
    ASSUME UdevInv, NEW h \in Devices, RemoveEntry(h)
    PROVE  UdevInv'
<1> DEFINE d == Top(h).dev
<1>1. /\ handler[h] # <<>> /\ Top(h).pc = "rm" /\ d \in Devices
      /\ Top(h).how # "company" => Run(d) = {Top(h)}
      /\ FreeOk(d)
  BY AtFacts DEF RemoveEntry
<1>2. Unused(d) /\ Top(h).how = "clean" => Comes(d)
  BY <1>1 DEF FreeOk, HasScript, AllClean, Leaving
<1>3. listed' \in SUBSET Devices /\ d \notin listed' /\ \A e \in Devices : e # d => (e \in listed <=> e \in listed')
  BY DEF RemoveEntry, UdevInv, TypeInv
<1> QED
  BY <1>1, <1>2, <1>3, PopKeeps DEF RemoveEntry, Leaving

(* The entry is written: what is wrong by now has been seen. *)
LEMMA WriteKeeps ==
    ASSUME UdevInv, NEW h \in Devices, Write(h)
    PROVE  UdevInv'
<1> DEFINE d == Top(h).dev
<1>1. /\ handler[h] # <<>> /\ Top(h).pc = "write" /\ d \in Devices
      /\ Top(h).how # "company" => Run(d) = {Top(h)}
      /\ ListOk(d)
  BY AtFacts DEF Write
<1>2. d \notin attached /\ Top(h).how # "company" => Seen(d)
  BY <1>1 DEF ListOk, HasScript, Alone
<1>3. listed' \in SUBSET Devices /\ d \in listed' /\ \A e \in Devices : e # d => (e \in listed <=> e \in listed')
  BY <1>1 DEF Write, UdevInv, TypeInv
<1> QED
  BY <1>1, <1>2, <1>3, PopKeeps DEF Write, Leaving

(* udev-block-remove removes the entry, of a device that is gone or has an *)
(* event to come.                                                          *)
LEMMA RemoveGoneKeeps ==
    ASSUME UdevInv, NEW h \in Devices, RemoveGone(h)
    PROVE  UdevInv'
<1> DEFINE d == Top(h).dev
<1>1. /\ handler[h] # <<>> /\ Top(h).pc = "gone" /\ ScriptOk(h, Top(h))
  BY AtFacts DEF RemoveGone
<1>2. TypeInv /\ "trigger" \in Pcs /\ Goto(h, "trigger")
  BY DEF UdevInv, Pcs, Removal, RemoveGone
<1>3. PICK t \in Scripts :
        /\ Changes(h, t)
        /\ t.dev = d /\ t.pc = "trigger" /\ t.todo = Top(h).todo /\ t.how = Top(h).how
  BY <1>1, <1>2, GotoFacts
<1>4. GoesOn(h, t)
  BY <1>1, <1>3 DEF GoesOn, ScriptOk, Removal, Early
<1>5. listed' \subseteq listed /\ d \notin listed' /\ \A e \in Devices : e # d => (e \in listed <=> e \in listed')
  BY DEF RemoveGone
<1> QED
  BY <1>1, <1>3, <1>4, <1>5, ChangeKeeps DEF RemoveGone, Early, Leaving, Removal

(* A partition of an attached disk is not offered, and not looked at again *)
(* (line 73).                                                              *)
LEMMA SkipKeeps ==
    ASSUME UdevInv, NEW h \in Devices, SkipIfParentAttached(h)
    PROVE  UdevInv'
<1> DEFINE d == Top(h).dev
           pc == IF is_attached(Disk) THEN "remove" ELSE "slaves"
           how == IF is_attached(Disk) /\ Top(h).how = "clean" THEN "skipped" ELSE Top(h).how
           t == [Top(h) EXCEPT !.pc = pc, !.how = how]
<1>1. /\ handler[h] # <<>> /\ Top(h).pc = "parent" /\ ScriptOk(h, Top(h)) /\ Top(h) \in Scripts
  BY AtFacts DEF SkipIfParentAttached
<1>2. TypeInv
  BY DEF UdevInv
<1>3. Top(h) = handler[h][1] /\ 1 \in 1..Len(handler[h])
  BY <1>1, <1>2, TopFacts
<1>4. pc \in Pcs /\ how \in Hows
  BY <1>1 DEF Scripts, Pcs, Early, Leaving, Hows
<1>5. handler' = [handler EXCEPT ![h][1].pc = pc, ![h][1].how = how]
  BY <1>3 DEF SkipIfParentAttached
<1> HIDE DEF pc, how
<1>6. t \in Scripts /\ t.dev = d /\ t.pc = pc /\ t.todo = Top(h).todo /\ t.how = how
  BY <1>1, <1>4 DEF Scripts
<1>7. handler' = [handler EXCEPT ![h][1] = t]
  BY <1>3, <1>5
<1> HIDE DEF t
<1>8. Changes(h, t)
  BY <1>1, <1>2, <1>6, <1>7, ChangesFacts
<1>9. GoesOn(h, t) /\ (t.how = "clean" => t.pc = "slaves") /\ t.pc \in {"remove", "slaves"}
  BY <1>1, <1>6 DEF GoesOn, ScriptOk, Removal, Early, Leaving, pc, how
<1>10. d # Dm
  BY <1>1, UdevAssumption DEF ScriptOk, Early
<1>11. UNCHANGED kernelVars /\ UNCHANGED queue /\ UNCHANGED last /\ UNCHANGED slaves /\ UNCHANGED listed
  BY DEF SkipIfParentAttached
<1> QED
  BY <1>1, <1>6, <1>8, <1>9, <1>10, <1>11, ChangeKeeps DEF Early, Leaving, Removal

(* The script looks at its device: it removes the entry of one that is     *)
(* used, and has yet to look at each of the partitions.                    *)
LEMMA CheckSelfKeeps ==
    ASSUME UdevInv, NEW h \in Devices, CheckSelf(h)
    PROVE  UdevInv'
<1>0. PICK d : d = Top(h).dev
  OBVIOUS
<1> DEFINE next == IF is_used(d) THEN "remove" ELSE "parts"
<1>1. /\ handler[h] # <<>> /\ Top(h).pc = "self" /\ ScriptOk(h, Top(h)) /\ d \in Devices
      /\ Top(h).how # "company" => Run(d) = {Top(h)}
      /\ FollowOk(d)
  BY <1>0, AtFacts DEF CheckSelf
<1>2. TypeInv /\ KernelInv
  BY DEF UdevInv
<1>3. UNCHANGED kernelVars /\ UNCHANGED queue /\ UNCHANGED last /\ UNCHANGED listed
  BY DEF CheckSelf
<1>4. next \in Pcs /\ Goto(h, next)
  BY <1>0 DEF Pcs, Leaving, CheckSelf
<1>5. PICK t \in Scripts :
        /\ Changes(h, t)
        /\ t.dev = d /\ t.pc = next /\ t.todo = Top(h).todo /\ t.how = Top(h).how
  BY <1>0, <1>1, <1>2, <1>4, GotoFacts
<1>6. /\ exists' = exists /\ mounted' = mounted /\ attached' = attached
      /\ Dm \in exists => Slave \in exists
      /\ mounted \subseteq exists /\ attached \subseteq exists
      /\ Slave \in Parts /\ Disk \notin Parts /\ Dm \notin Parts /\ Disk # Dm
  BY <1>2, <1>3, KernelSame
<1>7. /\ d = Dm => slaves' \in {{}, {Slave}} /\ slaves' # NoFile
      /\ d # Dm => slaves' = slaves
  <2>1. {Slave} # {Dm} /\ {} # {Dm}
    BY <1>6
  <2> QED
    BY <1>0, <2>1 DEF CheckSelf, NoFile
<1>8. GoesOn(h, t)
  BY <1>0, <1>1, <1>5 DEF GoesOn, ScriptOk, Removal, Early
<1>9. ASSUME t.pc = "parts", Top(h).how # "company", Run(d)' = {t}
      PROVE  Seen(d)'
  <2>1. ~is_used(d)
    BY <1>5, <1>9
  <2>2. d \notin exists => Removed(d)'
    <3>1. d \notin exists => Removed(d)
      BY <1>1, <1>9 DEF FollowOk, Removal
    <3> QED
      BY <1>3, <3>1 DEF Removed, IsRemove
  <2>3. d \notin mounted /\ ~(d = Slave /\ Dm \in exists)
    BY <2>1 DEF is_used, Claimed
  <2>4. t.todo = Parts
    BY <1>1, <1>5 DEF ScriptOk, Early
  <2>5. d = Disk => \A p \in Parts : LooksAtPart(p)'
    BY <1>9, <2>4 DEF LooksAtPart
  <2>6. HasScript(d, {"parts"})'
    BY <1>9 DEF HasScript
  <2> QED
    BY <1>6, <2>2, <2>3, <2>5, <2>6 DEF Seen
<1>10. t.pc \in Leaving => ~Unused(d)
  BY <1>5 DEF Leaving, Unused
<1>11. t.pc \in {"remove", "parts"}
  BY <1>5
<1> HIDE DEF next
<1> QED
  BY <1>0, <1>1, <1>3, <1>5, <1>7, <1>8, <1>9, <1>10, <1>11, ChangeKeeps DEF Early, Leaving, Removal

(* A partition that the script of its disk has looked at and found not to  *)
(* be in use: what is wrong with it by now is announced.                   *)
LEMMA PartSeen ==
    ASSUME TypeInv, KernelInv, UNCHANGED kernelVars, UNCHANGED queue,
           NEW s \in Scripts, NEW t \in Scripts, Run(Disk) = {s}, Run(Disk)' = {t},
           \A e \in Devices : e # Disk => Run(e)' = Run(e),
           s.pc = "parts", t.pc \in {"parts", "write"},
           Seen(Disk),
           \A p \in s.todo \cap exists : (t.pc = "parts" /\ p \in t.todo) \/ ~(is_used(p) \/ is_attached(p)),
           t.pc = "write" => ~(Disk \in exists /\ exists \cap Parts = {})
    PROVE  Seen(Disk)'
<1>1. /\ exists' = exists /\ mounted' = mounted /\ attached' = attached
      /\ Dm \in exists => Slave \in exists
      /\ mounted \subseteq exists /\ attached \subseteq exists
      /\ Slave \in Parts /\ Disk \notin Parts /\ Dm \notin Parts /\ Disk # Dm
      /\ Dm \in Devices /\ Parts \subseteq Devices
  BY KernelSame DEF Devices
<1>2. /\ \A c \in Devices : Queued(c)' <=> Queued(c)
      /\ \A c \in Devices : Removed(c)' <=> Removed(c)
      /\ \A e \in Devices : e # Disk => \A pcs : HasScript(e, pcs)' <=> HasScript(e, pcs)
      /\ \A pcs : HasScript(Disk, pcs) <=> s.pc \in pcs
      /\ \A pcs : HasScript(Disk, pcs)' <=> t.pc \in pcs
  BY DEF Queued, Removed, IsUpdate, IsRemove, HasScript
<1>3. AsksSlave => AsksSlave'
  BY <1>1, <1>2 DEF AsksSlave
<1>4. Looks(Disk) => Looks(Disk)'
  BY <1>2 DEF Looks, Early, Leaving, Devices
<1>5. ASSUME NEW p \in Parts, p \in exists, LooksAtPart(p)
      PROVE  LooksAtPart(p)' \/ ~(is_used(p) \/ is_attached(p))
  <2>1. Asks(p) => Asks(p)'
    BY <1>1, <1>2 DEF Asks
  <2>2. CASE Looks(Disk) \/ Asks(p)
    BY <1>4, <2>1, <2>2 DEF LooksAtPart
  <2>3. CASE p \in s.todo
    BY <1>5, <2>3 DEF LooksAtPart
  <2> QED
    BY <1>5, <2>2, <2>3 DEF LooksAtPart
<1>6. \A p \in Parts : p \in mounted \cup attached => LooksAtPart(p)'
  BY <1>1, <1>5 DEF Seen, is_used, Claimed, is_attached
<1>7. Dm \in exists => LooksAtPart(Slave)' \/ AsksSlave'
  BY <1>1, <1>3, <1>5 DEF Seen, is_used, Claimed
<1>8. /\ Disk \notin exists => Removed(Disk)'
      /\ Disk \in mounted => Looks(Disk)'
      /\ Disk \in exists /\ exists \cap Parts = {} => HasScript(Disk, {"parts"})'
  BY <1>2, <1>4 DEF Seen, Devices
<1> QED
  BY <1>1, <1>6, <1>7, <1>8 DEF Seen

(* The script of a disk looks at its partitions one after the other. *)
LEMMA CheckPartsKeeps ==
    ASSUME UdevInv, NEW h \in Devices, CheckParts(h)
    PROVE  UdevInv'
<1>0. PICK d : d = Top(h).dev
  OBVIOUS
<1>1. /\ handler[h] # <<>> /\ Top(h).pc = "parts" /\ ScriptOk(h, Top(h)) /\ d \in Devices
      /\ Top(h) \in Scripts
      /\ Top(h).how # "company" => Run(d) = {Top(h)}
      /\ ListOk(d)
  BY <1>0, AtFacts DEF CheckParts
<1>2. TypeInv /\ KernelInv
  BY DEF UdevInv
<1>3. /\ UNCHANGED kernelVars /\ UNCHANGED queue /\ UNCHANGED last /\ UNCHANGED listed
      /\ UNCHANGED slaves
  BY DEF CheckParts
<1>4. Top(h) = handler[h][1] /\ 1 \in 1..Len(handler[h])
  BY <1>1, <1>2, TopFacts
\* what the script becomes
<1>5. \E t \in Scripts :
        /\ Changes(h, t) /\ t.dev = d /\ t.how = Top(h).how
        /\ t.pc \in {"parts", "write", "remove"}
        /\ t.pc = "remove" => ~Unused(d)
        /\ t.pc # "remove" /\ d = Disk => \A p \in Top(h).todo \cap exists :
                (t.pc = "parts" /\ p \in t.todo) \/ ~(is_used(p) \/ is_attached(p))
        /\ t.pc = "write" /\ d = Disk => ~(Disk \in exists /\ exists \cap Parts = {})
        /\ t.pc = "parts" => d = Disk
  <2>1. CASE d = Disk /\ Top(h).todo \cap exists # {}
    <3>1. PICK p \in Top(h).todo \cap exists :
            handler' = [handler EXCEPT
                    ![h][1].todo = @ \ {p},
                    ![h][1].pc = IF is_used(p) \/ is_attached(p) THEN "remove" ELSE @]
      BY <1>0, <2>1 DEF CheckParts
    <3> DEFINE next == IF is_used(p) \/ is_attached(p) THEN "remove" ELSE "parts"
               rest == Top(h).todo \ {p}
               t == [Top(h) EXCEPT !.todo = rest, !.pc = next]
    <3>2. next \in Pcs /\ rest \subseteq Parts /\ p \in Parts
      BY <1>1 DEF Scripts, Pcs, Leaving
    <3>3. handler' = [handler EXCEPT ![h][1].todo = rest, ![h][1].pc = next]
      BY <1>1, <1>4, <3>1
    <3>4. next = "remove" => is_used(p) \/ is_attached(p)
      OBVIOUS
    <3>5. next # "remove" => next = "parts" /\ ~(is_used(p) \/ is_attached(p))
      OBVIOUS
    <3> HIDE DEF next
    <3>6. t \in Scripts /\ t.dev = d /\ t.how = Top(h).how /\ t.pc = next /\ t.todo = rest
      BY <1>0, <1>1, <3>2 DEF Scripts
    <3>7. handler' = [handler EXCEPT ![h][1] = t]
      BY <1>4, <3>3
    <3> HIDE DEF t
    <3>8. Changes(h, t)
      BY <1>1, <1>2, <3>6, <3>7, ChangesFacts
    <3>9. next = "remove" => ~Unused(d)
      BY <2>1, <3>2, <3>4 DEF Unused
    <3> QED
      BY <2>1, <3>5, <3>6, <3>8, <3>9
  <2>2. CASE ~(d = Disk /\ Top(h).todo \cap exists # {})
    <3> DEFINE next == IF d = Disk /\ Disk \in exists /\ exists \cap Parts = {} THEN "remove" ELSE "write"
    <3>1. next \in Pcs /\ Goto(h, next)
      BY <1>0, <2>2 DEF CheckParts, Pcs, Leaving
    <3>2. PICK t \in Scripts :
            /\ Changes(h, t)
            /\ t.dev = d /\ t.pc = next /\ t.todo = Top(h).todo /\ t.how = Top(h).how
      BY <1>0, <1>1, <1>2, <3>1, GotoFacts
    <3>3. next = "remove" => ~Unused(d)
      BY DEF Unused
    <3> QED
      BY <2>2, <3>2, <3>3
  <2> QED
    BY <2>1, <2>2
<1>6. PICK t \in Scripts :
        /\ Changes(h, t) /\ t.dev = d /\ t.how = Top(h).how
        /\ t.pc \in {"parts", "write", "remove"}
        /\ t.pc = "remove" => ~Unused(d)
        /\ t.pc # "remove" /\ d = Disk => \A p \in Top(h).todo \cap exists :
                (t.pc = "parts" /\ p \in t.todo) \/ ~(is_used(p) \/ is_attached(p))
        /\ t.pc = "write" /\ d = Disk => ~(Disk \in exists /\ exists \cap Parts = {})
        /\ t.pc = "parts" => d = Disk
  BY <1>5
<1>7. GoesOn(h, t)
  BY <1>0, <1>1, <1>6 DEF GoesOn, Removal, Early
<1>8. ASSUME t.pc \in {"parts", "write"}, d \notin attached, Top(h).how # "company",
             Run(d) = {Top(h)}, Run(d)' = {t}, \A e \in Devices : e # d => Run(e)' = Run(e)
      PROVE  Seen(d)'
  <2>1. Seen(d)
    BY <1>1, <1>8 DEF ListOk, HasScript, Alone
  <2>2. CASE d = Disk
    BY <1>1, <1>2, <1>3, <1>6, <1>8, <2>1, <2>2, PartSeen
  <2>3. CASE d # Disk
    <3>1. /\ exists' = exists /\ mounted' = mounted /\ Dm \in Devices
      BY <1>2, <1>3, KernelSame
    <3>2. /\ Queued(d)' <=> Queued(d)
          /\ Queued(Dm)' <=> Queued(Dm)
          /\ Removed(d)' <=> Removed(d)
      BY <1>3 DEF Queued, Removed, IsUpdate, IsRemove
    <3>3. \A pcs : "parts" \notin pcs => ~HasScript(d, pcs)
      BY <1>1, <1>8 DEF HasScript
    <3>4. Looks(d) => Looks(d)'
      BY <3>2, <3>3 DEF Looks, Early, Leaving
    <3>5. d # Dm => (AsksSlave => AsksSlave')
      BY <1>8, <3>1, <3>2 DEF AsksSlave, HasScript
    <3>6. Slave # Dm
      BY UdevAssumption
    <3> QED
      BY <2>1, <2>3, <3>1, <3>2, <3>3, <3>4, <3>5, <3>6 DEF Seen
  <2> QED
    BY <2>2, <2>3
<1>9. t.pc \in Leaving => ~Unused(d)
  BY <1>6 DEF Leaving
<1> QED
  BY <1>0, <1>1, <1>3, <1>6, <1>7, <1>8, <1>9, ChangeKeeps DEF Early, Leaving, Removal

-----------------------------------------------------------------------------
(* The steps of the scripts: those in which another script starts *)

(* What a device that gets a script keeps: it will be looked at. *)
LEMMA JoinedOk ==
    ASSUME TypeInv', KernelInv', NEW c \in Devices, NEW new, Joins(c, new),
           new.pc \in {"start", "gone"},
           new.pc = "start" /\ c \notin exists' => Removed(c)',
           new.pc = "gone" /\ c \in exists' => Queued(c)'
    PROVE  FollowOk(c)' /\ ListOk(c)' /\ FreeOk(c)'
<1>1. CASE \A s \in Run(c)' : s.how = "company"
  <2>1. Run(c)' # {}
    BY DEF Joins
  <2> QED
    BY <1>1, <2>1, CompanyOk
<1>2. CASE Run(c)' = {new}
  <2>1. \A pcs : HasScript(c, pcs)' <=> new.pc \in pcs
    BY <1>2 DEF HasScript
  <2>2. FollowOk(c)'
    BY <1>2 DEF FollowOk, Removal
  <2>3. Seen(c)'
    <3>1. c \in exists' => Looks(c)'
      BY <2>1 DEF Looks, Early
    <3>2. c \notin exists' => Removed(c)' \/ HasScript(c, {"gone"})'
      BY <2>1
    <3> QED
      BY <3>1, <3>2, WillSee
  <2>4. FreeOk(c)'
    <3>1. Unused(c)' => c \in exists'
      BY DEF Unused
    <3>2. ~HasScript(c, Leaving)'
      BY <2>1 DEF Leaving
    <3>3. c \in exists' => Comes(c)' \/ HasScript(c, Early \cup {"parts", "write"})'
      BY <2>1 DEF Comes, Early
    <3> QED
      BY <3>1, <3>2, <3>3 DEF FreeOk
  <2> QED
    BY <2>2, <2>3, <2>4 DEF ListOk
<1> QED
  BY <1>1, <1>2 DEF Joins

(* A script for a partition runs the one for its disk, a script for Dm the *)
(* one for Slave: whoever counted on the outer script to do so can count   *)
(* on the inner one.                                                       *)
LEMMA PushKeeps ==
    ASSUME UdevInv, NEW h \in Devices, NEW label, AtPc(h, label), NEW next, NEW c \in exists,
           NEW d, d = Top(h).dev,
           refresh_another(h, c, next),
           UNCHANGED kernelVars, UNCHANGED queue, UNCHANGED last, UNCHANGED slaves, UNCHANGED listed,
           \/ label = "start" /\ next = "parent" /\ c = Disk /\ d \in Parts \cap exists
           \/ label = "slaves" /\ next = "self" /\ c = Slave /\ d = Dm /\ Dm \in exists
    PROVE  UdevInv'
<1>1. /\ TypeInv /\ KernelInv /\ StackInv /\ AloneInv
      /\ OrderInv /\ FollowInv /\ CacheInv
      /\ ListInv /\ FreeInv
  BY DEF UdevInv
<1>2. /\ handler[h] # <<>> /\ Top(h) \in Scripts /\ Top(h).pc = label /\ d \in Devices
      /\ ScriptOk(h, Top(h))
      /\ Top(h).how # "company" => Run(d) = {Top(h)}
      /\ Top(h).how = "company" => \A s \in Run(d) : s.how = "company"
      /\ FollowOk(d) /\ ListOk(d) /\ FreeOk(d)
  BY <1>1, AtFacts, TopAlone
<1>3. /\ exists' = exists /\ mounted' = mounted /\ attached' = attached /\ KernelInv'
      /\ \A e \in Devices : Unused(e)' <=> Unused(e)
      /\ mounted \subseteq exists /\ attached \subseteq exists
      /\ Dm \in exists => Slave \in exists
      /\ Slave \in Parts /\ Dm \notin Parts /\ Disk \notin Parts /\ Disk # Dm
      /\ Disk \in Devices /\ Dm \in Devices /\ Slave \in Devices /\ Parts \subseteq Devices
  BY <1>1, KernelSame DEF Devices
<1>4. c \in Devices /\ c # d /\ next \in Early /\ d # Disk /\ d \in exists
  BY <1>3 DEF Early
<1>5. PICK new \in Scripts :
        /\ new = Script(c, "start")
        /\ new.dev = c /\ new.pc = "start" /\ new.todo = Parts
        /\ new.how = IF Run(c) # {} THEN "company" ELSE "clean"
  BY <1>1, <1>4, NewScript
<1>6. PICK t \in Scripts :
        /\ t = [Top(h) EXCEPT !.pc = next]
        /\ t.dev = d /\ t.pc = next /\ t.todo = Top(h).todo /\ t.how = Top(h).how
  <2>1. [Top(h) EXCEPT !.pc = next] \in Scripts
    BY <1>2, <1>4 DEF Scripts, Pcs
  <2> QED
    BY <1>2, <2>1 DEF Scripts
<1>7. Arrives(h, new, t)
  BY <1>1, <1>2, <1>4, <1>5, <1>6, RefreshFacts
<1>8. /\ Joins(c, new)
      /\ \A e \in Devices : e # c /\ e # d => Run(e)' = Run(e)
      /\ t \in Run(d)'
      /\ Run(d)' \subseteq Run(d) \cup {t}
      /\ Top(h).how # "company" => Run(d)' = {t}
      /\ AloneInv'
  <2>1. /\ new.how = IF Run(new.dev) # {} THEN "company" ELSE "clean"
        /\ t.dev = Top(h).dev /\ t.dev # new.dev /\ t.how = Top(h).how
    BY <1>4, <1>5, <1>6
  <2>2. /\ Joins(new.dev, new)
        /\ \A e \in Devices : e # new.dev /\ (handler[h] = <<>> \/ e # t.dev) => Run(e)' = Run(e)
        /\ t \in Run(t.dev)'
        /\ Run(t.dev)' \subseteq Run(t.dev) \cup {t}
        /\ Top(h).how # "company" => Run(t.dev)' = {t}
        /\ AloneInv'
    <3>1. TypeInv /\ AloneInv /\ new \in Scripts /\ t \in Scripts /\ handler[h] # <<>>
      BY <1>1, <1>2, <1>5, <1>6
    <3> QED
      BY <1>7, <2>1, <3>1, ArrivesRun, Zenon
  <2>3. new.dev = c /\ t.dev = d
    BY <1>5, <1>6
  <2> QED
    BY <2>2, <2>3
<1>9. TypeInv'
  BY <1>1, <1>3, <1>7 DEF TypeInv, Arrives
<1>10. StackInv'
  <2>1. new.dev # Dm
    BY <1>3, <1>5
  <2>2. /\ new.pc \notin Removal /\ Top(h).pc \notin Removal /\ new.pc # "parent"
        /\ t.todo = Parts
        /\ t.pc \in Early /\ (t.pc = "parent" => t.dev \in Parts)
    BY <1>2, <1>4, <1>5, <1>6 DEF Removal, Early, ScriptOk
  <2> QED
    BY <1>1, <1>2, <1>5, <1>6, <1>7, <2>1, <2>2, ArrivesStack
<1>11. OrderInv'
  BY <1>1, <1>3 DEF OrderInv, IsUpdate, IsRemove
<1>12. /\ \A e \in Devices : Queued(e)' <=> Queued(e)
       /\ \A e \in Devices : Removed(e)' <=> Removed(e)
       /\ \A e \in Devices : last'[e] = last[e] /\ (e \in listed' <=> e \in listed)
  BY DEF Queued, Removed, IsUpdate, IsRemove
<1>13. FollowOk(c)' /\ ListOk(c)' /\ FreeOk(c)'
  BY <1>3, <1>4, <1>5, <1>8, <1>9, JoinedOk
<1>14. FollowOk(d)' /\ ListOk(d)' /\ FreeOk(d)'
  <2>1. CASE Top(h).how = "company"
    BY <1>2, <1>4, <1>6, <1>8, <2>1, CompanyOk
  <2>2. CASE Top(h).how # "company"
    <3>1. Run(d)' = {t} /\ t.pc \in Early
      BY <1>4, <1>6, <1>8, <2>2
    <3>2. \A pcs : HasScript(d, pcs)' <=> t.pc \in pcs
      BY <3>1 DEF HasScript
    <3>3. FollowOk(d)'
      BY <1>3, <1>4, <3>1 DEF FollowOk, Removal, Early
    <3>4. Seen(d)'
      BY <1>3, <1>4, <1>9, <3>1, <3>2, WillSee DEF Looks
    <3>5. FreeOk(d)'
      BY <3>1, <3>2 DEF FreeOk, Early, Leaving
    <3> QED
      BY <3>3, <3>4, <3>5 DEF ListOk
  <2> QED
    BY <2>1, <2>2
\* what others count on
<1>15. \A pcs : HasScript(c, pcs) => HasScript(c, pcs)'
  BY <1>8 DEF Joins, HasScript
<1>16. HasScript(c, {"start"})'
  BY <1>5, <1>8 DEF Joins, HasScript
<1>17. d # Dm => Run(Dm)' = Run(Dm)
  BY <1>3, <1>8
<1>18. ASSUME NEW e \in Devices, e # c, e # d
       PROVE  FollowOk(e)' /\ ListOk(e)' /\ FreeOk(e)'
  <2>1. FollowOk(e) /\ ListOk(e) /\ FreeOk(e)
    BY <1>1 DEF FollowInv, ListInv, FreeInv
  <2>2. /\ Run(e)' = Run(e)
        /\ \A pcs : HasScript(e, pcs)' <=> HasScript(e, pcs)
        /\ Looks(e)' <=> Looks(e)
        /\ Alone(e)' <=> Alone(e)
        /\ AllClean(e)' <=> AllClean(e)
    BY <1>8, <1>12, <1>18 DEF HasScript, Looks, Alone, AllClean
  <2>3. FollowOk(e)'
    BY <1>3, <1>12, <2>1, <2>2 DEF FollowOk
  <2>4. e = Disk => c = Slave /\ d = Dm
    BY <1>18
  <2>5. e = Disk => \A p \in Parts : Asks(p) => Asks(p)'
    <3> SUFFICES ASSUME e = Disk, NEW p \in Parts, Asks(p) PROVE Asks(p)'
      OBVIOUS
    <3>1. CASE p = c
      BY <1>16, <3>1 DEF Asks
    <3>2. CASE p # c
      <4>1. Run(p)' = Run(p)
        BY <1>3, <1>8, <2>4, <3>2
      <4> QED
        BY <1>3, <1>12, <4>1 DEF Asks, HasScript
    <3> QED
      BY <3>1, <3>2
  <2>6. e = Disk => LooksAtPart(Slave)'
    BY <1>16, <2>4 DEF LooksAtPart, Asks
  <2>7. e = Disk => \A p \in Parts : LooksAtPart(p) => LooksAtPart(p)'
    BY <2>2, <2>5 DEF LooksAtPart
  <2>8. e = Slave => (AsksSlave => AsksSlave')
    BY <1>3, <1>12, <1>17, <1>18 DEF AsksSlave, HasScript
  <2>9. Seen(e) => Seen(e)'
    BY <1>3, <1>12, <2>2, <2>6, <2>7, <2>8 DEF Seen
  <2>10. Comes(e) => Comes(e)'
    <3>1. Dm \notin exists /\ HasScript(Dm, Removal) => HasScript(Dm, Removal)'
      BY <1>4, <1>17 DEF HasScript
    <3> QED
      BY <1>3, <1>12, <2>5, <3>1 DEF Comes
  <2>11. ListOk(e)'
    BY <1>3, <1>12, <2>1, <2>2, <2>9 DEF ListOk
  <2>12. FreeOk(e)'
    BY <1>3, <1>12, <2>1, <2>2, <2>10 DEF FreeOk
  <2> QED
    BY <2>3, <2>11, <2>12
<1>19. CacheInv'
  <2>1. HasScript(Dm, Removal)' => HasScript(Dm, Removal)
    <3>1. d = Dm => Run(d)' = {t}
      BY <1>2, <1>8 DEF ScriptOk
    <3>2. t.pc \notin Removal
      BY <1>4, <1>6 DEF Early, Removal
    <3> QED
      BY <1>17, <3>1, <3>2 DEF HasScript
  <2>2. HasScript(Dm, Early) => HasScript(Dm, Early)'
    <3>1. d = Dm => HasScript(Dm, Early)'
      BY <1>4, <1>6, <1>8 DEF HasScript
    <3> QED
      BY <1>17, <3>1 DEF HasScript
  <2> QED
    BY <1>1, <1>3, <2>1, <2>2 DEF CacheInv, CacheReady, Queued, IsUpdate, IsRemove
<1> QED
  BY <1>3, <1>8, <1>9, <1>10, <1>11, <1>13, <1>14, <1>18, <1>19 DEF UdevInv, FollowInv, ListInv, FreeInv

(* The script for a partition starts with the disk (lines 68-72). *)
LEMMA RefreshParentKeeps ==
    ASSUME UdevInv, NEW h \in Devices, RefreshParent(h)
    PROVE  UdevInv'
<1>1. KernelInv
  BY DEF UdevInv
<1>2. CASE Top(h).dev \in Parts \cap exists
  <2>1. Disk \in exists
    BY <1>1, <1>2 DEF KernelInv
  <2> QED
    BY <1>2, <2>1, PushKeeps DEF RefreshParent
<1>3. CASE Top(h).dev \notin Parts \cap exists
  BY <1>3, GotoKeeps DEF RefreshParent
<1> QED
  BY <1>2, <1>3

(* The script for Dm starts with its slave (lines 79-87). *)
LEMMA RefreshSlavesKeeps ==
    ASSUME UdevInv, NEW h \in Devices, RefreshSlaves(h)
    PROVE  UdevInv'
<1>1. KernelInv
  BY DEF UdevInv
<1>2. CASE Top(h).dev = Dm /\ Dm \in exists
  <2>1. Slave \in exists
    BY <1>1, <1>2 DEF KernelInv
  <2> QED
    BY <1>2, <2>1, PushKeeps DEF RefreshSlaves
<1>3. CASE ~(Top(h).dev = Dm /\ Dm \in exists)
  BY <1>3, GotoKeeps DEF RefreshSlaves
<1> QED
  BY <1>2, <1>3

-----------------------------------------------------------------------------
(* Events are added to the queue *)

(* What is in the queue then *)
LEMMA AppendedFacts ==
    ASSUME TypeInv, NEW ev \in Seq(Events), queue' = queue \o ev
    PROVE  /\ queue' \in Seq(Events)
           /\ Len(queue) \in Nat /\ Len(ev) \in Nat /\ Len(queue') = Len(queue) + Len(ev)
           /\ \A n \in 1..Len(queue) : queue'[n] = queue[n]
           /\ \A n \in 1..Len(ev) : queue'[Len(queue) + n] = ev[n]
           /\ \A n \in 1..Len(queue') : n > Len(queue) =>
                \E m \in 1..Len(ev) : n = Len(queue) + m /\ queue'[n] = ev[m]
<1>1. queue \in Seq(Events)
  BY DEF TypeInv
<1>2. /\ queue' \in Seq(Events) /\ Len(queue') = Len(queue) + Len(ev)
      /\ \A n \in 1..(Len(queue) + Len(ev)) :
            queue'[n] = IF n <= Len(queue) THEN queue[n] ELSE ev[n - Len(queue)]
  BY <1>1, ConcatProperties
<1>3. Len(queue) \in Nat /\ Len(ev) \in Nat
  BY <1>1
<1>4. \A n \in 1..Len(queue) : queue'[n] = queue[n]
  BY <1>2, <1>3
<1>5. ASSUME NEW n \in 1..Len(ev) PROVE queue'[Len(queue) + n] = ev[n]
  <2>1. /\ Len(queue) + n \in 1..(Len(queue) + Len(ev)) /\ ~(Len(queue) + n <= Len(queue))
        /\ (Len(queue) + n) - Len(queue) = n
    BY <1>3
  <2> QED
    BY <1>2, <2>1
<1>6. ASSUME NEW n \in 1..Len(queue'), n > Len(queue)
      PROVE  \E m \in 1..Len(ev) : n = Len(queue) + m /\ queue'[n] = ev[m]
  <2>1. n - Len(queue) \in 1..Len(ev) /\ n = Len(queue) + (n - Len(queue))
    BY <1>2, <1>3, <1>6
  <2> QED
    BY <1>5, <2>1
<1> QED
  BY <1>2, <1>3, <1>4, <1>5, <1>6

(* Which devices have an event then *)
LEMMA AppendedEvents ==
    ASSUME TypeInv, NEW ev \in Seq(Events), queue' = queue \o ev, NEW d
    PROVE  /\ Queued(d)' <=> \/ Queued(d)
                             \/ \E n \in 1..Len(ev) : ev[n].dev = d /\ ev[n].act # "remove"
           /\ Removed(d)' <=> \/ Removed(d)
                              \/ \E n \in 1..Len(ev) : ev[n].dev = d /\ ev[n].act = "remove"
<1>1. /\ Len(queue) \in Nat /\ Len(ev) \in Nat /\ Len(queue') = Len(queue) + Len(ev)
      /\ \A n \in 1..Len(queue) : queue'[n] = queue[n]
      /\ \A n \in 1..Len(ev) : queue'[Len(queue) + n] = ev[n]
      /\ \A n \in 1..Len(queue') : n > Len(queue) =>
            \E m \in 1..Len(ev) : n = Len(queue) + m /\ queue'[n] = ev[m]
  BY AppendedFacts
<1>2. \A n \in 1..Len(queue) : n \in 1..Len(queue')
  BY <1>1
<1>3. \A n \in 1..Len(ev) : Len(queue) + n \in 1..Len(queue')
  BY <1>1
<1>4. \A n \in 1..Len(queue') : n \in 1..Len(queue) \/ n > Len(queue)
  BY <1>1
<1>5. ASSUME Queued(d) \/ \E n \in 1..Len(ev) : ev[n].dev = d /\ ev[n].act # "remove"
      PROVE  Queued(d)'
  BY <1>1, <1>2, <1>3, <1>5 DEF Queued, IsUpdate
<1>6. ASSUME Queued(d)'
      PROVE  Queued(d) \/ \E n \in 1..Len(ev) : ev[n].dev = d /\ ev[n].act # "remove"
  <2>1. PICK n \in 1..Len(queue') : IsUpdate(n, d)'
    BY <1>6 DEF Queued
  <2>2. CASE n \in 1..Len(queue)
    BY <1>1, <2>1, <2>2 DEF Queued, IsUpdate
  <2>3. CASE n > Len(queue)
    BY <1>1, <2>1, <2>3 DEF IsUpdate
  <2> QED
    BY <1>4, <2>2, <2>3
<1>7. ASSUME Removed(d) \/ \E n \in 1..Len(ev) : ev[n].dev = d /\ ev[n].act = "remove"
      PROVE  Removed(d)'
  BY <1>1, <1>2, <1>3, <1>7 DEF Removed, IsRemove
<1>8. ASSUME Removed(d)'
      PROVE  Removed(d) \/ \E n \in 1..Len(ev) : ev[n].dev = d /\ ev[n].act = "remove"
  <2>1. PICK n \in 1..Len(queue') : IsRemove(n, d)'
    BY <1>8 DEF Removed
  <2>2. CASE n \in 1..Len(queue)
    BY <1>1, <2>1, <2>2 DEF Removed, IsRemove
  <2>3. CASE n > Len(queue)
    BY <1>1, <2>1, <2>3 DEF IsRemove
  <2> QED
    BY <1>4, <2>2, <2>3
<1> QED
  BY <1>5, <1>6, <1>7, <1>8

(* The last event of each device still agrees with what became of it, if   *)
(* the new events do.                                                      *)
LEMMA AppendedOrder ==
    ASSUME TypeInv, OrderInv, NEW ev \in Seq(Events), queue' = queue \o ev,
           \A n \in 1..Len(ev) : ev[n].act = "remove" <=> ev[n].dev \notin exists',
           \A d \in Devices : (\A n \in 1..Len(ev) : ev[n].dev # d) => (d \in exists' <=> d \in exists)
    PROVE  OrderInv'
<1>1. /\ Len(queue) \in Nat /\ Len(ev) \in Nat /\ Len(queue') = Len(queue) + Len(ev)
      /\ \A n \in 1..Len(queue) : queue'[n] = queue[n]
      /\ \A n \in 1..Len(ev) : queue'[Len(queue) + n] = ev[n]
      /\ \A n \in 1..Len(queue') : n > Len(queue) =>
            \E m \in 1..Len(ev) : n = Len(queue) + m /\ queue'[n] = ev[m]
  BY AppendedFacts
<1> SUFFICES ASSUME NEW d \in Devices, NEW n \in 1..Len(queue')
             PROVE  /\ IsUpdate(n, d)' /\ d \notin exists' => \E m \in (n + 1)..Len(queue') : IsRemove(m, d)'
                    /\ IsRemove(n, d)' /\ d \in exists' => \E m \in (n + 1)..Len(queue') : IsUpdate(m, d)'
  BY DEF OrderInv
<1>2. CASE n > Len(queue)
  <2>1. PICK m \in 1..Len(ev) : queue'[n] = ev[m]
    BY <1>1, <1>2
  <2>2. ev[m].act = "remove" <=> ev[m].dev \notin exists'
    OBVIOUS
  <2> QED
    BY <2>1, <2>2 DEF IsUpdate, IsRemove
<1>3. CASE ~(n > Len(queue))
  <2>1. n \in 1..Len(queue)
    BY <1>1, <1>3
  <2>2. CASE \E m \in 1..Len(ev) : ev[m].dev = d
    <3>1. PICK m \in 1..Len(ev) : ev[m].dev = d
      BY <2>2
    <3>2. Len(queue) + m \in (n + 1)..Len(queue') /\ queue'[Len(queue) + m] = ev[m]
      BY <1>1, <2>1
    <3> QED
      BY <3>1, <3>2 DEF IsUpdate, IsRemove
  <2>3. CASE \A m \in 1..Len(ev) : ev[m].dev # d
    <3>1. d \in exists' <=> d \in exists
      BY <2>3
    <3>2. IsUpdate(n, d)' <=> IsUpdate(n, d)
      BY <1>1, <2>1 DEF IsUpdate
    <3>3. IsRemove(n, d)' <=> IsRemove(n, d)
      BY <1>1, <2>1 DEF IsRemove
    <3>4. \A m \in (n + 1)..Len(queue) : m \in (n + 1)..Len(queue') /\ queue'[m] = queue[m]
      BY <1>1, <2>1
    <3>5. /\ IsUpdate(n, d) /\ d \notin exists => \E m \in (n + 1)..Len(queue) : IsRemove(m, d)
          /\ IsRemove(n, d) /\ d \in exists => \E m \in (n + 1)..Len(queue) : IsUpdate(m, d)
      BY <2>1 DEF OrderInv
    <3> QED
      BY <3>1, <3>2, <3>3, <3>4, <3>5 DEF IsUpdate, IsRemove
  <2> QED
    BY <2>2, <2>3
<1> QED
  BY <1>2, <1>3

(* The removals of Dm still alternate with updates, and each finds the     *)
(* cache, if a new one comes alone and finds Dm there.                     *)
LEMMA AppendedCache ==
    ASSUME TypeInv, OrderInv, CacheInv, NEW ev \in Seq(Events), queue' = queue \o ev,
           \A n \in 1..Len(ev) : ev[n].dev = Dm /\ ev[n].act = "remove" =>
                Len(ev) = 1 /\ Dm \in exists,
           \A n \in 1..Len(queue) :
                IsRemove(n, Dm) /\ (\A m \in 1..(n - 1) : queue[m].dev # Dm) => CacheReady',
           CacheReady /\ Dm \in exists => CacheReady'
    PROVE  /\ \A i, j \in 1..Len(queue') : i < j /\ IsRemove(i, Dm)' /\ IsRemove(j, Dm)' =>
                    \E m \in (i + 1)..(j - 1) : IsUpdate(m, Dm)'
           /\ \A n \in 1..Len(queue') :
                    IsRemove(n, Dm)' /\ (\A m \in 1..(n - 1) : queue'[m].dev # Dm) => CacheReady'
<1>1. /\ Len(queue) \in Nat /\ Len(ev) \in Nat /\ Len(queue') = Len(queue) + Len(ev)
      /\ \A n \in 1..Len(queue) : queue'[n] = queue[n]
      /\ \A n \in 1..Len(ev) : queue'[Len(queue) + n] = ev[n]
      /\ \A n \in 1..Len(queue') : n > Len(queue) =>
            \E m \in 1..Len(ev) : n = Len(queue) + m /\ queue'[n] = ev[m]
  BY AppendedFacts
<1>2. \A n \in 1..Len(queue) : /\ IsUpdate(n, Dm)' <=> IsUpdate(n, Dm)
                               /\ IsRemove(n, Dm)' <=> IsRemove(n, Dm)
  BY <1>1 DEF IsUpdate, IsRemove
\* a new removal is the last event
<1>3. ASSUME NEW n \in 1..Len(queue'), n > Len(queue), IsRemove(n, Dm)'
      PROVE  n = Len(queue) + 1 /\ Dm \in exists /\ Len(queue') = Len(queue) + 1
  <2>1. PICK m \in 1..Len(ev) : n = Len(queue) + m /\ queue'[n] = ev[m]
    BY <1>1, <1>3
  <2>2. Len(ev) = 1 /\ Dm \in exists
    BY <1>3, <2>1 DEF IsRemove
  <2> QED
    BY <1>1, <2>1, <2>2
<1>4. ASSUME NEW i \in 1..Len(queue'), NEW j \in 1..Len(queue'),
             i < j, IsRemove(i, Dm)', IsRemove(j, Dm)'
      PROVE  \E m \in (i + 1)..(j - 1) : IsUpdate(m, Dm)'
  <2>1. CASE j \in 1..Len(queue)
    <3>1. i \in 1..Len(queue)
      BY <1>1, <1>4, <2>1
    <3>2. PICK m \in (i + 1)..(j - 1) : IsUpdate(m, Dm)
      BY <1>2, <1>4, <2>1, <3>1 DEF CacheInv
    <3>3. m \in 1..Len(queue)
      BY <2>1, <3>1
    <3> QED
      BY <1>2, <3>2, <3>3
  <2>2. CASE j > Len(queue)
    <3>1. j = Len(queue) + 1 /\ Dm \in exists
      BY <1>3, <1>4, <2>2
    <3>2. i \in 1..Len(queue)
      BY <1>1, <1>4, <3>1
    <3>3. PICK m \in (i + 1)..Len(queue) : IsUpdate(m, Dm)
      BY <1>2, <1>4, <3>1, <3>2 DEF OrderInv, Devices
    <3>4. m \in 1..Len(queue) /\ m \in (i + 1)..(j - 1)
      BY <1>1, <3>1, <3>2
    <3> QED
      BY <1>2, <3>3, <3>4
  <2> QED
    BY <1>1, <2>1, <2>2
<1>5. ASSUME NEW n \in 1..Len(queue'), IsRemove(n, Dm)', \A m \in 1..(n - 1) : queue'[m].dev # Dm
      PROVE  CacheReady'
  <2>1. CASE n \in 1..Len(queue)
    <3>1. \A m \in 1..(n - 1) : queue[m].dev # Dm
      BY <1>1, <1>5, <2>1
    <3> QED
      BY <1>2, <1>5, <2>1, <3>1
  <2>2. CASE n > Len(queue)
    <3>1. n = Len(queue) + 1 /\ Dm \in exists
      BY <1>3, <1>5, <2>2
    <3>2. \A m \in 1..Len(queue) : queue[m].dev # Dm
      BY <1>1, <1>5, <3>1
    <3>3. ~Queued(Dm)
      BY <3>2 DEF Queued, IsUpdate
    <3> QED
      BY <3>1, <3>3 DEF CacheInv
  <2> QED
    BY <1>1, <2>1, <2>2
<1> QED
  BY <1>4, <1>5

-----------------------------------------------------------------------------
(* The steps of the kernel *)

(* What changes a device comes with an event for it, a removal with one    *)
(* for the removal, and a medium with one for the disk.                    *)
Announces(ev) ==
    /\ \A d \in Devices : (\A n \in 1..Len(ev) : ev[n].dev # d) =>
            /\ d \in exists' <=> d \in exists
            /\ d \in mounted' <=> d \in mounted
            /\ d \in attached' <=> d \in attached
    /\ \A n \in 1..Len(ev) : ev[n].act = "remove" <=> ev[n].dev \notin exists'
    /\ exists' \cap Parts = exists \cap Parts \/ \E n \in 1..Len(ev) : ev[n].dev = Disk
    /\ \A n \in 1..Len(ev) : ev[n].dev = Dm /\ ev[n].act = "remove" =>
            Len(ev) = 1 /\ Dm \in exists

(* A change that is announced keeps the invariant. *)
LEMMA KernelKeeps ==
    ASSUME UdevInv, NEW ev \in Seq(Events), Changed(ev), Announces(ev),
           exists' \in SUBSET Devices, mounted' \in SUBSET exists', attached' \in SUBSET exists',
           KernelInv'
    PROVE  UdevInv'
<1>1. /\ TypeInv /\ KernelInv /\ StackInv /\ AloneInv
      /\ OrderInv /\ FollowInv /\ CacheInv
      /\ ListInv /\ FreeInv
  BY DEF UdevInv
<1>2. handler' = handler /\ queue' = queue \o ev /\ slaves' = slaves /\ listed' = listed /\ last' = last
  BY DEF Changed
<1>3. TypeInv'
  <2>1. queue' \in Seq(Events)
    BY <1>1, <1>2, AppendedFacts
  <2> QED
    BY <1>1, <1>2, <2>1 DEF TypeInv
<1>4. StackInv' /\ AloneInv'
  BY <1>1, <1>2 DEF StackInv, ScriptOk, AloneInv
<1>5. \A d \in Devices : Run(d)' = Run(d)
  BY <1>2 DEF Run
<1>6. \A d \in Devices : /\ \A pcs : HasScript(d, pcs)' <=> HasScript(d, pcs)
                         /\ Alone(d)' <=> Alone(d)
                         /\ AllClean(d)' <=> AllClean(d)
  BY <1>5 DEF HasScript, Alone, AllClean
<1> DEFINE Has(d) == \E n \in 1..Len(ev) : ev[n].dev = d
<1>7. \A d \in Devices : ~Has(d) =>
            /\ d \in exists' <=> d \in exists
            /\ d \in mounted' <=> d \in mounted
            /\ d \in attached' <=> d \in attached
  BY DEF Announces
<1>8. \A d \in Devices : /\ Queued(d) => Queued(d)'
                         /\ Removed(d) => Removed(d)'
  BY <1>1, <1>2, AppendedEvents
<1>9. ASSUME NEW d \in Devices, Has(d)
      PROVE  (d \in exists' => Queued(d)') /\ (d \notin exists' => Removed(d)')
  <2>1. PICK n \in 1..Len(ev) : ev[n].dev = d
    BY <1>9
  <2>2. ev[n].act = "remove" <=> d \notin exists'
    BY <2>1 DEF Announces
  <2> QED
    BY <1>1, <1>2, <2>1, <2>2, AppendedEvents
<1>10. exists' \cap Parts = exists \cap Parts \/ Has(Disk)
  BY DEF Announces
<1>11. OrderInv'
  BY <1>1, <1>2, AppendedOrder DEF Announces
<1>12. /\ Slave \in Parts /\ Dm \notin Parts /\ Disk \notin Parts /\ Disk # Dm
       /\ Disk \in Devices /\ Dm \in Devices /\ Slave \in Devices /\ Parts \subseteq Devices
       /\ Dm \in exists' => Slave \in exists'
  BY UdevAssumption DEF Devices, KernelInv
<1> HIDE DEF Has
<1>13. CacheReady => CacheReady'
  BY <1>2, <1>6, <1>12 DEF CacheReady
<1>14. CacheInv'
  <2>1. /\ HasScript(Dm, Removal)' => slaves' # NoFile
        /\ Dm \in exists' => Queued(Dm)' \/ CacheReady'
    BY <1>1, <1>2, <1>6, <1>7, <1>8, <1>9, <1>12, <1>13 DEF CacheInv
  <2>2. /\ \A i, j \in 1..Len(queue') : i < j /\ IsRemove(i, Dm)' /\ IsRemove(j, Dm)' =>
                    \E m \in (i + 1)..(j - 1) : IsUpdate(m, Dm)'
        /\ \A n \in 1..Len(queue') :
                    IsRemove(n, Dm)' /\ (\A m \in 1..(n - 1) : queue'[m].dev # Dm) => CacheReady'
    <3>1. \A n \in 1..Len(queue) :
                IsRemove(n, Dm) /\ (\A m \in 1..(n - 1) : queue[m].dev # Dm) => CacheReady'
      BY <1>1, <1>13 DEF CacheInv
    <3>2. \A n \in 1..Len(ev) : ev[n].dev = Dm /\ ev[n].act = "remove" =>
                Len(ev) = 1 /\ Dm \in exists
      BY DEF Announces
    <3> QED
      BY <1>1, <1>2, <1>13, <3>1, <3>2, AppendedCache
  <2> QED
    BY <2>1, <2>2 DEF CacheInv
\* who looks
<1>15. \A d \in Devices : Looks(d) => Looks(d)'
  BY <1>6, <1>8 DEF Looks
<1>16. \A p \in Parts : (Asks(p) => Asks(p)') /\ (Has(p) /\ p \in exists' => Asks(p)')
  BY <1>6, <1>8, <1>9, <1>12 DEF Asks
<1>17. (AsksSlave => AsksSlave') /\ (Has(Dm) /\ Dm \in exists' => AsksSlave')
  BY <1>6, <1>8, <1>9, <1>12 DEF AsksSlave
<1>18. \A p \in Parts : /\ LooksAtPart(p) => LooksAtPart(p)'
                        /\ Has(p) /\ p \in exists' => LooksAtPart(p)'
  BY <1>5, <1>12, <1>15, <1>16 DEF LooksAtPart
<1>19. ASSUME NEW d \in Devices
       PROVE  FollowOk(d)' /\ ListOk(d)' /\ FreeOk(d)'
  <2>1. FollowOk(d) /\ ListOk(d) /\ FreeOk(d)
    BY <1>1 DEF FollowInv, ListInv, FreeInv
  <2>2. FollowOk(d)'
    BY <1>2, <1>5, <1>7, <1>8, <1>9, <2>1 DEF FollowOk
  <2>3. Has(d) => Seen(d)'
    BY <1>3, <1>9, WillSee DEF Looks
  <2>4. ASSUME ~Has(d), Seen(d) PROVE Seen(d)'
    <3>1. /\ d \notin exists' => Removed(d)' \/ HasScript(d, {"gone"})'
          /\ d \in mounted' => Looks(d)'
      BY <1>6, <1>7, <1>8, <1>15, <2>4 DEF Seen
    <3>2. d = Slave /\ Dm \in exists' => Looks(d)' \/ AsksSlave'
      BY <1>7, <1>12, <1>15, <1>17, <2>4 DEF Seen
    <3>3. d = Disk => \A p \in Parts : p \in mounted' \cup attached' => LooksAtPart(p)'
      BY <1>7, <1>12, <1>18, <2>4 DEF Seen
    <3>4. d = Disk => (Dm \in exists' => LooksAtPart(Slave)' \/ AsksSlave')
      BY <1>7, <1>12, <1>17, <1>18, <2>4 DEF Seen
    <3>5. d = Disk => (Disk \in exists' /\ exists' \cap Parts = {} => Looks(d)' \/ HasScript(d, {"parts"})')
      BY <1>6, <1>7, <1>10, <1>15, <2>4 DEF Seen
    <3> QED
      BY <3>1, <3>2, <3>3, <3>4, <3>5 DEF Seen
  <2>5. ListOk(d)'
    <3>1. CASE Has(d)
      BY <2>3, <3>1 DEF ListOk
    <3>2. CASE ~Has(d)
      BY <1>2, <1>6, <1>7, <2>1, <2>4, <3>2 DEF ListOk
    <3> QED
      BY <3>1, <3>2
  <2>6. Unused(d)' => d \in exists'
    BY DEF Unused
  <2>7. CASE Has(d)
    <3>1. Unused(d)' => Comes(d)'
      BY <1>9, <2>6, <2>7 DEF Comes
    <3> QED
      BY <2>2, <2>5, <3>1 DEF FreeOk
  <2>8. CASE ~Has(d)
    <3>1. Comes(d) /\ Unused(d)' => Comes(d)'
      <4>1. d \in {Slave, Disk} /\ Unused(d)' => Dm \notin exists'
        BY <1>12 DEF Unused, is_used, Claimed
      <4>2. d = Disk => \A p \in Parts \cap exists : Asks(p) => Asks(p)' /\ p \in exists'
        BY <1>10, <1>16, <2>8
      <4> QED
        BY <1>6, <1>8, <1>12, <4>1, <4>2 DEF Comes
    <3>2. ASSUME Unused(d)', ~Unused(d) PROVE Comes(d)'
      <4>1. Has(Dm) /\ Dm \notin exists' /\ d \in {Slave, Disk} => Comes(d)'
        BY <1>9, <1>12 DEF Comes
      <4>2. d = Disk => \A p \in Parts \cap exists : p \in exists' /\ (Has(p) => Comes(d)')
        BY <1>10, <1>16, <2>8 DEF Comes
      <4>3. d \in exists /\ ~(d \in mounted) /\ ~(d = Dm /\ d \in attached)
        BY <1>7, <2>8, <3>2 DEF Unused, is_used, is_attached, Claimed
      <4>4. CASE d # Disk
        <5>1. d = Slave /\ Dm \in exists
          BY <3>2, <4>3, <4>4 DEF Unused, is_used, is_attached, Claimed
        <5>2. Dm \notin exists'
          BY <3>2, <5>1 DEF Unused, is_used, Claimed
        <5> QED
          BY <1>7, <1>12, <4>1, <5>1, <5>2
      <4>5. CASE d = Disk
        <5>1. exists' \cap Parts = exists \cap Parts /\ exists' \cap Parts # {}
          BY <1>10, <2>8, <3>2, <4>5 DEF Unused
        <5>2. ~is_used(Disk)
          BY <1>12, <4>3, <4>5 DEF is_used, Claimed, is_attached
        <5>3. PICK p \in Parts \cap exists : is_used(p) \/ is_attached(p)
          BY <3>2, <4>3, <4>5, <5>1, <5>2 DEF Unused
        <5>4. p \notin mounted' /\ p \notin attached' /\ ~(p = Slave /\ Dm \in exists')
          BY <3>2, <4>2, <4>5, <5>3 DEF Unused, is_used, is_attached, Claimed
        <5>5. CASE p \in mounted \/ p \in attached
          BY <1>7, <1>12, <4>2, <4>5, <5>3, <5>4, <5>5
        <5>6. CASE p = Slave /\ Dm \in exists
          BY <1>7, <1>12, <4>1, <4>5, <5>4, <5>6
        <5> QED
          BY <1>12, <5>3, <5>5, <5>6 DEF is_used, is_attached, Claimed
      <4> QED
        BY <4>4, <4>5
    <3>3. FreeOk(d)'
      BY <1>2, <1>6, <2>1, <3>1, <3>2 DEF FreeOk
    <3> QED
      BY <2>2, <2>5, <3>3
  <2> QED
    BY <2>7, <2>8
<1> QED
  BY <1>3, <1>4, <1>11, <1>14, <1>19 DEF UdevInv, FollowInv, ListInv, FreeInv

(* One event *)
LEMMA OneEvent ==
    ASSUME NEW a \in {"add", "change", "remove"}, NEW d \in Devices
    PROVE  /\ <<Event(a, d)>> \in Seq(Events) /\ Len(<<Event(a, d)>>) = 1
           /\ <<Event(a, d)>>[1].dev = d /\ <<Event(a, d)>>[1].act = a
<1>1. Event(a, d) \in Events /\ Event(a, d).dev = d /\ Event(a, d).act = a
  BY DEF Event, Events
<1> QED
  BY <1>1

(* A step that announces one device, which is there afterwards or not, and *)
(* changes nothing about another.                                          *)
LEMMA OneKeeps ==
    ASSUME UdevInv, NEW a \in {"change", "remove"}, NEW d \in Devices \ {Disk},
           Changed(<<Event(a, d)>>),
           \A e \in Devices : e # d =>
                /\ e \in exists' <=> e \in exists
                /\ e \in mounted' <=> e \in mounted
                /\ e \in attached' <=> e \in attached,
           a = "remove" <=> d \notin exists', d \in Parts => (d \in exists' <=> d \in exists),
           d = Dm /\ a = "remove" => Dm \in exists,
           exists' \in SUBSET Devices, mounted' \in SUBSET exists', attached' \in SUBSET exists',
           KernelInv'
    PROVE  UdevInv'
<1> DEFINE ev == <<Event(a, d)>>
<1>1. ev \in Seq(Events) /\ Len(ev) = 1 /\ ev[1].dev = d /\ ev[1].act = a
  BY OneEvent
<1>2. Changed(ev)
  OBVIOUS
<1> HIDE DEF ev
<1>3. exists' \cap Parts = exists \cap Parts
  BY DEF Devices
<1>4. Announces(ev)
  BY <1>1, <1>3 DEF Announces
<1> QED
  BY <1>1, <1>2, <1>4, KernelKeeps

(* A device is mounted or unmounted, attached or detached. *)
LEMMA UseKeeps ==
    ASSUME UdevInv, NEW d \in Devices, d \in exists, Changed(<<Event("change", d)>>),
           UNCHANGED exists,
           \A e \in Devices : e # d => (e \in mounted' <=> e \in mounted) /\ (e \in attached' <=> e \in attached),
           mounted' \in SUBSET exists, attached' \in SUBSET exists
    PROVE  UdevInv'
<1> DEFINE ev == <<Event("change", d)>>
<1>1. ev \in Seq(Events) /\ Len(ev) = 1 /\ ev[1].dev = d /\ ev[1].act = "change"
  BY OneEvent
<1>2. Changed(ev)
  OBVIOUS
<1> HIDE DEF ev
<1>3. KernelInv' /\ exists' \in SUBSET Devices
  BY DEF UdevInv, TypeInv, KernelInv
<1>4. Announces(ev)
  BY <1>1 DEF Announces
<1> QED
  BY <1>1, <1>2, <1>3, <1>4, KernelKeeps

(* A mount changes the use of one device, and the kernel announces it. *)
LEMMA MountKeeps ==
    ASSUME UdevInv, NEW d \in Devices, Mount(d)
    PROVE  UdevInv'
<1>1. mounted \in SUBSET exists /\ attached \in SUBSET exists
  BY DEF UdevInv, TypeInv
<1>2. d \in exists
  BY <1>1 DEF Mount, Claimable
<1>3. /\ mounted' \in SUBSET exists
      /\ \A e \in Devices : e # d => (e \in mounted' <=> e \in mounted)
  BY <1>1, <1>2 DEF Mount
<1>4. attached' = attached /\ exists' = exists /\ Changed(<<Event("change", d)>>)
  BY DEF Mount
<1> QED
  BY <1>1, <1>2, <1>3, <1>4, UseKeeps

(* So does attaching a device to another qube. *)
LEMMA AttachKeeps ==
    ASSUME UdevInv, NEW d \in Devices, Attach(d)
    PROVE  UdevInv'
<1>1. mounted \in SUBSET exists /\ attached \in SUBSET exists
  BY DEF UdevInv, TypeInv
<1>2. d \in exists
  BY DEF Attach
<1>3. /\ attached' \in SUBSET exists
      /\ \A e \in Devices : e # d => (e \in attached' <=> e \in attached)
  BY <1>1, <1>2 DEF Attach
<1>4. mounted' = mounted /\ exists' = exists /\ Changed(<<Event("change", d)>>)
  BY DEF Attach
<1> QED
  BY <1>1, <1>2, <1>3, <1>4, UseKeeps

(* A device-mapper device is made on Slave or taken away. *)
LEMMA MapKeeps ==
    ASSUME UdevInv, Map
    PROVE  UdevInv'
<1>1. /\ exists \in SUBSET Devices /\ mounted \in SUBSET exists /\ attached \in SUBSET exists
      /\ KernelInv
  BY DEF UdevInv, TypeInv
<1>2. mounted' = mounted /\ attached' = attached
  BY DEF Map
<1>3. Dm \in Devices \ {Disk} /\ Dm \notin Parts /\ Dm # Slave
  BY UdevAssumption DEF Devices
<1>4. CASE Dm \in exists
  <2>1. exists' = exists \ {Dm} /\ Changed(<<Event("remove", Dm)>>) /\ Dm \notin mounted \cup attached
    BY <1>4 DEF Map, Busy, Claimed
  <2>2. KernelInv'
    BY <1>1, <1>3, <2>1 DEF KernelInv
  <2>3. \A e \in Devices : e # Dm => (e \in exists' <=> e \in exists)
    BY <2>1
  <2>4. mounted' \in SUBSET exists' /\ attached' \in SUBSET exists' /\ exists' \in SUBSET Devices
    BY <1>1, <1>2, <2>1
  <2> QED
    BY <1>2, <1>3, <1>4, <2>1, <2>2, <2>3, <2>4, OneKeeps
<1>5. CASE Dm \notin exists
  <2>1. exists' = exists \cup {Dm} /\ Changed(<<Event("change", Dm)>>) /\ Slave \in exists
    BY <1>5 DEF Map, Claimable
  <2>2. KernelInv'
    BY <1>1, <1>3, <2>1 DEF KernelInv
  <2>3. \A e \in Devices : e # Dm => (e \in exists' <=> e \in exists)
    BY <2>1
  <2>4. mounted' \in SUBSET exists' /\ attached' \in SUBSET exists' /\ exists' \in SUBSET Devices
    BY <1>1, <1>2, <1>3, <2>1
  <2> QED
    BY <1>2, <1>3, <1>5, <2>1, <2>2, <2>3, <2>4, OneKeeps
<1> QED
  BY <1>4, <1>5

(* The events for the partitions and one for the disk, before or after     *)
(* them                                                                    *)
OfDisk(ev, a, b) ==
    \/ ev = EventsFor(a) \o <<Event(b, Disk)>>
    \/ ev = <<Event(b, Disk)>> \o EventsFor(a)

(* These are events for each of the devices and no other. *)
LEMMA DiskEvents ==
    ASSUME NEW a \in {"add", "remove"}, NEW b \in {"change", "remove"}, NEW ev,
           OfDisk(ev, a, b)
    PROVE  /\ ev \in Seq(Events)
           /\ \A n \in 1..Len(ev) : \/ ev[n].dev \in Parts /\ ev[n].act = a
                                    \/ ev[n].dev = Disk /\ ev[n].act = b
           /\ \A p \in Parts \cup {Disk} : \E n \in 1..Len(ev) : ev[n].dev = p
<1> DEFINE x == EventsFor(a)
           y == <<Event(b, Disk)>>
<1>1. /\ x \in Seq(Events)
      /\ \A n \in 1..Len(x) : x[n].dev \in Parts /\ x[n].act = a
      /\ \A p \in Parts : \E n \in 1..Len(x) : x[n].dev = p
  <2>1. a \in {"add", "change", "remove"}
    OBVIOUS
  <2> QED
    BY <2>1, EventsForParts, Zenon
<1>2. y \in Seq(Events) /\ Len(y) = 1 /\ y[1].dev = Disk /\ y[1].act = b
  BY OneEvent DEF Devices
<1>3. ev = x \o y \/ ev = y \o x
  BY DEF OfDisk
<1> HIDE DEF x, y
<1>4. Len(x) \in Nat
  BY <1>1
<1>5. CASE ev = x \o y
  <2>1. /\ ev \in Seq(Events) /\ Len(ev) = Len(x) + 1
        /\ \A n \in 1..(Len(x) + 1) : ev[n] = IF n <= Len(x) THEN x[n] ELSE y[n - Len(x)]
    <3>1. /\ x \o y \in Seq(Events) /\ Len(x \o y) = Len(x) + Len(y)
          /\ \A n \in 1..(Len(x) + Len(y)) :
                (x \o y)[n] = IF n <= Len(x) THEN x[n] ELSE y[n - Len(x)]
      BY <1>1, <1>2, ConcatProperties
    <3> QED
      BY <1>2, <1>5, <3>1
  <2>2. \A n \in 1..Len(x) : n \in 1..Len(ev) /\ ev[n] = x[n]
    BY <1>4, <2>1
  <2>3. Len(x) + 1 \in 1..Len(ev) /\ ev[Len(x) + 1] = y[1]
    <3>1. Len(x) + 1 \in 1..(Len(x) + 1) /\ ~(Len(x) + 1 <= Len(x)) /\ (Len(x) + 1) - Len(x) = 1
      BY <1>4
    <3> QED
      BY <2>1, <3>1
  <2>4. \A n \in 1..Len(ev) : n \in 1..Len(x) \/ n = Len(x) + 1
    BY <1>4, <2>1
  <2> QED
    BY <1>1, <1>2, <2>1, <2>2, <2>3, <2>4
<1>6. CASE ev = y \o x
  <2>1. /\ ev \in Seq(Events) /\ Len(ev) = 1 + Len(x)
        /\ \A n \in 1..(1 + Len(x)) : ev[n] = IF n <= 1 THEN y[n] ELSE x[n - 1]
    <3>1. /\ y \o x \in Seq(Events) /\ Len(y \o x) = Len(y) + Len(x)
          /\ \A n \in 1..(Len(y) + Len(x)) :
                (y \o x)[n] = IF n <= Len(y) THEN y[n] ELSE x[n - Len(y)]
      BY <1>1, <1>2, ConcatProperties
    <3> QED
      BY <1>2, <1>6, <3>1
  <2>2. \A n \in 1..Len(x) : n + 1 \in 1..Len(ev) /\ ev[n + 1] = x[n]
    <3> SUFFICES ASSUME NEW n \in 1..Len(x) PROVE n + 1 \in 1..Len(ev) /\ ev[n + 1] = x[n]
      OBVIOUS
    <3>1. n + 1 \in 1..(1 + Len(x)) /\ ~(n + 1 <= 1) /\ (n + 1) - 1 = n
      BY <1>4
    <3> QED
      BY <2>1, <3>1
  <2>3. 1 \in 1..Len(ev) /\ ev[1] = y[1]
    BY <1>4, <2>1
  <2>4. \A n \in 1..Len(ev) : n = 1 \/ (n - 1 \in 1..Len(x) /\ ev[n] = x[n - 1])
    BY <1>4, <2>1
  <2>5. ASSUME NEW p \in Parts PROVE \E n \in 1..Len(ev) : ev[n].dev = p
    <3>1. PICK n \in 1..Len(x) : x[n].dev = p
      BY <1>1
    <3>2. n + 1 \in 1..Len(ev) /\ ev[n + 1].dev = p
      BY <2>2, <3>1
    <3> QED
      BY <3>2
  <2>6. ASSUME NEW n \in 1..Len(ev)
        PROVE  \/ ev[n].dev \in Parts /\ ev[n].act = a
               \/ ev[n].dev = Disk /\ ev[n].act = b
    <3>1. CASE n = 1
      BY <1>2, <2>3, <3>1
    <3>2. CASE n - 1 \in 1..Len(x) /\ ev[n] = x[n - 1]
      BY <1>1, <3>2
    <3> QED
      BY <2>4, <3>1, <3>2
  <2>7. \E n \in 1..Len(ev) : ev[n].dev = Disk
    BY <1>2, <2>3
  <2> QED
    BY <2>1, <2>5, <2>6, <2>7
<1> QED
  BY <1>3, <1>5, <1>6

(* A medium comes or goes, with the disk or without it. *)
LEMMA MediumKeeps ==
    ASSUME UdevInv, NEW a \in {"add", "remove"}, NEW b \in {"change", "remove"}, NEW ev,
           OfDisk(ev, a, b),
           Changed(ev),
           mounted' = mounted, attached' = attached,
           mounted \in SUBSET exists', attached \in SUBSET exists',
           exists' \in SUBSET Devices, Dm \in exists' <=> Dm \in exists,
           \A p \in Parts : p \in exists' <=> a = "add",
           Disk \in exists' <=> b = "change",
           KernelInv'
    PROVE  UdevInv'
<1>1. /\ ev \in Seq(Events)
      /\ \A n \in 1..Len(ev) : \/ ev[n].dev \in Parts /\ ev[n].act = a
                               \/ ev[n].dev = Disk /\ ev[n].act = b
      /\ \A p \in Parts \cup {Disk} : \E n \in 1..Len(ev) : ev[n].dev = p
  BY DiskEvents
<1>2. Dm \notin Parts \cup {Disk}
  BY UdevAssumption
<1>3. Announces(ev)
  BY <1>1, <1>2 DEF Announces, Devices
<1> QED
  BY <1>1, <1>3, KernelKeeps

(* A medium brings all the partitions, and events for the disk and each of them. *)
LEMMA InsertKeeps ==
    ASSUME UdevInv, Insert
    PROVE  UdevInv'
<1>1. /\ exists \in SUBSET Devices /\ mounted \in SUBSET exists /\ attached \in SUBSET exists
      /\ KernelInv
  BY DEF UdevInv, TypeInv
<1>2. /\ exists' = exists \cup Parts /\ Disk \in exists /\ mounted' = mounted /\ attached' = attached
      /\ Changed(<<Event("change", Disk)>> \o EventsFor("add"))
  BY DEF Insert
<1>3. Dm \notin Parts /\ Parts \subseteq Devices /\ Slave \in Parts
  BY UdevAssumption DEF Devices
<1>4. KernelInv'
  BY <1>1, <1>2, <1>3 DEF KernelInv
<1>5. /\ mounted \in SUBSET exists' /\ attached \in SUBSET exists' /\ exists' \in SUBSET Devices
      /\ Dm \in exists' <=> Dm \in exists
      /\ \A p \in Parts : p \in exists'
      /\ Disk \in exists'
  BY <1>1, <1>2, <1>3
<1> QED
  BY <1>2, <1>4, <1>5, MediumKeeps DEF OfDisk

(* Ejecting takes the partitions away, which nothing uses then. *)
LEMMA EjectKeeps ==
    ASSUME UdevInv, Eject
    PROVE  UdevInv'
<1>1. /\ exists \in SUBSET Devices /\ mounted \in SUBSET exists /\ attached \in SUBSET exists
      /\ KernelInv
  BY DEF UdevInv, TypeInv
<1>2. Dm \notin Parts /\ Parts \subseteq Devices /\ Slave \in Parts /\ Disk \notin Parts /\ Disk # Dm
  BY UdevAssumption DEF Devices
<1>3. /\ mounted' = mounted /\ attached' = attached
      /\ \A d \in Parts \cup {Disk} : d \notin mounted /\ d \notin attached
      /\ Dm \notin exists /\ Parts \subseteq exists
  BY <1>2 DEF Eject, Busy, Claimed
<1>4. CASE exists' = exists \ Parts /\ Changed(EventsFor("remove") \o <<Event("change", Disk)>>)
  <2>1. Disk \in exists
    BY <1>1, <1>2, <1>3 DEF KernelInv
  <2>2. KernelInv'
    BY <1>2, <1>3, <1>4 DEF KernelInv
  <2>3. /\ mounted \in SUBSET exists' /\ attached \in SUBSET exists' /\ exists' \in SUBSET Devices
        /\ Dm \in exists' <=> Dm \in exists
        /\ \A p \in Parts : p \notin exists'
        /\ Disk \in exists'
    BY <1>1, <1>2, <1>3, <1>4, <2>1
  <2> QED
    BY <1>3, <1>4, <2>2, <2>3, MediumKeeps DEF OfDisk
<1>5. CASE /\ exists' = exists \ (Parts \cup {Disk})
           /\ Changed(EventsFor("remove") \o <<Event("remove", Disk)>>)
  <2>1. KernelInv'
    BY <1>2, <1>3, <1>5 DEF KernelInv
  <2>2. /\ mounted \in SUBSET exists' /\ attached \in SUBSET exists' /\ exists' \in SUBSET Devices
        /\ Dm \in exists' <=> Dm \in exists
        /\ \A p \in Parts : p \notin exists'
        /\ Disk \notin exists'
    BY <1>1, <1>2, <1>3, <1>5
  <2> QED
    BY <1>3, <1>5, <2>1, <2>2, MediumKeeps DEF OfDisk
<1> QED
  BY <1>4, <1>5 DEF Eject

-----------------------------------------------------------------------------
(* The step in which the removal of Dm is passed on to its slaves *)

(* The events that udevadm trigger causes *)
LEMMA TriggeredFacts ==
    ASSUME TypeInv, slaves \in {{}, {Slave}}
    PROVE  \E ev \in Seq(Events) :
                /\ ev = [n \in 1..Cardinality(slaves \cap exists) |-> Event("change", Slave)]
                /\ \A n \in 1..Len(ev) : ev[n].dev = Slave /\ ev[n].act = "change" /\ Slave \in exists
                /\ slaves = {Slave} /\ Slave \in exists => Len(ev) = 1
<1> DEFINE c == Cardinality(slaves \cap exists)
           ev == [n \in 1..c |-> Event("change", Slave)]
<1>1. \/ slaves \cap exists = {}
      \/ slaves \cap exists = {Slave} /\ Slave \in exists
  OBVIOUS
<1>2. Event("change", Slave) \in Events /\ Event("change", Slave).dev = Slave
      /\ Event("change", Slave).act = "change"
  BY UdevAssumption DEF Event, Events, Devices
<1>3. \/ c = 0 /\ ~(slaves = {Slave} /\ Slave \in exists)
      \/ c = 1 /\ Slave \in exists
  <2>1. CASE slaves \cap exists = {}
    BY <2>1, FS_EmptySet
  <2>2. CASE slaves \cap exists = {Slave} /\ Slave \in exists
    BY <2>2, FS_Singleton
  <2> QED
    BY <1>1, <2>1, <2>2
<1> HIDE DEF c
<1>4. ev \in Seq(Events) /\ Len(ev) = c /\ \A n \in 1..c : ev[n] = Event("change", Slave)
  BY <1>2, <1>3
<1>5. ev = [n \in 1..Cardinality(slaves \cap exists) |-> Event("change", Slave)]
  BY DEF c
<1> HIDE DEF ev
<1>6. /\ \A n \in 1..Len(ev) : ev[n].dev = Slave /\ ev[n].act = "change" /\ Slave \in exists
      /\ slaves = {Slave} /\ Slave \in exists => Len(ev) = 1
  BY <1>2, <1>3, <1>4
<1> QED
  BY <1>4, <1>5, <1>6

(* The slave and its disk are looked at again, or they were missed. *)
LEMMA ClearKeeps ==
    ASSUME UdevInv, NEW h \in Devices, TriggerSlaves(h), Top(h).dev = Dm, slaves # NoFile
    PROVE  UdevInv'
<1>1. /\ TypeInv /\ KernelInv /\ StackInv /\ AloneInv
      /\ OrderInv /\ FollowInv /\ CacheInv
      /\ ListInv /\ FreeInv
  BY DEF UdevInv
<1>2. /\ handler[h] # <<>> /\ Top(h) \in Scripts /\ Top(h).pc = "trigger"
      /\ ScriptOk(h, Top(h))
      /\ Top(h).how # "company" => Run(Dm) = {Top(h)}
      /\ FollowOk(Dm)
  BY AtFacts DEF TriggerSlaves
<1>3. /\ Top(h).how # "company" /\ Run(Dm) = {Top(h)} /\ Len(handler[h]) = 1
      /\ Dm \in exists => Queued(Dm)
      /\ Dm \notin listed
      /\ HasScript(Dm, Removal)
  BY <1>2 DEF ScriptOk, Removal, FollowOk, HasScript
<1>4. /\ exists' = exists /\ mounted' = mounted /\ attached' = attached /\ KernelInv'
      /\ \A e \in Devices : Unused(e)' <=> Unused(e)
      /\ mounted \subseteq exists /\ attached \subseteq exists
      /\ Dm \in exists => Slave \in exists
      /\ exists \cap Parts # {} => Parts \subseteq exists
      /\ Slave \in Parts /\ Dm \notin Parts /\ Disk \notin Parts /\ Disk # Dm
      /\ Disk \in Devices /\ Dm \in Devices /\ Slave \in Devices /\ Parts \subseteq Devices
  BY <1>1, KernelSame DEF Devices, TriggerSlaves
<1>5. slaves \in {{}, {Slave}}
  BY <1>1 DEF TypeInv
<1>6. PICK ev \in Seq(Events) :
        /\ queue' = queue \o ev
        /\ \A n \in 1..Len(ev) : ev[n].dev = Slave /\ ev[n].act = "change" /\ Slave \in exists
        /\ slaves = {Slave} /\ Slave \in exists => Len(ev) = 1
  <2>1. PICK ev \in Seq(Events) :
            /\ ev = [n \in 1..Cardinality(slaves \cap exists) |-> Event("change", Slave)]
            /\ \A n \in 1..Len(ev) : ev[n].dev = Slave /\ ev[n].act = "change" /\ Slave \in exists
            /\ slaves = {Slave} /\ Slave \in exists => Len(ev) = 1
    BY <1>1, <1>5, TriggeredFacts
  <2>2. queue' = queue \o [n \in 1..Cardinality(slaves \cap exists) |-> Event("change", Slave)]
    BY DEF TriggerSlaves
  <2>3. queue' = queue \o ev
    BY <2>1, <2>2
  <2> QED
    BY <2>1, <2>3
<1>7. PICK missed \in SUBSET Devices : missed = IF slaves = {} THEN {Slave, Disk} ELSE {}
  BY <1>4
<1>8. /\ handler' = [Disturbed(missed, "missed") EXCEPT ![h] = <<>>]
      /\ last' = [d \in Devices |->
                        IF d \in missed /\ last[d] # "company" THEN "missed"
                        ELSE IF d = Dm THEN Top(h).how ELSE last[d]]
      /\ slaves' = NoFile /\ listed' = listed
  BY <1>7 DEF TriggerSlaves
<1>9. Dm \notin missed
  BY <1>4, <1>7
<1>10. /\ handler' \in [Devices -> Seq(Scripts)]
       /\ Run(Dm)' = {}
       /\ \A e \in Devices \ (missed \cup {Dm}) : Run(e)' = Run(e)
       /\ \A e \in missed : Misses(e)
       /\ AloneInv'
  <2>1. TypeInv /\ AloneInv /\ Len(handler[h]) = 1 /\ Top(h).how # "company"
    BY <1>1, <1>3
  <2>2. Top(h).dev \notin missed /\ Dm = Top(h).dev
    BY <1>9
  <2>3. handler' = [Disturbed(missed, "missed") EXCEPT ![h] = <<>>]
    BY <1>8
  <2> QED
    BY <2>1, <2>2, <2>3, ClearsRun, Zenon
<1>11. /\ last' \in [Devices -> Hows]
       /\ \A e \in Devices \ (missed \cup {Dm}) : last'[e] = last[e]
       /\ \A e \in missed : last'[e] \in {"company", "missed"} /\ (last'[e] = "company" <=> last[e] = "company")
  <2>1. last \in [Devices -> Hows] /\ Top(h).how \in Hows /\ "missed" \in Hows
    BY <1>1, <1>2 DEF TypeInv, Scripts, Hows
  <2>2. \A d \in Devices : last'[d] = IF d \in missed /\ last[d] # "company" THEN "missed"
                                      ELSE IF d = Dm THEN Top(h).how ELSE last[d]
    BY <1>8
  <2>3. last' \in [Devices -> Hows]
    BY <1>8, <2>1
  <2> QED
    BY <1>9, <2>1, <2>2, <2>3
<1>12. TypeInv'
  <2>1. queue' \in Seq(Events)
    BY <1>1, <1>6, AppendedFacts
  <2> QED
    BY <1>1, <1>4, <1>8, <1>10, <1>11, <2>1 DEF TypeInv
<1>13. StackInv'
  <2> DEFINE D == Disturbed(missed, "missed")
  <2>1. /\ D \in [Devices -> Seq(Scripts)]
        /\ \A g \in Devices : Len(D[g]) = Len(handler[g])
        /\ \A g \in Devices : \A n \in 1..Len(handler[g]) :
                D[g][n] = IF handler[g][n].dev \in missed /\ handler[g][n].how # "company"
                          THEN [handler[g][n] EXCEPT !.how = "missed"] ELSE handler[g][n]
    <3>1. "missed" \in Hows
      BY DEF Hows
    <3> QED
      BY <1>1, <3>1, DisturbedFacts, Zenon
  <2>2. handler' = [D EXCEPT ![h] = <<>>]
    BY <1>8
  <2> HIDE DEF D
  <2>3. /\ \A g \in Devices : g # h => handler'[g] = D[g]
        /\ Len(handler'[h]) = 0
    BY <2>1, <2>2
  <2> SUFFICES ASSUME NEW g \in Devices, NEW n \in 1..Len(handler'[g])
               PROVE  ScriptOk(g, handler[g][n])'
    BY DEF StackInv
  <2>4. g # h /\ handler'[g] = D[g] /\ Len(handler'[g]) = Len(handler[g]) /\ n \in 1..Len(handler[g])
    BY <2>1, <2>3
  <2>5. handler[g][n] \in Scripts /\ ScriptOk(g, handler[g][n])
    BY <1>1, <2>4 DEF StackInv, TypeInv
  <2>6. /\ handler'[g][n].dev = handler[g][n].dev /\ handler'[g][n].pc = handler[g][n].pc
        /\ handler'[g][n].todo = handler[g][n].todo
        /\ handler[g][n].how # "company" => handler'[g][n].how # "company"
    <3> DEFINE r == handler[g][n]
    <3>1. r \in Scripts
      BY <2>5
    <3>2. handler'[g][n] = IF r.dev \in missed /\ r.how # "company"
                           THEN [r EXCEPT !.how = "missed"] ELSE r
      BY <2>1, <2>4
    <3> HIDE DEF r
    <3>3. /\ handler'[g][n].dev = r.dev /\ handler'[g][n].pc = r.pc /\ handler'[g][n].todo = r.todo
          /\ r.how # "company" => handler'[g][n].how # "company"
      BY <3>1, <3>2 DEF Scripts
    <3> QED
      BY <3>3 DEF r
  <2> QED
    BY <2>4, <2>5, <2>6 DEF ScriptOk
<1>14. OrderInv'
  <2>1. \A n \in 1..Len(ev) : ev[n].act = "remove" <=> ev[n].dev \notin exists'
    BY <1>4, <1>6
  <2> QED
    BY <1>1, <1>4, <1>6, <2>1, AppendedOrder
\* what is known of the scripts and the events now
<1>15. \A e \in Devices : /\ Queued(e) => Queued(e)'
                          /\ Removed(e)' <=> Removed(e)
  <2>1. \A n \in 1..Len(ev) : ev[n].act # "remove"
    BY <1>6
  <2> QED
    BY <1>1, <1>6, <2>1, AppendedEvents
<1>16. slaves = {Slave} /\ Slave \in exists => Queued(Slave)'
  <2>1. Queued(Slave)' <=> \/ Queued(Slave)
                           \/ \E n \in 1..Len(ev) : ev[n].dev = Slave /\ ev[n].act # "remove"
    BY <1>1, <1>6, AppendedEvents
  <2>2. ASSUME Len(ev) = 1 PROVE ev[1].dev = Slave /\ ev[1].act # "remove" /\ 1 \in 1..Len(ev)
    <3>1. 1 \in 1..Len(ev)
      BY <2>2
    <3> QED
      BY <1>6, <3>1
  <2>3. Len(ev) = 1 => Queued(Slave)'
    BY <2>1, <2>2
  <2> QED
    BY <1>6, <2>3
<1>17. \A e \in Devices \ {Dm} :
            /\ \A pcs : HasScript(e, pcs)' <=> HasScript(e, pcs)
            /\ Alone(e)' <=> Alone(e)
            /\ \A s \in Run(e)' : \E r \in Run(e) :
                    s.pc = r.pc /\ s.todo = r.todo /\ (s.how = "company" <=> r.how = "company")
            /\ \A r \in Run(e) : \E s \in Run(e)' : s.pc = r.pc /\ s.todo = r.todo
  <2> SUFFICES ASSUME NEW e \in Devices \ {Dm}
               PROVE  /\ \A pcs : HasScript(e, pcs)' <=> HasScript(e, pcs)
                      /\ Alone(e)' <=> Alone(e)
                      /\ \A s \in Run(e)' : \E r \in Run(e) :
                            s.pc = r.pc /\ s.todo = r.todo /\ (s.how = "company" <=> r.how = "company")
                      /\ \A r \in Run(e) : \E s \in Run(e)' : s.pc = r.pc /\ s.todo = r.todo
    OBVIOUS
  <2>1. CASE e \notin missed
    <3>1. Run(e)' = Run(e)
      BY <1>10, <2>1
    <3> QED
      BY <3>1 DEF HasScript, Alone
  <2>2. CASE e \in missed
    <3>1. Misses(e)
      BY <1>10, <2>2
    <3> QED
      BY <3>1 DEF Misses, HasScript, Alone
  <2> QED
    BY <2>1, <2>2
<1>18. \A pcs : ~HasScript(Dm, pcs)'
  BY <1>10 DEF HasScript
<1>19. ~HasScript(Dm, {"start", "slaves"})
  BY <1>2, <1>3 DEF HasScript
<1>20. CacheInv'
  <2>1. HasScript(Dm, Removal)' => slaves' # NoFile
    BY <1>18
  <2>2. Dm \in exists' => Queued(Dm)'
    BY <1>3, <1>4, <1>15
  <2>3. \A n \in 1..Len(queue) :
            ~(IsRemove(n, Dm) /\ \A m \in 1..(n - 1) : queue[m].dev # Dm)
    BY <1>1, <1>3 DEF CacheInv, CacheReady
  <2>4. ~CacheReady
    BY <1>3 DEF CacheReady
  <2>5. \A n \in 1..Len(ev) : ev[n].act # "remove"
    BY <1>6
  <2>6. /\ \A i, j \in 1..Len(queue') : i < j /\ IsRemove(i, Dm)' /\ IsRemove(j, Dm)' =>
                    \E m \in (i + 1)..(j - 1) : IsUpdate(m, Dm)'
        /\ \A n \in 1..Len(queue') :
                    IsRemove(n, Dm)' /\ (\A m \in 1..(n - 1) : queue'[m].dev # Dm) => CacheReady'
    BY <1>1, <1>6, <2>3, <2>4, <2>5, AppendedCache
  <2> QED
    BY <2>1, <2>2, <2>6 DEF CacheInv
<1>21. FollowOk(Dm)' /\ ListOk(Dm)' /\ FreeOk(Dm)'
  <2>1. FollowOk(Dm)'
    BY <1>10 DEF FollowOk
  <2>2. ListOk(Dm)'
    BY <1>3, <1>8, <1>18 DEF ListOk
  <2>3. Unused(Dm)' => Comes(Dm)'
    BY <1>3, <1>4, <1>15 DEF Unused, Comes
  <2> QED
    BY <2>1, <2>2, <2>3 DEF FreeOk
<1>22. ASSUME NEW e \in Devices, e # Dm
       PROVE  FollowOk(e)' /\ ListOk(e)' /\ FreeOk(e)'
  <2>1. FollowOk(e) /\ ListOk(e) /\ FreeOk(e)
    BY <1>1 DEF FollowInv, ListInv, FreeInv
  <2>2. /\ \A pcs : HasScript(e, pcs)' <=> HasScript(e, pcs)
        /\ Alone(e)' <=> Alone(e)
        /\ \A s \in Run(e)' : \E r \in Run(e) :
                s.pc = r.pc /\ s.todo = r.todo /\ (s.how = "company" <=> r.how = "company")
        /\ \A r \in Run(e) : \E s \in Run(e)' : s.pc = r.pc /\ s.todo = r.todo
        /\ last'[e] = "company" <=> last[e] = "company"
    BY <1>11, <1>17, <1>22
  <2>3. FollowOk(e)'
    BY <1>4, <1>8, <1>15, <2>1, <2>2 DEF FollowOk
  <2>4. Looks(e) => Looks(e)'
    BY <1>15, <2>2 DEF Looks
  <2>5. AsksSlave => AsksSlave'
    BY <1>4, <1>15, <1>19 DEF AsksSlave
  <2>6. \A p \in Parts : Asks(p) => Asks(p)'
    BY <1>4, <1>15, <1>17 DEF Asks
  <2>7. e = Disk => \A p \in Parts : LooksAtPart(p) => LooksAtPart(p)'
    BY <2>2, <2>4, <2>6 DEF LooksAtPart
  <2>8. Seen(e) => Seen(e)'
    BY <1>4, <1>15, <2>2, <2>4, <2>5, <2>7 DEF Seen
  <2>9. ListOk(e)'
    BY <1>4, <1>8, <2>1, <2>2, <2>8 DEF ListOk
  <2>10. CASE e \in missed
    <3>1. last'[e] # "clean"
      BY <1>11, <2>10
    <3>2. AllClean(e)' => ~HasScript(e, Leaving)'
      BY <1>10, <2>10 DEF AllClean, HasScript, Misses
    <3> QED
      BY <2>3, <2>9, <3>1, <3>2 DEF FreeOk
  <2>11. CASE e \notin missed
    <3>1. Run(e)' = Run(e) /\ last'[e] = last[e]
      BY <1>10, <1>11, <1>22, <2>11
    <3>2. AllClean(e)' <=> AllClean(e)
      BY <3>1 DEF AllClean
    <3>3. e \in {Slave, Disk} /\ Unused(e) => Comes(e)'
      <4> SUFFICES ASSUME e \in {Slave, Disk}, Unused(e) PROVE Comes(e)'
        OBVIOUS
      <4>1. slaves = {Slave}
        BY <1>5, <1>7, <2>11
      <4>2. Slave \in exists
        BY <1>4 DEF Unused
      <4>3. Queued(Slave)' /\ Slave \in exists'
        BY <1>4, <1>16, <4>1, <4>2
      <4> QED
        BY <1>4, <4>3 DEF Comes, Asks
    <3>4. Comes(e) /\ Unused(e) => Comes(e)'
      <4>1. CASE e \in {Slave, Disk}
        BY <3>3, <4>1
      <4>2. CASE e \notin {Slave, Disk}
        BY <1>15, <4>2 DEF Comes
      <4> QED
        BY <4>1, <4>2
    <3>5. FreeOk(e)'
      BY <1>4, <1>8, <2>1, <2>2, <3>1, <3>2, <3>4 DEF FreeOk
    <3> QED
      BY <2>3, <2>9, <3>5
  <2> QED
    BY <2>10, <2>11
<1> QED
  BY <1>4, <1>10, <1>12, <1>13, <1>14, <1>20, <1>21, <1>22 DEF UdevInv, FollowInv, ListInv, FreeInv

(* The last step of udev-block-remove *)
LEMMA TriggerSlavesKeeps ==
    ASSUME UdevInv, NEW h \in Devices, TriggerSlaves(h)
    PROVE  UdevInv'
<1>0. PICK d : d = Top(h).dev
  OBVIOUS
<1>1. /\ handler[h] # <<>> /\ Top(h).pc = "trigger" /\ d \in Devices
      /\ Top(h).how # "company" => Run(d) = {Top(h)}
      /\ FollowOk(d)
  BY <1>0, AtFacts DEF TriggerSlaves
<1>2. CASE d = Dm /\ slaves # NoFile
  BY <1>0, <1>2, ClearKeeps
<1>3. CASE ~(d = Dm /\ slaves # NoFile)
  <2>1. TypeInv /\ CacheInv
    BY DEF UdevInv
  <2>2. d # Dm
    <3>1. Top(h) \in Run(d)
      BY <1>0, <1>1, <2>1, TopFacts
    <3> QED
      BY <1>1, <1>3, <2>1, <3>1 DEF CacheInv, HasScript, Removal
  <2>3. Exit(h) /\ UNCHANGED slaves /\ UNCHANGED queue /\ UNCHANGED kernelVars /\ UNCHANGED listed
    BY <1>0, <1>3 DEF TriggerSlaves
  <2>4. Top(h).how # "company" => d \notin listed /\ (d \in exists => Queued(d))
    BY <1>1 DEF FollowOk, Removal
  <2>5. Unused(d) /\ Top(h).how = "clean" => Comes(d)
    BY <2>4 DEF Unused, Comes
  <2>6. listed' \in SUBSET Devices /\ listed' = listed
    BY <2>1, <2>3 DEF TypeInv
  <2> QED
    BY <1>0, <1>1, <2>2, <2>3, <2>4, <2>5, <2>6, PopKeeps
<1> QED
  BY <1>2, <1>3

-----------------------------------------------------------------------------
(* The step in which udevd starts to handle an event *)

(* Where an event was before the one at n was taken out *)
From(n, i) == IF i < n THEN i ELSE i + 1

(* The other events stay, in their order. *)
LEMMA TakenFacts ==
    ASSUME TypeInv, NEW n \in 1..Len(queue), queue' = RemoveAt(queue, n)
    PROVE  /\ queue' \in Seq(Events) /\ Len(queue') \in Nat
           /\ \A i \in 1..Len(queue') :
                From(n, i) \in 1..Len(queue) /\ From(n, i) # n /\ queue'[i] = queue[From(n, i)]
           /\ \A j \in 1..Len(queue) : j # n => \E i \in 1..Len(queue') : j = From(n, i)
           /\ \A i, j \in 1..Len(queue') : i < j <=> From(n, i) < From(n, j)
<1>1. queue \in Seq(Events) /\ Len(queue) \in Nat /\ n \in Nat
  BY DEF TypeInv
<1>2. /\ queue' \in Seq(Events) /\ Len(queue') = Len(queue) - 1
      /\ \A i \in 1..(n - 1) : queue'[i] = queue[i]
      /\ \A i \in n..(Len(queue) - 1) : queue'[i] = queue[i + 1]
  BY <1>1, RemoveAtFacts
<1>3. ASSUME NEW i \in 1..Len(queue')
      PROVE  From(n, i) \in 1..Len(queue) /\ From(n, i) # n /\ queue'[i] = queue[From(n, i)]
  <2>1. CASE i < n
    BY <1>1, <1>2, <2>1 DEF From
  <2>2. CASE ~(i < n)
    BY <1>1, <1>2, <2>2 DEF From
  <2> QED
    BY <2>1, <2>2
<1>4. ASSUME NEW j \in 1..Len(queue), j # n PROVE \E i \in 1..Len(queue') : j = From(n, i)
  <2>1. CASE j < n
    <3>1. j \in 1..Len(queue') /\ j = From(n, j)
      BY <1>1, <1>2, <2>1 DEF From
    <3> QED
      BY <3>1
  <2>2. CASE j > n
    <3>1. j - 1 \in 1..Len(queue') /\ j = From(n, j - 1)
      BY <1>1, <1>2, <2>2 DEF From
    <3> QED
      BY <3>1
  <2> QED
    BY <1>1, <1>4, <2>1, <2>2
<1>5. ASSUME NEW i \in 1..Len(queue'), NEW j \in 1..Len(queue')
      PROVE  i < j <=> From(n, i) < From(n, j)
  BY <1>1, <1>2 DEF From
<1>6. Len(queue') \in Nat
  BY <1>1, <1>2
<1> QED
  BY <1>2, <1>3, <1>4, <1>5, <1>6

(* Which events are left, if the one taken was the first of its device:    *)
(* its last event still agrees with what became of it, and the removals of *)
(* Dm alternate with updates.                                              *)
LEMMA TakenEvents ==
    ASSUME TypeInv, OrderInv, CacheInv, NEW n \in 1..Len(queue), queue' = RemoveAt(queue, n),
           exists' = exists, NEW c, c = queue[n].dev, c \in Devices,
           \A k \in 1..(n - 1) : queue[k].dev # c
    PROVE  /\ queue' \in Seq(Events) /\ OrderInv'
           /\ \A d : d # c => (Queued(d)' <=> Queued(d)) /\ (Removed(d)' <=> Removed(d))
           /\ IsUpdate(n, c) => (Removed(c)' <=> Removed(c)) /\ (c \notin exists => Removed(c)')
           /\ IsRemove(n, c) => (Queued(c)' <=> Queued(c)) /\ (c \in exists => Queued(c)')
           /\ \A i, j \in 1..Len(queue') : i < j /\ IsRemove(i, Dm)' /\ IsRemove(j, Dm)' =>
                    \E m \in (i + 1)..(j - 1) : IsUpdate(m, Dm)'
           /\ \A i \in 1..Len(queue') :
                IsRemove(i, Dm)' /\ (\A m \in 1..(i - 1) : queue'[m].dev # Dm) =>
                    \/ c = Dm /\ IsUpdate(n, Dm)
                    \/ c # Dm /\ CacheReady
<1>1. /\ queue' \in Seq(Events) /\ Len(queue') \in Nat
      /\ \A i \in 1..Len(queue') :
            From(n, i) \in 1..Len(queue) /\ From(n, i) # n /\ queue'[i] = queue[From(n, i)]
      /\ \A j \in 1..Len(queue) : j # n => \E i \in 1..Len(queue') : j = From(n, i)
      /\ \A i, j \in 1..Len(queue') : i < j <=> From(n, i) < From(n, j)
  BY TakenFacts
<1>0. Len(queue) \in Nat
  BY DEF TypeInv
<1>2. \A i \in 1..Len(queue') : \A d :
            /\ IsUpdate(i, d)' <=> IsUpdate(From(n, i), d)
            /\ IsRemove(i, d)' <=> IsRemove(From(n, i), d)
  BY <1>1 DEF IsUpdate, IsRemove
<1>3. \A d : /\ Queued(d)' => Queued(d)
             /\ Removed(d)' => Removed(d)
  BY <1>1, <1>2 DEF Queued, Removed
<1>4. \A d : /\ Queued(d) /\ ~IsUpdate(n, d) => Queued(d)'
             /\ Removed(d) /\ ~IsRemove(n, d) => Removed(d)'
  <2>1. ASSUME NEW d, NEW j \in 1..Len(queue), IsUpdate(j, d), ~IsUpdate(n, d) PROVE Queued(d)'
    <3>1. PICK i \in 1..Len(queue') : j = From(n, i)
      BY <1>1, <2>1
    <3> QED
      BY <1>2, <2>1, <3>1 DEF Queued
  <2>2. ASSUME NEW d, NEW j \in 1..Len(queue), IsRemove(j, d), ~IsRemove(n, d) PROVE Removed(d)'
    <3>1. PICK i \in 1..Len(queue') : j = From(n, i)
      BY <1>1, <2>2
    <3> QED
      BY <1>2, <2>2, <3>1 DEF Removed
  <2> QED
    BY <2>1, <2>2 DEF Queued, Removed
<1>5. \A d : d # c => ~IsUpdate(n, d) /\ ~IsRemove(n, d)
  BY DEF IsUpdate, IsRemove
<1>6. ~(IsUpdate(n, c) /\ IsRemove(n, c))
  BY DEF IsUpdate, IsRemove
\* an event after another one was after it before
<1>7. ASSUME NEW i \in 1..Len(queue'), NEW m \in (From(n, i) + 1)..Len(queue), m # n
      PROVE  \E k \in (i + 1)..Len(queue') : m = From(n, k)
  <2>1. m \in 1..Len(queue) /\ From(n, i) < m
    BY <1>0, <1>1
  <2>2. PICK k \in 1..Len(queue') : m = From(n, k)
    BY <1>1, <1>7, <2>1
  <2>3. i < k
    BY <1>1, <2>1, <2>2
  <2> QED
    BY <1>1, <2>2, <2>3
<1>8. ASSUME NEW i \in 1..Len(queue'), queue'[i].dev = c PROVE n < From(n, i)
  <2>1. From(n, i) \in 1..Len(queue) /\ From(n, i) # n /\ queue[From(n, i)].dev = c
    BY <1>1, <1>8
  <2>2. ~(From(n, i) < n)
    BY <2>1
  <2> QED
    BY <1>0, <2>1, <2>2
<1>9. OrderInv'
  <2> SUFFICES ASSUME NEW d \in Devices, NEW i \in 1..Len(queue')
               PROVE  /\ IsUpdate(i, d)' /\ d \notin exists' => \E m \in (i + 1)..Len(queue') : IsRemove(m, d)'
                      /\ IsRemove(i, d)' /\ d \in exists' => \E m \in (i + 1)..Len(queue') : IsUpdate(m, d)'
    BY DEF OrderInv
  <2> DEFINE f == From(n, i)
  <2>1. f \in 1..Len(queue)
    BY <1>1
  <2>2. /\ IsUpdate(f, d) /\ d \notin exists => \E m \in (f + 1)..Len(queue) : IsRemove(m, d)
        /\ IsRemove(f, d) /\ d \in exists => \E m \in (f + 1)..Len(queue) : IsUpdate(m, d)
    BY <2>1 DEF OrderInv
  <2>3. ASSUME NEW m \in (f + 1)..Len(queue), IsUpdate(m, d) \/ IsRemove(m, d),
               IsUpdate(i, d)' \/ IsRemove(i, d)'
        PROVE  m # n
    <3>1. CASE d = c
      <4>1. queue'[i].dev = c
        BY <2>3, <3>1 DEF IsUpdate, IsRemove
      <4> QED
        BY <1>0, <1>8, <2>1, <4>1
    <3>2. CASE d # c
      BY <1>5, <2>3, <3>2
    <3> QED
      BY <3>1, <3>2
  <2>4. ASSUME IsUpdate(i, d)', d \notin exists'
        PROVE  \E m \in (i + 1)..Len(queue') : IsRemove(m, d)'
    <3>1. PICK m \in (f + 1)..Len(queue) : IsRemove(m, d)
      BY <1>2, <2>2, <2>4
    <3>2. PICK k \in (i + 1)..Len(queue') : m = From(n, k)
      BY <1>7, <2>3, <2>4, <3>1
    <3>3. k \in 1..Len(queue')
      BY <1>1
    <3> QED
      BY <1>2, <3>1, <3>2, <3>3
  <2>5. ASSUME IsRemove(i, d)', d \in exists'
        PROVE  \E m \in (i + 1)..Len(queue') : IsUpdate(m, d)'
    <3>1. PICK m \in (f + 1)..Len(queue) : IsUpdate(m, d)
      BY <1>2, <2>2, <2>5
    <3>2. PICK k \in (i + 1)..Len(queue') : m = From(n, k)
      BY <1>7, <2>3, <2>5, <3>1
    <3>3. k \in 1..Len(queue')
      BY <1>1
    <3> QED
      BY <1>2, <3>1, <3>2, <3>3
  <2> QED
    BY <2>4, <2>5
<1>10. IsUpdate(n, c) /\ c \notin exists => Removed(c)
  <2>1. IsUpdate(n, c) /\ c \notin exists => \E m \in (n + 1)..Len(queue) : IsRemove(m, c)
    BY DEF OrderInv
  <2>2. \A m \in (n + 1)..Len(queue) : m \in 1..Len(queue)
    BY <1>0
  <2> QED
    BY <2>1, <2>2 DEF Removed
<1>11. IsRemove(n, c) /\ c \in exists => Queued(c)
  <2>1. IsRemove(n, c) /\ c \in exists => \E m \in (n + 1)..Len(queue) : IsUpdate(m, c)
    BY DEF OrderInv
  <2>2. \A m \in (n + 1)..Len(queue) : m \in 1..Len(queue)
    BY <1>0
  <2> QED
    BY <2>1, <2>2 DEF Queued
<1>12. ASSUME NEW i \in 1..Len(queue'), NEW j \in 1..Len(queue'),
              i < j, IsRemove(i, Dm)', IsRemove(j, Dm)'
       PROVE  \E m \in (i + 1)..(j - 1) : IsUpdate(m, Dm)'
  <2>1. /\ From(n, i) \in 1..Len(queue) /\ From(n, j) \in 1..Len(queue)
        /\ From(n, i) < From(n, j) /\ IsRemove(From(n, i), Dm) /\ IsRemove(From(n, j), Dm)
    BY <1>1, <1>2, <1>12
  <2>2. PICK m \in (From(n, i) + 1)..(From(n, j) - 1) : IsUpdate(m, Dm)
    BY <2>1 DEF CacheInv
  <2>3. m \in (From(n, i) + 1)..Len(queue) /\ m < From(n, j) /\ From(n, i) < m
    BY <1>0, <2>1
  <2>4. m # n
    <3>1. CASE c = Dm
      <4>1. n < From(n, i)
        BY <1>8, <1>12, <3>1 DEF IsRemove
      <4> QED
        BY <1>0, <2>1, <2>3, <4>1
    <3>2. CASE c # Dm
      BY <1>5, <2>2, <3>2
    <3> QED
      BY <3>1, <3>2
  <2>5. PICK k \in (i + 1)..Len(queue') : m = From(n, k)
    BY <1>7, <2>3, <2>4
  <2>6. k \in 1..Len(queue') /\ k < j
    <3>1. k \in 1..Len(queue')
      BY <1>1
    <3> QED
      BY <1>1, <2>3, <2>5, <3>1
  <2>7. k \in (i + 1)..(j - 1)
    BY <1>1, <2>6
  <2> QED
    BY <1>2, <2>2, <2>5, <2>6, <2>7
<1>13. ASSUME NEW i \in 1..Len(queue'), IsRemove(i, Dm)', \A m \in 1..(i - 1) : queue'[m].dev # Dm
       PROVE  \/ c = Dm /\ IsUpdate(n, Dm)
              \/ c # Dm /\ CacheReady
  <2>1. From(n, i) \in 1..Len(queue) /\ IsRemove(From(n, i), Dm)
    BY <1>1, <1>2, <1>13
  <2>2. ASSUME NEW j \in 1..Len(queue), j < From(n, i), j # n PROVE queue[j].dev # Dm
    <3>1. PICK k \in 1..Len(queue') : j = From(n, k)
      BY <1>1, <2>2
    <3>2. k < i
      BY <1>1, <2>2, <3>1
    <3>3. k \in 1..(i - 1)
      BY <1>1, <3>2
    <3> QED
      BY <1>1, <1>13, <3>1, <3>3
  <2>3. CASE c = Dm
    <3>1. n < From(n, i)
      BY <1>8, <1>13, <2>3 DEF IsRemove
    <3>2. ASSUME IsRemove(n, Dm) PROVE FALSE
      <4>1. PICK m \in (n + 1)..(From(n, i) - 1) : IsUpdate(m, Dm)
        BY <2>1, <3>1, <3>2 DEF CacheInv
      <4>2. m \in 1..Len(queue) /\ m < From(n, i) /\ m # n
        BY <1>0, <2>1
      <4> QED
        BY <2>2, <4>1, <4>2 DEF IsUpdate
    <3>3. IsUpdate(n, Dm)
      BY <2>3, <3>2 DEF IsUpdate, IsRemove
    <3> QED
      BY <2>3, <3>3
  <2>4. CASE c # Dm
    <3>1. \A m \in 1..(From(n, i) - 1) : queue[m].dev # Dm
      BY <1>0, <2>1, <2>2, <2>4
    <3> QED
      BY <2>1, <2>4, <3>1 DEF CacheInv
  <2> QED
    BY <2>3, <2>4
<1>14. \A d : d # c => (Queued(d)' <=> Queued(d)) /\ (Removed(d)' <=> Removed(d))
  BY <1>3, <1>4, <1>5
<1>15. /\ IsUpdate(n, c) => (Removed(c)' <=> Removed(c)) /\ (c \notin exists => Removed(c)')
       /\ IsRemove(n, c) => (Queued(c)' <=> Queued(c)) /\ (c \in exists => Queued(c)')
  BY <1>3, <1>4, <1>6, <1>10, <1>11
<1> QED
  BY <1>1, <1>9, <1>12, <1>13, <1>14, <1>15

(* udevd starts the script for an event: whoever counted on the event can  *)
(* count on the script.                                                    *)
LEMMA StartKeeps ==
    ASSUME UdevInv, NEW n \in 1..Len(queue), StartHandler(n)
    PROVE  UdevInv'
<1>1. /\ TypeInv /\ KernelInv /\ StackInv /\ AloneInv
      /\ OrderInv /\ FollowInv /\ CacheInv
      /\ ListInv /\ FreeInv
  BY DEF UdevInv
<1>2. queue[n] \in Events
  BY <1>1 DEF TypeInv
<1>3. PICK c \in Devices : c = queue[n].dev
  BY <1>2 DEF Events
<1>4. PICK start \in {"start", "gone"} : start = IF queue[n].act = "remove" THEN "gone" ELSE "start"
  OBVIOUS
<1>5. /\ \A k \in 1..(n - 1) : queue[k].dev # c
      /\ handler[c] = <<>>
      /\ queue' = RemoveAt(queue, n)
      /\ slaves' = slaves /\ listed' = listed /\ last' = last /\ UNCHANGED kernelVars
  BY <1>3 DEF StartHandler, Related
<1>6. PICK new \in Scripts :
        /\ new = Script(c, start)
        /\ new.dev = c /\ new.pc = start /\ new.todo = Parts
        /\ new.how = IF Run(c) # {} THEN "company" ELSE "clean"
  BY <1>1, NewScript
<1>7. handler' = [Disturbed({c}, "company") EXCEPT ![c] = <<new>>]
  BY <1>3, <1>4, <1>6 DEF StartHandler
<1>8. Arrives(c, new, new)
  BY <1>1, <1>5, <1>6, <1>7, StartFacts
<1>9. /\ Joins(c, new)
      /\ \A e \in Devices : e # c => Run(e)' = Run(e)
      /\ AloneInv'
  <2>1. /\ Joins(new.dev, new)
        /\ \A e \in Devices : e # new.dev /\ (handler[c] = <<>> \/ e # new.dev) => Run(e)' = Run(e)
        /\ AloneInv'
    <3>1. new.how = IF Run(new.dev) # {} THEN "company" ELSE "clean"
      BY <1>6
    <3> QED
      BY <1>1, <1>5, <1>8, <3>1, ArrivesRun
  <2>2. new.dev = c
    BY <1>6
  <2> QED
    BY <2>1, <2>2
\* handler[Dm] is the only one with scripts for Dm
<1>10. c = Dm => Run(Dm) = {}
  <2> SUFFICES ASSUME c = Dm, NEW s \in Run(Dm) PROVE FALSE
    OBVIOUS
  <2>1. PICK g \in Devices : \E m \in 1..Len(handler[g]) : s = handler[g][m]
    BY DEF Run
  <2>2. PICK m \in 1..Len(handler[g]) : s = handler[g][m]
    BY <2>1
  <2>3. g = Dm
    BY <1>1, <2>2 DEF StackInv, ScriptOk, Run
  <2>4. Len(handler[g]) = 0
    BY <1>5, <2>3
  <2> QED
    BY <2>4
<1>11. StackInv'
  <2>1. new.dev = Dm => c = Dm /\ new.how # "company" /\ Run(Dm) = {}
    BY <1>6, <1>10
  <2>2. new.todo = Parts /\ new.pc # "parent"
    BY <1>6
  <2> QED
    BY <1>1, <1>5, <1>8, <2>1, <2>2, ArrivesStack
<1>12. /\ exists' = exists /\ mounted' = mounted /\ attached' = attached /\ KernelInv'
       /\ \A e \in Devices : Unused(e)' <=> Unused(e)
       /\ mounted \subseteq exists /\ attached \subseteq exists
       /\ Slave \in Parts /\ Dm \notin Parts /\ Disk \notin Parts /\ Disk # Dm
       /\ Disk \in Devices /\ Dm \in Devices /\ Slave \in Devices /\ Parts \subseteq Devices
  BY <1>1, <1>5, KernelSame DEF Devices
<1>13. /\ queue' \in Seq(Events) /\ OrderInv'
       /\ \A d : d # c => (Queued(d)' <=> Queued(d)) /\ (Removed(d)' <=> Removed(d))
       /\ IsUpdate(n, c) => (Removed(c)' <=> Removed(c)) /\ (c \notin exists => Removed(c)')
       /\ IsRemove(n, c) => (Queued(c)' <=> Queued(c)) /\ (c \in exists => Queued(c)')
       /\ \A i, j \in 1..Len(queue') : i < j /\ IsRemove(i, Dm)' /\ IsRemove(j, Dm)' =>
                \E m \in (i + 1)..(j - 1) : IsUpdate(m, Dm)'
       /\ \A i \in 1..Len(queue') :
            IsRemove(i, Dm)' /\ (\A m \in 1..(i - 1) : queue'[m].dev # Dm) =>
                \/ c = Dm /\ IsUpdate(n, Dm)
                \/ c # Dm /\ CacheReady
  BY <1>1, <1>3, <1>5, <1>12, TakenEvents
<1>14. /\ start = "start" <=> IsUpdate(n, c)
       /\ start = "gone" <=> IsRemove(n, c)
  BY <1>3, <1>4 DEF IsUpdate, IsRemove
<1>15. TypeInv'
  BY <1>1, <1>5, <1>8, <1>12, <1>13 DEF TypeInv, Arrives
<1>16. FollowOk(c)' /\ ListOk(c)' /\ FreeOk(c)'
  BY <1>6, <1>9, <1>12, <1>13, <1>14, <1>15, JoinedOk
\* what others count on
<1>17. \A pcs : HasScript(c, pcs) => HasScript(c, pcs)'
  BY <1>9 DEF Joins, HasScript
<1>18. \A pcs : start \in pcs => HasScript(c, pcs)'
  BY <1>6, <1>9 DEF Joins, HasScript
<1>19. \A e \in Devices : e # c => \A pcs : HasScript(e, pcs)' <=> HasScript(e, pcs)
  BY <1>9 DEF HasScript
<1>20. \A p \in Parts : Asks(p) => Asks(p)'
  <2> SUFFICES ASSUME NEW p \in Parts, Asks(p) PROVE Asks(p)'
    OBVIOUS
  <2>1. CASE p # c
    BY <1>12, <1>13, <1>19, <2>1 DEF Asks
  <2>2. CASE p = c /\ start = "start"
    BY <1>18, <2>2 DEF Asks
  <2>3. CASE p = c /\ start = "gone"
    BY <1>13, <1>14, <1>17, <2>3 DEF Asks
  <2> QED
    BY <2>1, <2>2, <2>3
<1>21. AsksSlave => AsksSlave'
  <2>1. CASE Dm # c
    BY <1>12, <1>13, <1>19, <2>1 DEF AsksSlave
  <2>2. CASE Dm = c /\ start = "start"
    BY <1>18, <2>2 DEF AsksSlave
  <2>3. CASE Dm = c /\ start = "gone"
    BY <1>13, <1>14, <1>17, <2>3 DEF AsksSlave
  <2> QED
    BY <2>1, <2>2, <2>3
<1>22. Removed(Dm) \/ HasScript(Dm, Removal) => Removed(Dm)' \/ HasScript(Dm, Removal)'
  <2>1. CASE Dm # c
    BY <1>12, <1>13, <1>19, <2>1
  <2>2. CASE Dm = c /\ start = "gone"
    BY <1>18, <2>2 DEF Removal
  <2>3. CASE Dm = c /\ start = "start"
    BY <1>13, <1>14, <1>17, <2>3
  <2> QED
    BY <2>1, <2>2, <2>3
<1>23. ASSUME NEW e \in Devices, e # c
       PROVE  FollowOk(e)' /\ ListOk(e)' /\ FreeOk(e)'
  <2>1. FollowOk(e) /\ ListOk(e) /\ FreeOk(e)
    BY <1>1 DEF FollowInv, ListInv, FreeInv
  <2>2. /\ Run(e)' = Run(e)
        /\ \A pcs : HasScript(e, pcs)' <=> HasScript(e, pcs)
        /\ Queued(e)' <=> Queued(e)
        /\ Removed(e)' <=> Removed(e)
        /\ last'[e] = last[e] /\ (e \in listed' <=> e \in listed)
    BY <1>5, <1>9, <1>13, <1>19, <1>23
  <2>3. /\ Looks(e)' <=> Looks(e)
        /\ Alone(e)' <=> Alone(e)
        /\ AllClean(e)' <=> AllClean(e)
    BY <2>2 DEF Looks, Alone, AllClean
  <2>4. FollowOk(e)'
    BY <1>12, <2>1, <2>2 DEF FollowOk
  <2>5. e = Disk => \A p \in Parts : LooksAtPart(p) => LooksAtPart(p)'
    BY <1>20, <2>2, <2>3 DEF LooksAtPart
  <2>6. Seen(e) => Seen(e)'
    BY <1>12, <1>21, <2>2, <2>3, <2>5 DEF Seen
  <2>7. ListOk(e)'
    BY <1>12, <2>1, <2>2, <2>3, <2>6 DEF ListOk
  <2>8. Comes(e) => Comes(e)'
    BY <1>12, <1>20, <1>22, <2>2 DEF Comes
  <2>9. FreeOk(e)'
    BY <1>12, <2>1, <2>2, <2>3, <2>8 DEF FreeOk
  <2> QED
    BY <2>4, <2>7, <2>9
<1>24. CacheInv'
  <2>1. c # Dm => (CacheReady' <=> CacheReady)
    BY <1>5, <1>12, <1>19 DEF CacheReady
  <2>2. c = Dm => /\ \A pcs : HasScript(Dm, pcs)' <=> start \in pcs
                  /\ \A pcs : ~HasScript(Dm, pcs)
    BY <1>6, <1>9, <1>10 DEF Joins, HasScript
  <2>3. c = Dm /\ start = "start" => CacheReady'
    BY <2>2 DEF CacheReady, Early, Removal
  <2>4. c = Dm /\ start = "gone" => CacheReady
    BY <1>1, <1>3, <1>5, <1>14 DEF CacheInv
  <2>5. HasScript(Dm, Removal)' => slaves' # NoFile
    <3>1. CASE c # Dm
      BY <1>1, <1>5, <1>12, <1>19, <3>1 DEF CacheInv
    <3>2. CASE c = Dm /\ start = "start"
      BY <2>2, <3>2 DEF Removal
    <3>3. CASE c = Dm /\ start = "gone"
      BY <1>5, <2>2, <2>4, <3>3 DEF CacheReady
    <3> QED
      BY <3>1, <3>2, <3>3
  <2>6. Dm \in exists' => Queued(Dm)' \/ CacheReady'
    <3>1. CASE c # Dm
      BY <1>1, <1>12, <1>13, <2>1, <3>1 DEF CacheInv
    <3>2. CASE c = Dm /\ start = "start"
      BY <2>3, <3>2
    <3>3. CASE c = Dm /\ start = "gone"
      BY <1>12, <1>13, <1>14, <3>3
    <3> QED
      BY <3>1, <3>2, <3>3
  <2>7. \A i \in 1..Len(queue') :
            IsRemove(i, Dm)' /\ (\A m \in 1..(i - 1) : queue'[m].dev # Dm) => CacheReady'
    BY <1>13, <1>14, <2>1, <2>3
  <2> QED
    BY <1>13, <2>5, <2>6, <2>7 DEF CacheInv
<1> QED
  BY <1>9, <1>11, <1>12, <1>13, <1>15, <1>16, <1>23, <1>24 DEF UdevInv, FollowInv, ListInv, FreeInv

-----------------------------------------------------------------------------
(* The theorems *)

(* All events are handled in the initial state. *)
LEMMA InitUdevInv == Init => UdevInv
<1> SUFFICES ASSUME Init PROVE UdevInv
  OBVIOUS
<1>1. /\ exists = Parts \cup {Disk} /\ mounted = {} /\ attached = {}
      /\ queue = <<>> /\ handler = [d \in Devices |-> <<>>]
      /\ slaves = NoFile /\ listed = exists /\ last = [d \in Devices |-> "clean"]
  BY DEF Init
<1>2. /\ Disk \notin Parts /\ Dm \notin exists /\ Slave \in Parts /\ Disk # Dm
  BY <1>1, UdevAssumption
<1>3. Len(queue) = 0 /\ \A h \in Devices : Len(handler[h]) = 0
  BY <1>1
<1>4. \A d : Run(d) = {}
  BY <1>3 DEF Run
<1>5. \A d, pcs : ~HasScript(d, pcs)
  BY <1>4 DEF HasScript
<1>6. \A d : ~Queued(d) /\ ~Removed(d)
  BY <1>3 DEF Queued, Removed
<1>7. TypeInv
  <2>1. queue \in Seq(Events)
    BY <1>1
  <2>2. handler \in [Devices -> Seq(Scripts)]
    BY <1>1
  <2>3. exists \in SUBSET Devices /\ last \in [Devices -> Hows]
    BY <1>1 DEF Devices, Hows
  <2> QED
    BY <1>1, <2>1, <2>2, <2>3 DEF TypeInv
<1>8. KernelInv /\ StackInv /\ AloneInv /\ OrderInv
  BY <1>1, <1>2, <1>3 DEF KernelInv, StackInv, AloneInv, OrderInv
<1>9. FollowInv
  BY <1>4 DEF FollowInv, FollowOk
<1>10. CacheInv
  BY <1>2, <1>3, <1>5 DEF CacheInv
<1>11. ListInv
  BY <1>1, <1>2, <1>5 DEF ListInv, ListOk, Seen
<1>12. FreeInv
  BY <1>1, <1>5 DEF FreeInv, FreeOk, Unused
<1> QED
  BY <1>7, <1>8, <1>9, <1>10, <1>11, <1>12 DEF UdevInv

(* Every step keeps the invariant. *)
LEMMA NextUdevInv == UdevInv /\ [Next]_vars => UdevInv'
<1> SUFFICES ASSUME UdevInv, [Next]_vars PROVE UdevInv'
  OBVIOUS
<1>1. CASE Insert
  BY <1>1, InsertKeeps
<1>2. CASE Eject
  BY <1>2, EjectKeeps
<1>3. CASE Map
  BY <1>3, MapKeeps
<1>4. ASSUME NEW d \in Devices, Mount(d) PROVE UdevInv'
  BY <1>4, MountKeeps
<1>5. ASSUME NEW d \in Devices, Attach(d) PROVE UdevInv'
  BY <1>5, AttachKeeps
<1>6. ASSUME NEW n \in 1..Len(queue), StartHandler(n) PROVE UdevInv'
  BY <1>6, StartKeeps
<1>7. ASSUME NEW h \in Devices, Step(h) PROVE UdevInv'
  <2>1. CASE RefreshParent(h)
    BY <2>1, RefreshParentKeeps
  <2>2. CASE SkipIfParentAttached(h)
    BY <2>2, SkipKeeps
  <2>3. CASE RefreshSlaves(h)
    BY <2>3, RefreshSlavesKeeps
  <2>4. CASE CheckSelf(h)
    BY <2>4, CheckSelfKeeps
  <2>5. CASE CheckParts(h)
    BY <2>5, CheckPartsKeeps
  <2>6. CASE Write(h)
    BY <2>6, WriteKeeps
  <2>7. CASE KeepAttached(h)
    BY <2>7, KeepAttachedKeeps
  <2>8. CASE RemoveEntry(h)
    BY <2>8, RemoveEntryKeeps
  <2>9. CASE RemoveGone(h)
    BY <2>9, RemoveGoneKeeps
  <2>10. CASE TriggerSlaves(h)
    BY <2>10, TriggerSlavesKeeps
  <2> QED
    BY <1>7, <2>1, <2>2, <2>3, <2>4, <2>5, <2>6, <2>7, <2>8, <2>9, <2>10 DEF Step
<1>8. CASE UNCHANGED vars
  <2>1. /\ exists' = exists /\ mounted' = mounted /\ attached' = attached /\ queue' = queue
        /\ handler' = handler /\ slaves' = slaves /\ listed' = listed /\ last' = last
    BY <1>8 DEF vars, kernelVars
  <2>2. /\ TypeInv /\ KernelInv /\ StackInv /\ AloneInv
        /\ OrderInv /\ FollowInv /\ CacheInv
        /\ ListInv /\ FreeInv
    BY DEF UdevInv
  <2>3. TypeInv' /\ KernelInv' /\ StackInv' /\ AloneInv' /\ OrderInv'
    BY <2>1, <2>2 DEF TypeInv, KernelInv, StackInv, ScriptOk, AloneInv, OrderInv, IsUpdate, IsRemove
  <2>4. \A d \in Devices : Run(d)' = Run(d)
    BY <2>1 DEF Run
  <2>5. Dm \in Devices /\ Disk \in Devices /\ Parts \subseteq Devices
    BY DEF Devices
  <2>6. \A pcs : HasScript(Dm, pcs)' <=> HasScript(Dm, pcs)
    BY <2>4, <2>5 DEF HasScript
  <2>7. CacheInv'
    BY <2>1, <2>2, <2>6 DEF CacheInv, CacheReady, Queued, IsUpdate, IsRemove
  <2>8. ASSUME NEW e \in Devices PROVE FollowOk(e)' /\ ListOk(e)' /\ FreeOk(e)'
    <3>1. PICK d \in Devices : d # e
      BY <2>5, UdevAssumption
    <3>2. \A pcs : HasScript(d, pcs) => HasScript(d, pcs)'
      BY <2>4 DEF HasScript
    <3>3. UNCHANGED kernelVars /\ UNCHANGED queue
      BY <1>8 DEF vars
    <3> QED
      BY <2>1, <2>2, <2>4, <3>1, <3>2, <3>3, OthersOk
  <2> QED
    BY <2>3, <2>7, <2>8 DEF UdevInv, FollowInv, ListInv, FreeInv
<1> QED
  BY <1>1, <1>2, <1>3, <1>4, <1>5, <1>6, <1>7, <1>8 DEF Next, Udevd

(* At any moment, for each reason not to list a device there is an event   *)
(* or a script that will see it, and for each device that is free one that *)
(* will list it.                                                           *)
THEOREM UdevInvariant == Spec => []UdevInv
  BY InitUdevInv, NextUdevInv, PTL DEF Spec

-----------------------------------------------------------------------------
(* A second invariant: what a script saw of an attached disk stays hidden. *)

(* Whoever has found the disk attached removes the entry, and an entry of  *)
(* such a partition is kept only for as long as the partition is attached  *)
(* itself, or until its next script.                                       *)
SkipOk(d) ==
    /\ \A s \in Run(d) : s.how = "skipped" => s.pc \in Leaving
    /\ last[d] = "skipped" /\ d \in listed =>
            d \in attached \/ Queued(d) \/ Removed(d) \/ Run(d) # {}
SkipInv == \A d \in Devices : SkipOk(d)

(* Nothing changes for a device. *)
LEMMA SameSkip ==
    ASSUME NEW d, SkipOk(d), Run(d)' = Run(d), last'[d] = last[d],
           d \in listed' => d \in listed,
           d \in attached => d \in attached' \/ Queued(d)',
           Queued(d) => Queued(d)', Removed(d) => Removed(d)'
    PROVE  SkipOk(d)'
  BY DEF SkipOk

(* A device gets a script. *)
LEMMA JoinSkip ==
    ASSUME NEW d, NEW new, Joins(d, new)
    PROVE  SkipOk(d)'
  BY DEF SkipOk, Joins

(* The queue stays. *)
LEMMA SameEvents ==
    ASSUME UNCHANGED queue, NEW d
    PROVE  (Queued(d)' <=> Queued(d)) /\ (Removed(d)' <=> Removed(d))
  BY DEF Queued, Removed, IsUpdate, IsRemove

(* A script goes on. *)
LEMMA ChangeSkip ==
    ASSUME UdevInv, SkipInv, NEW h \in Devices, handler[h] # <<>>, NEW t \in Scripts,
           Changes(h, t), t.dev = Top(h).dev, Top(h).how = "company" => t.how = "company",
           t.how = "skipped" => t.pc \in Leaving,
           UNCHANGED attached, UNCHANGED queue, UNCHANGED last, listed' \subseteq listed
    PROVE  SkipInv'
<1>1. TypeInv /\ AloneInv
  BY DEF UdevInv
<1>2. /\ \A d \in Devices : d # t.dev => Run(d)' = Run(d)
      /\ t \in Run(t.dev)'
      /\ Run(t.dev)' \subseteq Run(t.dev) \cup {t}
  BY <1>1, ChangesRun
<1>3. ASSUME NEW d \in Devices, d # t.dev PROVE SkipOk(d)'
  <2>1. SkipOk(d) /\ Run(d)' = Run(d) /\ last'[d] = last[d]
    BY <1>2, <1>3 DEF SkipInv
  <2>2. /\ d \in listed' => d \in listed
        /\ d \in attached => d \in attached'
        /\ Queued(d) => Queued(d)'
        /\ Removed(d) => Removed(d)'
    BY SameEvents
  <2> QED
    BY <2>1, <2>2, SameSkip
<1>4. ASSUME NEW d \in Devices, d = t.dev PROVE SkipOk(d)'
  <2>1. \A s \in Run(d) : s.how = "skipped" => s.pc \in Leaving
    BY DEF SkipInv, SkipOk
  <2> QED
    BY <1>2, <1>4, <2>1 DEF SkipOk
<1> QED
  BY <1>3, <1>4 DEF SkipInv

(* A script ends. *)
LEMMA PopSkip ==
    ASSUME UdevInv, SkipInv, NEW h \in Devices, handler[h] # <<>>, Exit(h),
           NEW d \in Devices, d = Top(h).dev,
           Top(h).how = "skipped" => d \notin listed' \/ d \in attached,
           UNCHANGED attached, UNCHANGED queue,
           \A e \in Devices : e # d => (e \in listed' => e \in listed)
    PROVE  SkipInv'
<1>1. TypeInv /\ AloneInv
  BY DEF UdevInv
<1>2. Pops(h)
  BY <1>1, PopsFacts DEF Exit
<1>3. /\ \A e \in Devices : e # d => Run(e)' = Run(e)
      /\ Run(d)' \subseteq Run(d)
  BY <1>1, <1>2, PopsRun
<1>4. last'[d] = Top(h).how /\ \A e \in Devices : e # d => last'[e] = last[e]
  BY <1>1 DEF Exit, TypeInv
<1>5. ASSUME NEW e \in Devices, e # d PROVE SkipOk(e)'
  <2>1. SkipOk(e) /\ Run(e)' = Run(e) /\ last'[e] = last[e]
    BY <1>3, <1>4, <1>5 DEF SkipInv
  <2>2. /\ e \in listed' => e \in listed
        /\ e \in attached => e \in attached'
        /\ Queued(e) => Queued(e)'
        /\ Removed(e) => Removed(e)'
    BY <1>5, SameEvents
  <2> QED
    BY <2>1, <2>2, SameSkip
<1>6. SkipOk(d)'
  <2>1. \A s \in Run(d) : s.how = "skipped" => s.pc \in Leaving
    BY DEF SkipInv, SkipOk
  <2> QED
    BY <1>3, <1>4, <2>1 DEF SkipOk
<1> QED
  BY <1>5, <1>6 DEF SkipInv

(* Another script starts within one. *)
LEMMA PushSkip ==
    ASSUME UdevInv, SkipInv, NEW h \in Devices, NEW label \in {"start", "slaves"}, AtPc(h, label),
           NEW next \in Early, NEW c \in exists, c # Top(h).dev,
           refresh_another(h, c, next),
           UNCHANGED attached, UNCHANGED queue, UNCHANGED last, UNCHANGED listed
    PROVE  SkipInv'
<1>1. TypeInv /\ AloneInv
  BY DEF UdevInv
<1>2. /\ handler[h] # <<>> /\ Top(h) \in Scripts /\ Top(h).pc = label
      /\ Top(h).dev \in Devices /\ Top(h) \in Run(Top(h).dev)
  BY <1>1, AtFacts, TopFacts
<1>3. c \in Devices
  BY <1>1 DEF TypeInv
<1>4. PICK new \in Scripts :
        /\ new = Script(c, "start") /\ new.dev = c
        /\ new.how = IF Run(c) # {} THEN "company" ELSE "clean"
  BY <1>1, <1>3, NewScript
<1>5. PICK t \in Scripts :
        /\ t = [Top(h) EXCEPT !.pc = next]
        /\ t.dev = Top(h).dev /\ t.how = Top(h).how
  <2>1. [Top(h) EXCEPT !.pc = next] \in Scripts
    BY <1>2 DEF Scripts, Pcs
  <2> QED
    BY <1>2, <2>1 DEF Scripts
<1>6. Arrives(h, new, t)
  BY <1>1, <1>2, <1>4, <1>5, RefreshFacts
<1>7. /\ Joins(c, new)
      /\ \A e \in Devices : e # c /\ e # t.dev => Run(e)' = Run(e)
      /\ t \in Run(t.dev)'
      /\ Run(t.dev)' \subseteq Run(t.dev) \cup {t}
  <2>1. /\ new.how = IF Run(new.dev) # {} THEN "company" ELSE "clean"
        /\ t.dev = Top(h).dev /\ t.dev # new.dev /\ t.how = Top(h).how
    BY <1>4, <1>5
  <2>2. /\ Joins(new.dev, new)
        /\ \A e \in Devices : e # new.dev /\ (handler[h] = <<>> \/ e # t.dev) => Run(e)' = Run(e)
        /\ t \in Run(t.dev)'
        /\ Run(t.dev)' \subseteq Run(t.dev) \cup {t}
    <3>1. TypeInv /\ AloneInv /\ handler[h] # <<>>
      BY <1>1, <1>2
    <3> QED
      BY <1>6, <2>1, <3>1, ArrivesRun, Zenon
  <2> QED
    BY <1>4, <2>2
<1>8. SkipOk(c)'
  BY <1>7, JoinSkip
<1>9. SkipOk(t.dev)'
  <2>1. \A s \in Run(t.dev) : s.how = "skipped" => s.pc \in Leaving
    BY <1>2, <1>5 DEF SkipInv, SkipOk
  <2>2. t.how # "skipped"
    BY <1>2, <1>5, <2>1 DEF Leaving
  <2> QED
    BY <1>7, <2>1, <2>2 DEF SkipOk
<1>10. ASSUME NEW e \in Devices, e # c, e # t.dev PROVE SkipOk(e)'
  <2>1. SkipOk(e) /\ Run(e)' = Run(e) /\ last'[e] = last[e]
    BY <1>7, <1>10 DEF SkipInv
  <2>2. /\ e \in listed' => e \in listed
        /\ e \in attached => e \in attached'
        /\ Queued(e) => Queued(e)'
        /\ Removed(e) => Removed(e)'
    BY SameEvents
  <2> QED
    BY <2>1, <2>2, SameSkip
<1> QED
  BY <1>8, <1>9, <1>10 DEF SkipInv

(* A script goes on elsewhere, and has not found the disk attached. *)
LEMMA GotoSkip ==
    ASSUME UdevInv, SkipInv, NEW h \in Devices, NEW label, AtPc(h, label),
           NEW next \in Pcs, Goto(h, next), label \in Leaving => next \in Leaving,
           UNCHANGED attached, UNCHANGED queue, UNCHANGED last, listed' \subseteq listed
    PROVE  SkipInv'
<1>1. TypeInv
  BY DEF UdevInv
<1>2. /\ handler[h] # <<>> /\ Top(h).pc = label
      /\ Top(h).dev \in Devices /\ Top(h) \in Run(Top(h).dev)
  BY <1>1, AtFacts, TopFacts
<1>3. PICK t \in Scripts :
        /\ Changes(h, t)
        /\ t.dev = Top(h).dev /\ t.pc = next /\ t.todo = Top(h).todo /\ t.how = Top(h).how
  BY <1>1, <1>2, GotoFacts
<1>4. Top(h).how = "skipped" => Top(h).pc \in Leaving
  BY <1>2 DEF SkipInv, SkipOk
<1> QED
  BY <1>2, <1>3, <1>4, ChangeSkip

(* The script for a partition, or for Dm, starts with another device. *)
LEMMA RefreshSkip ==
    ASSUME UdevInv, SkipInv, NEW h \in Devices, RefreshParent(h) \/ RefreshSlaves(h)
    PROVE  SkipInv'
<1>1. TypeInv /\ KernelInv
  BY DEF UdevInv
<1>2. /\ Slave \in Parts /\ Dm \notin Parts /\ Disk \notin Parts
      /\ {"parent", "slaves", "self"} \subseteq Early /\ Early \subseteq Pcs
  BY UdevAssumption DEF Early, Pcs
<1>3. /\ UNCHANGED attached /\ UNCHANGED queue /\ UNCHANGED last /\ listed' = listed
  BY DEF RefreshParent, RefreshSlaves, kernelVars
<1>4. CASE RefreshParent(h)
  <2>1. CASE Top(h).dev \in Parts \cap exists
    <3>1. Disk \in exists /\ Disk # Top(h).dev
      BY <1>1, <1>2, <2>1 DEF KernelInv
    <3>2. AtPc(h, "start") /\ refresh_another(h, Disk, "parent")
      BY <1>4, <2>1 DEF RefreshParent
    <3> QED
      BY <1>2, <1>3, <3>1, <3>2, PushSkip
  <2>2. CASE Top(h).dev \notin Parts \cap exists
    <3>1. AtPc(h, "start") /\ Goto(h, "slaves")
      BY <1>4, <2>2 DEF RefreshParent
    <3> QED
      BY <1>2, <1>3, <3>1, GotoSkip DEF Leaving
  <2> QED
    BY <2>1, <2>2
<1>5. CASE RefreshSlaves(h)
  <2>1. CASE Top(h).dev = Dm /\ Dm \in exists
    <3>1. Slave \in exists /\ Slave # Top(h).dev
      BY <1>1, <1>2, <2>1 DEF KernelInv
    <3>2. AtPc(h, "slaves") /\ refresh_another(h, Slave, "self")
      BY <1>5, <2>1 DEF RefreshSlaves
    <3> QED
      BY <1>2, <1>3, <3>1, <3>2, PushSkip
  <2>2. CASE ~(Top(h).dev = Dm /\ Dm \in exists)
    <3>1. AtPc(h, "slaves") /\ Goto(h, "self")
      BY <1>5, <2>2 DEF RefreshSlaves
    <3> QED
      BY <1>2, <1>3, <3>1, GotoSkip DEF Leaving
  <2> QED
    BY <2>1, <2>2
<1> QED
  BY <1>4, <1>5

(* A script that finds the disk attached goes on to remove the entry. *)
LEMMA ParentSkip ==
    ASSUME UdevInv, SkipInv, NEW h \in Devices, SkipIfParentAttached(h)
    PROVE  SkipInv'
<1> DEFINE pc == IF is_attached(Disk) THEN "remove" ELSE "slaves"
           how == IF is_attached(Disk) /\ Top(h).how = "clean" THEN "skipped" ELSE Top(h).how
           t == [Top(h) EXCEPT !.pc = pc, !.how = how]
<1>1. TypeInv
  BY DEF UdevInv
<1>2. /\ handler[h] # <<>> /\ Top(h).pc = "parent" /\ Top(h) \in Scripts
      /\ Top(h).dev \in Devices /\ Top(h) \in Run(Top(h).dev)
      /\ Top(h) = handler[h][1] /\ 1 \in 1..Len(handler[h])
  BY <1>1, AtFacts, TopFacts DEF SkipIfParentAttached
<1>3. Top(h).how # "skipped"
  BY <1>2 DEF SkipInv, SkipOk, Leaving
<1>4. /\ pc \in Pcs /\ how \in Hows
      /\ Top(h).how = "company" => how = "company"
      /\ how = "skipped" => pc \in Leaving
  BY <1>2, <1>3 DEF Scripts, Pcs, Early, Leaving, Hows
<1>5. handler' = [handler EXCEPT ![h][1].pc = pc, ![h][1].how = how]
  BY <1>2 DEF SkipIfParentAttached
<1> HIDE DEF pc, how
<1>6. t \in Scripts /\ t.dev = Top(h).dev /\ t.pc = pc /\ t.how = how
  BY <1>2, <1>4 DEF Scripts
<1>7. handler' = [handler EXCEPT ![h][1] = t]
  BY <1>2, <1>5
<1> HIDE DEF t
<1>8. Changes(h, t)
  BY <1>1, <1>2, <1>6, <1>7, ChangesFacts
<1>9. UNCHANGED attached /\ UNCHANGED queue /\ UNCHANGED last /\ listed' \subseteq listed
  BY DEF SkipIfParentAttached, kernelVars
<1> QED
  BY <1>2, <1>4, <1>6, <1>8, <1>9, ChangeSkip

(* The script looks at the partitions of its disk, one after the other. *)
LEMMA PartsSkip ==
    ASSUME UdevInv, SkipInv, NEW h \in Devices, CheckParts(h)
    PROVE  SkipInv'
<1>1. TypeInv
  BY DEF UdevInv
<1>2. /\ handler[h] # <<>> /\ Top(h).pc = "parts" /\ Top(h) \in Scripts /\ AtPc(h, "parts")
      /\ Top(h).dev \in Devices /\ Top(h) \in Run(Top(h).dev)
      /\ Top(h) = handler[h][1] /\ 1 \in 1..Len(handler[h])
  BY <1>1, AtFacts, TopFacts DEF CheckParts
<1>3. UNCHANGED attached /\ UNCHANGED queue /\ UNCHANGED last /\ listed' \subseteq listed
  BY DEF CheckParts, kernelVars
<1>4. CASE Top(h).dev = Disk /\ Top(h).todo \cap exists # {}
  <2>1. PICK p \in Top(h).todo \cap exists :
            handler' = [handler EXCEPT
                    ![h][1].todo = @ \ {p},
                    ![h][1].pc = IF is_used(p) \/ is_attached(p) THEN "remove" ELSE @]
    BY <1>4 DEF CheckParts
  <2> DEFINE next == IF is_used(p) \/ is_attached(p) THEN "remove" ELSE "parts"
             rest == Top(h).todo \ {p}
             t == [Top(h) EXCEPT !.todo = rest, !.pc = next]
  <2>2. next \in Pcs /\ rest \subseteq Parts
    BY <1>2 DEF Scripts, Pcs, Leaving
  <2>3. handler' = [handler EXCEPT ![h][1].todo = rest, ![h][1].pc = next]
    BY <1>2, <2>1
  <2> HIDE DEF next, rest
  <2>4. t \in Scripts /\ t.dev = Top(h).dev /\ t.how = Top(h).how
    BY <1>2, <2>2 DEF Scripts
  <2>5. handler' = [handler EXCEPT ![h][1] = t]
    BY <1>2, <2>3
  <2> HIDE DEF t
  <2>6. Changes(h, t)
    BY <1>1, <1>2, <2>4, <2>5, ChangesFacts
  <2>7. t.how # "skipped"
    BY <1>2, <2>4 DEF SkipInv, SkipOk, Leaving
  <2> QED
    BY <1>2, <1>3, <2>4, <2>6, <2>7, ChangeSkip
<1>5. CASE ~(Top(h).dev = Disk /\ Top(h).todo \cap exists # {})
  <2>1. PICK next \in {"remove", "write"} : Goto(h, next)
    BY <1>5 DEF CheckParts
  <2>2. next \in Pcs
    BY DEF Pcs, Leaving
  <2> QED
    BY <1>2, <1>3, <2>1, <2>2, GotoSkip DEF Leaving
<1> QED
  BY <1>4, <1>5

(* The removal of Dm is passed on to its slaves: whom it misses is not     *)
(* skipped any more.                                                       *)
LEMMA ClearSkip ==
    ASSUME UdevInv, SkipInv, NEW h \in Devices, TriggerSlaves(h), Top(h).dev = Dm, slaves # NoFile
    PROVE  SkipInv'
<1>1. TypeInv /\ AloneInv
  BY DEF UdevInv
<1>2. /\ handler[h] # <<>> /\ Top(h).pc = "trigger" /\ ScriptOk(h, Top(h)) /\ Top(h) \in Run(Dm)
  BY <1>1, AtFacts, TopFacts DEF TriggerSlaves
<1>3. /\ Len(handler[h]) = 1 /\ Top(h).how # "company"
      /\ Disk # Dm /\ Slave # Dm /\ {Disk, Slave} \subseteq Devices /\ Dm \in Devices
  BY <1>2, UdevAssumption DEF ScriptOk, Removal, Devices
<1>4. Top(h).how # "skipped"
  BY <1>2, <1>3 DEF SkipInv, SkipOk, Leaving
<1>5. PICK missed \in SUBSET Devices : missed = IF slaves = {} THEN {Slave, Disk} ELSE {}
  BY <1>3
<1>6. /\ handler' = [Disturbed(missed, "missed") EXCEPT ![h] = <<>>]
      /\ last' = [d \in Devices |->
                        IF d \in missed /\ last[d] # "company" THEN "missed"
                        ELSE IF d = Dm THEN Top(h).how ELSE last[d]]
      /\ listed' = listed /\ attached' = attached
  BY <1>5 DEF TriggerSlaves, kernelVars
<1>7. Dm \notin missed
  BY <1>3, <1>5
<1>8. /\ Run(Dm)' = {}
      /\ \A e \in Devices \ (missed \cup {Dm}) : Run(e)' = Run(e)
      /\ \A e \in missed : Misses(e)
  <2>1. Top(h).dev \notin missed /\ Dm = Top(h).dev
    BY <1>7
  <2>2. handler' = [Disturbed(missed, "missed") EXCEPT ![h] = <<>>]
    BY <1>6
  <2>3. TypeInv /\ AloneInv /\ Len(handler[h]) = 1 /\ Top(h).how # "company"
    BY <1>1, <1>3
  <2> QED
    BY <2>1, <2>2, <2>3, ClearsRun, Zenon
<1>9. PICK ev \in Seq(Events) : queue' = queue \o ev
  <2>1. slaves \in {{}, {Slave}}
    BY <1>1 DEF TypeInv
  <2>2. PICK ev \in Seq(Events) :
            ev = [n \in 1..Cardinality(slaves \cap exists) |-> Event("change", Slave)]
    BY <1>1, <2>1, TriggeredFacts
  <2>3. queue' = queue \o [n \in 1..Cardinality(slaves \cap exists) |-> Event("change", Slave)]
    BY DEF TriggerSlaves
  <2> QED
    BY <2>2, <2>3
<1>10. \A d : (Queued(d) => Queued(d)') /\ (Removed(d) => Removed(d)')
  BY <1>1, <1>9, AppendedEvents
<1>11. /\ \A e \in Devices \ (missed \cup {Dm}) : last'[e] = last[e]
       /\ \A e \in missed \cup {Dm} : last'[e] # "skipped"
  <2>1. \A d \in Devices : last'[d] = IF d \in missed /\ last[d] # "company" THEN "missed"
                                      ELSE IF d = Dm THEN Top(h).how ELSE last[d]
    BY <1>6
  <2>2. ASSUME NEW e \in missed PROVE last'[e] # "skipped"
    <3>1. Misses(e) /\ e \in Devices /\ e # Dm
      BY <1>7, <1>8
    <3>2. last'[e] = IF last[e] # "company" THEN "missed" ELSE last[e]
      BY <2>1, <3>1
    <3> QED
      BY <3>2
  <2> QED
    BY <1>3, <1>4, <1>7, <2>1, <2>2
<1>12. ASSUME NEW e \in Devices \ (missed \cup {Dm}) PROVE SkipOk(e)'
  BY <1>6, <1>8, <1>10, <1>11, SameSkip DEF SkipInv
<1>13. ASSUME NEW e \in missed PROVE SkipOk(e)'
  BY <1>8, <1>11 DEF SkipOk, Misses
<1>14. SkipOk(Dm)'
  BY <1>8, <1>11 DEF SkipOk
<1> QED
  BY <1>12, <1>13, <1>14 DEF SkipInv

(* The last step of a script *)
LEMMA EndSkip ==
    ASSUME UdevInv, SkipInv, NEW h \in Devices,
           Write(h) \/ KeepAttached(h) \/ RemoveEntry(h) \/ TriggerSlaves(h)
    PROVE  SkipInv'
<1>1. TypeInv
  BY DEF UdevInv
<1>2. PICK label \in {"write", "remove", "rm", "trigger"} : AtPc(h, label)
  BY DEF Write, KeepAttached, RemoveEntry, TriggerSlaves
<1>3. PICK d \in Devices : d = Top(h).dev
  BY <1>2, AtFacts
<1>4. /\ handler[h] # <<>> /\ Top(h).pc = label /\ Top(h) \in Run(d)
  BY <1>1, <1>2, <1>3, AtFacts, TopFacts
<1>5. Top(h).how = "skipped" => Top(h).pc \in Leaving
  BY <1>4 DEF SkipInv, SkipOk
<1>6. UNCHANGED attached
  BY DEF Write, KeepAttached, RemoveEntry, TriggerSlaves, kernelVars
<1>7. CASE Write(h)
  <2>1. Top(h).how # "skipped" /\ Exit(h) /\ UNCHANGED queue /\ listed' = listed \cup {d}
    BY <1>3, <1>5, <1>7 DEF Write, AtPc, Leaving
  <2> QED
    BY <1>3, <1>4, <1>6, <2>1, PopSkip
<1>8. CASE KeepAttached(h)
  <2>1. AtPc(h, "remove") /\ UNCHANGED queue /\ listed' = listed
    BY <1>8 DEF KeepAttached
  <2>2. CASE is_attached(d)
    BY <1>3, <1>4, <1>6, <1>8, <2>1, <2>2, PopSkip DEF KeepAttached, is_attached
  <2>3. CASE ~is_attached(d)
    <3>1. Goto(h, "rm") /\ UNCHANGED last /\ "rm" \in Pcs
      BY <1>3, <1>8, <2>3 DEF KeepAttached, Pcs, Leaving
    <3> QED
      BY <1>6, <2>1, <3>1, GotoSkip DEF Leaving
  <2> QED
    BY <2>2, <2>3
<1>9. CASE RemoveEntry(h)
  <2>1. Exit(h) /\ UNCHANGED queue /\ listed' = listed \ {d}
    BY <1>3, <1>9 DEF RemoveEntry
  <2> QED
    BY <1>3, <1>4, <1>6, <2>1, PopSkip
<1>10. CASE TriggerSlaves(h)
  <2>1. CASE d = Dm /\ slaves # NoFile
    BY <1>3, <1>10, <2>1, ClearSkip
  <2>2. CASE ~(d = Dm /\ slaves # NoFile)
    <3>1. Top(h).how # "skipped" /\ Exit(h) /\ UNCHANGED queue /\ listed' = listed
      BY <1>3, <1>5, <1>10, <2>2 DEF TriggerSlaves, AtPc, Leaving
    <3> QED
      BY <1>3, <1>4, <1>6, <3>1, PopSkip
  <2> QED
    BY <2>1, <2>2
<1> QED
  BY <1>7, <1>8, <1>9, <1>10

(* A step of the script in the event handler h *)
LEMMA StepSkip ==
    ASSUME UdevInv, SkipInv, NEW h \in Devices, Step(h)
    PROVE  SkipInv'
<1>1. CASE RefreshParent(h) \/ RefreshSlaves(h)
  BY <1>1, RefreshSkip
<1>2. CASE SkipIfParentAttached(h)
  BY <1>2, ParentSkip
<1>3. CASE CheckSelf(h)
  <2>1. PICK next \in {"remove", "parts"} : Goto(h, next)
    BY <1>3 DEF CheckSelf
  <2>2. next \in Pcs /\ AtPc(h, "self")
    BY <1>3 DEF Pcs, Leaving, CheckSelf
  <2>3. UNCHANGED attached /\ UNCHANGED queue /\ UNCHANGED last /\ listed' \subseteq listed
    BY <1>3 DEF CheckSelf, kernelVars
  <2> QED
    BY <2>1, <2>2, <2>3, GotoSkip DEF Leaving
<1>4. CASE CheckParts(h)
  BY <1>4, PartsSkip
<1>5. CASE RemoveGone(h)
  <2>1. AtPc(h, "gone") /\ Goto(h, "trigger") /\ "trigger" \in Pcs
    BY <1>5 DEF RemoveGone, Pcs, Removal
  <2>2. UNCHANGED attached /\ UNCHANGED queue /\ UNCHANGED last /\ listed' \subseteq listed
    BY <1>5 DEF RemoveGone, kernelVars
  <2> QED
    BY <2>1, <2>2, GotoSkip DEF Leaving
<1>6. CASE Write(h) \/ KeepAttached(h) \/ RemoveEntry(h) \/ TriggerSlaves(h)
  BY <1>6, EndSkip
<1> QED
  BY <1>1, <1>2, <1>3, <1>4, <1>5, <1>6 DEF Step

(* udevd starts the script for an event. *)
LEMMA StartSkip ==
    ASSUME UdevInv, SkipInv, NEW n \in 1..Len(queue), StartHandler(n)
    PROVE  SkipInv'
<1>1. TypeInv /\ AloneInv /\ OrderInv /\ CacheInv
  BY DEF UdevInv
<1>2. queue[n] \in Events
  BY <1>1 DEF TypeInv
<1>3. PICK c \in Devices : c = queue[n].dev
  BY <1>2 DEF Events
<1>4. PICK start \in {"start", "gone"} : start = IF queue[n].act = "remove" THEN "gone" ELSE "start"
  OBVIOUS
<1>5. /\ \A k \in 1..(n - 1) : queue[k].dev # c
      /\ handler[c] = <<>>
      /\ queue' = RemoveAt(queue, n)
      /\ listed' = listed /\ last' = last /\ exists' = exists /\ attached' = attached
  BY <1>3 DEF StartHandler, Related, kernelVars
<1>6. PICK new \in Scripts :
        /\ new = Script(c, start) /\ new.dev = c
        /\ new.how = IF Run(c) # {} THEN "company" ELSE "clean"
  BY <1>1, NewScript
<1>7. handler' = [Disturbed({c}, "company") EXCEPT ![c] = <<new>>]
  BY <1>3, <1>4, <1>6 DEF StartHandler
<1>8. Arrives(c, new, new)
  BY <1>1, <1>5, <1>6, <1>7, StartFacts
<1>9. Joins(c, new) /\ \A e \in Devices : e # c => Run(e)' = Run(e)
  <2>1. new.how = IF Run(new.dev) # {} THEN "company" ELSE "clean"
    BY <1>6
  <2>2. /\ Joins(new.dev, new)
        /\ \A e \in Devices : e # new.dev /\ (handler[c] = <<>> \/ e # new.dev) => Run(e)' = Run(e)
    BY <1>1, <1>5, <1>8, <2>1, ArrivesRun
  <2> QED
    BY <1>6, <2>2
<1>10. \A d : d # c => (Queued(d)' <=> Queued(d)) /\ (Removed(d)' <=> Removed(d))
  BY <1>1, <1>3, <1>5, TakenEvents
<1>11. ASSUME NEW e \in Devices, e # c PROVE SkipOk(e)'
  <2>1. SkipOk(e) /\ Run(e)' = Run(e)
    BY <1>9, <1>11 DEF SkipInv
  <2> QED
    BY <1>5, <1>10, <1>11, <2>1, SameSkip
<1>12. SkipOk(c)'
  BY <1>9, JoinSkip
<1> QED
  BY <1>11, <1>12 DEF SkipInv

(* Something happens to the devices: what is not attached any more has an  *)
(* event.                                                                  *)
LEMMA ChangedSkip ==
    ASSUME UdevInv, SkipInv, NEW ev \in Seq(Events), Changed(ev),
           \A d \in Devices : d \in attached =>
                \/ d \in attached'
                \/ \E n \in 1..Len(ev) : ev[n].dev = d /\ ev[n].act # "remove"
    PROVE  SkipInv'
<1>1. TypeInv
  BY DEF UdevInv
<1>2. queue' = queue \o ev /\ handler' = handler /\ listed' = listed /\ last' = last
  BY DEF Changed
<1>3. \A d : /\ Queued(d)' <=> \/ Queued(d)
                               \/ \E n \in 1..Len(ev) : ev[n].dev = d /\ ev[n].act # "remove"
             /\ Removed(d) => Removed(d)'
  BY <1>1, <1>2, AppendedEvents
<1>4. ASSUME NEW d \in Devices PROVE SkipOk(d)'
  <2>1. SkipOk(d) /\ Run(d)' = Run(d)
    BY <1>2 DEF SkipInv, Run
  <2> QED
    BY <1>2, <1>3, <2>1, SameSkip
<1> QED
  BY <1>4 DEF SkipInv

(* All events are handled in the initial state. *)
LEMMA InitSkipInv == Init => SkipInv
<1> SUFFICES ASSUME Init PROVE SkipInv
  OBVIOUS
<1>1. /\ \A h \in Devices : Len(handler[h]) = 0
      /\ \A d \in Devices : last[d] = "clean"
  BY DEF Init
<1>2. \A d : Run(d) = {}
  BY <1>1 DEF Run
<1> QED
  BY <1>1, <1>2 DEF SkipInv, SkipOk

(* Every step keeps the invariant. *)
LEMMA NextSkipInv == UdevInv /\ SkipInv /\ [Next]_vars => SkipInv'
<1> SUFFICES ASSUME UdevInv, SkipInv, [Next]_vars PROVE SkipInv'
  OBVIOUS
<1>1. CASE Insert \/ Eject
  <2>1. Disk \in Devices /\ attached' = attached
    BY <1>1 DEF Devices, Insert, Eject
  <2>2. PICK a \in {"add", "remove"}, b \in {"change", "remove"} :
            \E ev : OfDisk(ev, a, b) /\ Changed(ev)
    BY <1>1 DEF Insert, Eject, OfDisk
  <2>3. PICK ev : OfDisk(ev, a, b) /\ Changed(ev)
    BY <2>2
  <2>4. ev \in Seq(Events)
    BY <2>3, DiskEvents
  <2> QED
    BY <2>1, <2>3, <2>4, ChangedSkip
<1>2. CASE Map
  <2>1. attached' = attached /\ Dm \in Devices
    BY <1>2 DEF Map, Devices
  <2>2. PICK a \in {"add", "change", "remove"} : Changed(<<Event(a, Dm)>>)
    BY <1>2 DEF Map
  <2>3. <<Event(a, Dm)>> \in Seq(Events)
    BY <2>1, OneEvent
  <2> QED
    BY <2>1, <2>2, <2>3, ChangedSkip
<1>3. ASSUME NEW d \in Devices, Mount(d) \/ Attach(d) PROVE SkipInv'
  <2> DEFINE ev == <<Event("change", d)>>
  <2>1. ev \in Seq(Events) /\ Len(ev) = 1 /\ ev[1].dev = d /\ ev[1].act = "change"
    BY OneEvent
  <2>2. Changed(ev)
    BY <1>3 DEF Mount, Attach
  <2>3. \A e \in Devices : e # d /\ e \in attached => e \in attached'
    BY <1>3 DEF Mount, Attach
  <2> HIDE DEF ev
  <2>4. ASSUME NEW e \in Devices, e \in attached
        PROVE  e \in attached' \/ \E n \in 1..Len(ev) : ev[n].dev = e /\ ev[n].act # "remove"
    <3>1. 1 \in 1..Len(ev)
      BY <2>1
    <3> QED
      BY <2>1, <2>3, <2>4, <3>1
  <2> QED
    BY <2>1, <2>2, <2>4, ChangedSkip
<1>4. ASSUME NEW n \in 1..Len(queue), StartHandler(n) PROVE SkipInv'
  BY <1>4, StartSkip
<1>5. ASSUME NEW h \in Devices, Step(h) PROVE SkipInv'
  BY <1>5, StepSkip
<1>6. CASE UNCHANGED vars
  <2>1. /\ attached' = attached /\ UNCHANGED queue
        /\ handler' = handler /\ listed' = listed /\ last' = last
    BY <1>6 DEF vars, kernelVars
  <2>2. ASSUME NEW d \in Devices PROVE SkipOk(d)'
    <3>1. SkipOk(d) /\ Run(d)' = Run(d)
      BY <2>1 DEF SkipInv, Run
    <3> QED
      BY <2>1, <3>1, SameEvents, SameSkip
  <2> QED
    BY <2>2 DEF SkipInv
<1> QED
  BY <1>1, <1>2, <1>3, <1>4, <1>5, <1>6 DEF Next, Udevd

(* What a script has found to be a partition of an attached disk           *)
(* (udev-block-add-change:72-77) it takes off the list, and it stays off   *)
(* until another script looks at it.                                       *)
THEOREM SkipInvariant == Spec => []SkipInv
<1>1. UdevInv /\ SkipInv /\ [Next]_vars => SkipInv'
  BY NextSkipInv
<1> QED
  BY <1>1, InitSkipInv, UdevInvariant, PTL DEF Spec

-----------------------------------------------------------------------------
(* The properties *)

(* When nothing is queued and no script runs, nothing is left to come. *)
LEMMA QuietFacts ==
    ASSUME UdevInv, Quiet
    PROVE  /\ \A d : Run(d) = {}
           /\ \A d, pcs : ~HasScript(d, pcs)
           /\ \A d : ~Queued(d) /\ ~Removed(d)
<1>1. Len(queue) = 0 /\ \A h \in Devices : Len(handler[h]) = 0
  BY DEF Quiet
<1>2. \A d : Run(d) = {}
  BY <1>1 DEF Run
<1> QED
  BY <1>1, <1>2 DEF HasScript, Queued, Removed

(* Once all events are handled, what is listed is free, unless it is       *)
(* attached, two scripts for it overlapped, or it is a partition of a disk *)
(* that no script has found attached (udev-block-add-change:14, 72-77 and  *)
(* 98-114).                                                                *)
THEOREM Listed_Safe == Spec => []ListedIsFree
<1>1. UdevInv /\ SkipInv => ListedIsFree
  <2> SUFFICES ASSUME UdevInv, SkipInv, Quiet, NEW d \in listed, ~is_attached(d), last[d] # "company"
               PROVE  Free(d) \/ NotSeenAttached(d)
    BY DEF ListedIsFree
  <2>1. /\ Run(d) = {}
        /\ \A e, pcs : ~HasScript(e, pcs)
        /\ \A e : ~Queued(e) /\ ~Removed(e)
        /\ Run(Disk) = {}
    BY QuietFacts
  <2>2. d \in Devices /\ ListOk(d)
    BY DEF UdevInv, TypeInv, ListInv
  <2>3. Seen(d)
    BY <2>1, <2>2 DEF ListOk, Alone, is_attached
  <2>4. \A e : ~Looks(e) /\ ~Asks(e)
    BY <2>1 DEF Looks, Asks
  <2>5. ~AsksSlave
    BY <2>1 DEF AsksSlave
  <2>6. \A p : ~LooksAtPart(p)
    BY <2>1, <2>4 DEF LooksAtPart
  <2>7. Slave \in Parts /\ Dm \notin Parts /\ Dm # Disk
    BY UdevAssumption
  <2>8. /\ d \in exists /\ d \notin mounted /\ ~(d = Slave /\ Dm \in exists)
        /\ d = Disk => /\ \A p \in Parts : p \notin mounted \cup attached
                       /\ Dm \notin exists
                       /\ exists \cap Parts # {}
    BY <2>1, <2>3, <2>4, <2>5, <2>6 DEF Seen
  <2>9. Unused(d)
    BY <2>7, <2>8 DEF Unused, is_used, is_attached, Claimed
  <2>10. last[d] # "skipped"
    BY <2>1, <2>2 DEF SkipInv, SkipOk, is_attached
  <2> QED
    BY <2>9, <2>10 DEF Free, NotSeenAttached
<1> QED
  BY <1>1, UdevInvariant, SkipInvariant, PTL

(* Once all events are handled, what is free is listed, although what made *)
(* it free may have happened to its partition, its disk or the             *)
(* device-mapper device on it (udev-block-add-change:68-87,                *)
(* udev-block-remove:11-17), if the last look at it was not one of the     *)
(* three exceptions that the history names.                                *)
THEOREM Free_Safe == Spec => []FreeIsListed
<1>1. UdevInv => FreeIsListed
  <2> SUFFICES ASSUME UdevInv, Quiet, NEW d \in Devices, Free(d), last[d] = "clean", d \notin listed
               PROVE  FALSE
    BY DEF FreeIsListed
  <2>1. /\ Run(d) = {}
        /\ \A e, pcs : ~HasScript(e, pcs)
        /\ \A e : ~Queued(e) /\ ~Removed(e)
    BY QuietFacts
  <2>2. FreeOk(d) /\ Unused(d)
    BY DEF UdevInv, FreeInv, Free
  <2>3. ~Comes(d)
    BY <2>1 DEF Comes, Asks
  <2> QED
    BY <2>1, <2>2, <2>3 DEF FreeOk, AllClean
<1> QED
  BY <1>1, UdevInvariant, PTL

=============================================================================
