----------------------------- MODULE BootProofs -----------------------------
(***************************************************************************)
(* Proofs about Boot: gptfix under power failures, and the scripts that    *)
(* run it.                                                                 *)
(*                                                                         *)
(* The argument has three layers.  What the disk holds in the four units   *)
(* where a header may be is a header for the sector size of that unit      *)
(* (GoodHeader), whatever the writes that were cut short; what gptfix read *)
(* is such a header; and what it writes misses the partitions.             *)
(***************************************************************************)
EXTENDS Boot, FiniteSetTheorems, WellFoundedInduction, TLAPS

-----------------------------------------------------------------------------
(* The inductive invariant *)

EntriesFor(s) == {Entry(e, s) : e \in layout.parts}
Aligned(s) == \A e \in layout.parts : e.from % s = 0 /\ e.to % s = 0
Listed(h) == UNION {h.crc[i].ps : i \in DOMAIN h.crc}
HeaderUnits(s) == {s, Units - s}

(* A header in unit u for sector size s that lists the partitions *)
GoodHeader(h, u, s) ==
    /\ h.t = "hdr"
    /\ h.MyLBA * s = u /\ h.MyLBA \in Nat /\ h.AlternateLBA \in Nat
    /\ h.FirstUsableLBA \in Int /\ h.LastUsableLBA \in Int /\ h.PartitionEntryLBA \in Int
    /\ h.NumberOfPartitionEntries \in Nat
    /\ DOMAIN h.crc = 0..(UnitsFor(h.NumberOfPartitionEntries) - 1)
    /\ Listed(h) = EntriesFor(s)
    /\ Aligned(s)
    /\ \A e \in layout.parts : e.slot < h.NumberOfPartitionEntries
    /\ layout.cut = 0 => h.AlternateLBA < Sectors(s)

LayoutInv == layout \in Layouts /\ dev \in SectorSizes

HeadersInv ==
    \A s \in SectorSizes : \A u \in HeaderUnits(s) :
        disk[u].t = "hdr" => GoodHeader(disk[u], u, s)

DiskInv ==
    /\ disk = [u \in 0..(Units - 1) |-> disk[u]]
    /\ HeadersInv
    /\ DataKept

(* What read_and_check_gpt() found good *)
GoodGpt(g, s) ==
    /\ g.status = 1 /\ g.sector_size = s
    /\ g.entries = EntriesFor(s) /\ layout.parts # {}
    /\ \A p \in g.entries : /\ p.StartingLBA >= g.header.FirstUsableLBA
                            /\ p.EndingLBA <= g.header.LastUsableLBA
    /\ \E offset \in {1, Sectors(s) - 1} :
          /\ GoodHeader(g.header, offset * s, s)
          /\ check_gpt_header(g.header, offset, s) = 1

GptInv == pc \in {"adjust", "write", "reload"} => GoodGpt(gpt, Other)

(* A write for sector size s within the units from lo to hi - 1, that puts *)
(* headers only where headers of this size belong *)
Confined(w, lo, hi, s) ==
    /\ \E m \in Nat :
          /\ DOMAIN w.data = 0..(m - 1) /\ m % s = 0 /\ m > 0
          /\ w.at \in Nat /\ lo <= w.at /\ w.at + m <= hi
    /\ \A i \in DOMAIN w.data : w.data[i].t = "hdr" =>
          w.at + i \in HeaderUnits(s) /\ GoodHeader(w.data[i], w.at + i, s)
    /\ w.at = 0 => w.data[0] = Mbr("protective", Sectors(s) - 1)

(* The writes of create_new_gpt() *)
TableWrite(g, s, offset) ==
    Pwrite(new_header(g, s, offset).PartitionEntryLBA * s,
           [i \in 0..(RequiredUnits(new_header(g, s, offset).NumberOfPartitionEntries, s) - 1) |->
               Chunk(new_array(g, s), i)])
HeaderWrite(g, s, offset) == Pwrite(offset * s, SectorWith(new_header(g, s, offset), s))
GptWrites(g, s, offset) ==
    {TableWrite(g, s, offset), HeaderWrite(g, s, offset)} \cup
    (IF offset # 1 THEN {ClearUnits(Units - Big, Big)}
     ELSE {WriteMbr(s)} \cup (IF s = Big THEN {} ELSE {ClearUnits(1, 1), ClearUnits(Big, Big)}))

FirstOffset == IF used_primary THEN Sectors(dev) - 1 ELSE 1
SecondOffset == IF used_primary THEN 1 ELSE Sectors(dev) - 1
SecondHalf == Len(create_new_gpt(gpt, dev, SecondOffset))
All == AllWrites(gpt, dev, used_primary)

(* What is still to write is the end of what create_new_gpt() asked for. *)
QueueInv ==
    pc = "write" =>
        /\ ~Constraint(gpt, dev)
        /\ queue \in Seq(GptWrites(gpt, dev, FirstOffset) \cup GptWrites(gpt, dev, SecondOffset))
        /\ Len(queue) \in 1..Len(All)
        /\ \A k \in 1..Len(queue) : queue[k] = All[Len(All) - Len(queue) + k]
        /\ pend \subseteq SectorsOf(queue[1], dev)

(* A GPT is read from the disk as long as the other one is being written.  *)
OnDisk(d, w) == \A i \in DOMAIN w.data : d[w.at + i] = w.data[i]
MbrOnDisk == disk[0] = Mbr("protective", Sectors(dev) - 1)
UsedOffset == IF used_primary THEN 1 ELSE Sectors(Other) - 1
UsedIntact == gpt = read_and_check_gpt(disk, UsedOffset, Other)

ProgressInv ==
    /\ pc = "adjust" => UsedIntact
    /\ pc = "write" =>
        /\ \A i \in DOMAIN queue[1].data :
              i \div dev \notin pend => disk[queue[1].at + i] = queue[1].data[i]
        /\ Len(queue) > SecondHalf => UsedIntact
        /\ Len(queue) <= SecondHalf + 1 => OnDisk(disk, TableWrite(gpt, dev, FirstOffset))
        /\ Len(queue) <= SecondHalf => OnDisk(disk, HeaderWrite(gpt, dev, FirstOffset))
        /\ Len(queue) <= 1 => OnDisk(disk, TableWrite(gpt, dev, SecondOffset))
        /\ (\A k \in 1..Len(queue) : queue[k] # WriteMbr(dev)) => MbrOnDisk
    /\ pc = "reload" =>
        /\ ~Constraint(gpt, dev) /\ MbrOnDisk
        /\ \A offset \in {1, Sectors(dev) - 1} :
              OnDisk(disk, TableWrite(gpt, dev, offset)) /\ OnDisk(disk, HeaderWrite(gpt, dev, offset))

(* What can be read of a disk that was not truncated *)
FoundInv ==
    layout.cut = 0 => \E s \in SectorSizes : \E offset \in {1, Sectors(s) - 1} :
        read_and_check_gpt(disk, offset, s).status =
            IF layout.parts = {} THEN EXIT_UNSUPPORTED ELSE 1

GptFixInv == LayoutInv /\ DiskInv /\ GptInv /\ QueueInv /\ ProgressInv /\ FoundInv

(* What led to the exit status of gptfix *)
Before(place) ==
    IF place = "new_primary" THEN {}
    ELSE IF place = "new_backup" THEN {"new_primary"}
    ELSE IF place = "old_primary" THEN {"new_primary", "new_backup"}
    ELSE {"new_primary", "new_backup", "old_primary"}
Bare == disk[0].kind # "protective" \/ layout.cut # 0

ExitInv ==
    /\ disk[0].t = "mbr"
    /\ pc \in Places => \A place \in Before(pc) :
          read_and_check_gpt(disk, OffsetAt(place), SizeAt(place)).status = 0
    /\ pc = "idle" /\ code \in {EXIT_NOT_PARTITIONED, EXIT_INVALID_GPT, EXIT_TRUNCATED} => Bare

(* While the qube is off there is at most a "gptfix check". *)
OffInv ==
    bpc = "off" => /\ nodes = {} /\ ~scan
                   /\ pc = "idle" \/ (mode = "check" /\ pc \in Places \cup {"mbr"})

(* The scripts *)
ScriptInv ==
    /\ OffInv
    /\ bpc \notin {"off", "gptfix"} => pc = "idle"
    /\ ROOT_DEV = Whole => bpc \in {"setup", "booted", "died"} /\ Bare
    /\ nodes \subseteq layout.parts
    /\ nodes # {} => ~scan
    /\ script = "simple" /\ bpc = "setup" => RootExists
    /\ bpc \in {"off", "xvda", "gptfix", "part1", "rootdev", "setup"} => setup = "none"
    /\ CowIfReadOnly

-----------------------------------------------------------------------------
(* Numbers *)

(* The two sector sizes, and the disk as a number of sectors               *)
(* (gpt.c:1010 checks the sizes).                                          *)
LEMMA SizeFacts ==
    ASSUME NEW s \in SectorSizes
    PROVE  /\ s \in Nat \ {0} /\ Sectors(s) \in Nat /\ Sectors(s) * s = Units
           /\ Sectors(s) >= 6 /\ Units \in Nat /\ Units >= 48 /\ Units % s = 0
           /\ Units % 8 = 0
  BY GptFixAssumption DEF SectorSizes, Small, Big, Sectors

(* Every set of natural numbers with an element has a least one; one with  *)
(* a bound has a greatest one.                                             *)
LEMMA LeastNat ==
    ASSUME NEW S \in SUBSET Nat, S # {}
    PROVE  \E x \in S : \A y \in S : x <= y
<1> DEFINE R == {ss \in Nat \X Nat : ss[1] < ss[2]}
<1>1. IsWellFoundedOn(R, Nat)
  BY NatLessThanWellFounded DEF OpToRel
<1>2. \A y, x \in Nat : <<y, x>> \in R <=> y < x
  OBVIOUS
<1> HIDE DEF R
<1>3. PICK x \in S : \A y \in S : ~(<<y, x>> \in R)
  BY <1>1, WFMin
<1>4. ASSUME NEW y \in S PROVE x <= y
  <2>1. x \in Nat /\ y \in Nat /\ ~(<<y, x>> \in R)
    BY <1>3, <1>4
  <2>2. ~(y < x)
    BY <1>2, <2>1, Zenon
  <2> QED
    BY <2>1, <2>2
<1> QED
  BY <1>4

(* A bounded set of numbers has a greatest element. *)
LEMMA GreatestNat ==
    ASSUME NEW S \in SUBSET Nat, S # {}, NEW b \in Nat, \A y \in S : y <= b
    PROVE  \E x \in S : \A y \in S : x >= y
<1> DEFINE T == {z \in Nat : b - z \in S}
<1>1. T \in SUBSET Nat /\ T # {}
  <2>1. PICK y \in S : TRUE
    OBVIOUS
  <2>2. b - y \in Nat /\ b - (b - y) = y
    BY <2>1
  <2> QED
    BY <2>1, <2>2
<1>2. \A y \in S : b - y \in T
  OBVIOUS
<1>3. \A z \in T : b - z \in S /\ z \in Nat
  OBVIOUS
<1> HIDE DEF T
<1>4. PICK z \in T : \A w \in T : z <= w
  BY <1>1, LeastNat
<1>5. b - z \in S /\ z \in Nat
  BY <1>3, <1>4
<1>6. ASSUME NEW y \in S PROVE b - z >= y
  BY <1>2, <1>4, <1>5, <1>6
<1> QED
  BY <1>5, <1>6

(* Min and Max are the bounds that their names promise. *)
LEMMA MinFacts ==
    ASSUME NEW S \in SUBSET Nat, S # {}
    PROVE  Min(S) \in S /\ \A y \in S : Min(S) <= y
<1>1. \E x \in S : \A y \in S : x =< y
  BY LeastNat
<1> QED
  BY <1>1 DEF Min

(* What Max() picks from a bounded set *)
LEMMA MaxFacts ==
    ASSUME NEW S \in SUBSET Nat, S # {}, NEW b \in Nat, \A y \in S : y <= b
    PROVE  Max(S) \in S /\ \A y \in S : Max(S) >= y
<1>1. \E x \in S : \A y \in S : x >= y
  BY GreatestNat
<1> QED
  BY <1>1 DEF Max

(* Min() and Max() of two numbers, which is how the code uses them *)
LEMMA MinOfTwo ==
    ASSUME NEW a \in Int, NEW b \in Int
    PROVE  Min({a, b}) = IF a <= b THEN a ELSE b
<1>1. \E x \in {a, b} : \A y \in {a, b} : x =< y
  OBVIOUS
<1> QED
  BY <1>1 DEF Min

(* The same for Max() *)
LEMMA MaxOfTwo ==
    ASSUME NEW a \in Int, NEW b \in Int
    PROVE  Max({a, b}) = IF a >= b THEN a ELSE b
<1>1. \E x \in {a, b} : \A y \in {a, b} : x >= y
  OBVIOUS
<1> QED
  BY <1>1 DEF Max

(* round_to_next_sector() (gpt.c:274): the next multiple.                  *)
LEMMA RoundUpFacts ==
    ASSUME NEW v \in Nat, NEW s \in SectorSizes
    PROVE  /\ RoundUp(v, s) \in Nat /\ RoundUp(v, s) >= v /\ RoundUp(v, s) < v + s
           /\ RoundUp(v, s) % s = 0 /\ (RoundUp(v, s) \div s) * s = RoundUp(v, s)
           /\ \A w \in Nat : w % s = 0 /\ w >= v => RoundUp(v, s) <= w
  BY DEF RoundUp, SectorSizes, Small, Big

(* Whole units for n entries (gpt.c:281) *)
LEMMA UnitsForFacts ==
    ASSUME NEW n \in Nat
    PROVE  /\ UnitsFor(n) \in Nat /\ UnitsFor(n) * 4 >= n
           /\ n > 0 => UnitsFor(n) > 0
           /\ \A m \in Nat : n <= m * 4 => UnitsFor(n) <= m
           /\ \A i \in Nat : i < n => i \div 4 < UnitsFor(n)
  BY DEF UnitsFor, RoundUp, PerUnit

(* gpt_partition_table_required_bytes() (gpt.c:281): room for n entries,   *)
(* in whole sectors.                                                       *)
LEMMA RequiredFacts ==
    ASSUME NEW n \in Nat, NEW s \in SectorSizes
    PROVE  /\ RequiredUnits(n, s) \in Nat /\ RequiredUnits(n, s) % s = 0
           /\ RequiredUnits(n, s) >= UnitsFor(n)
           /\ (RequiredUnits(n, s) \div s) * s = RequiredUnits(n, s)
           /\ n > 0 => RequiredUnits(n, s) >= s
           /\ \A m \in Nat : m % s = 0 /\ n <= m * 4 => RequiredUnits(n, s) <= m
<1>1. UnitsFor(n) \in Nat /\ (n > 0 => UnitsFor(n) > 0)
      /\ \A m \in Nat : n <= m * 4 => UnitsFor(n) <= m
  BY UnitsForFacts
<1> DEFINE u == UnitsFor(n)
<1>2. /\ RoundUp(u, s) \in Nat /\ RoundUp(u, s) >= u
      /\ RoundUp(u, s) % s = 0 /\ (RoundUp(u, s) \div s) * s = RoundUp(u, s)
      /\ \A w \in Nat : w % s = 0 /\ w >= u => RoundUp(u, s) <= w
  BY <1>1, RoundUpFacts
<1>3. u > 0 => RoundUp(u, s) >= s
  BY <1>1 DEF RoundUp, SectorSizes, Small, Big
<1> QED
  BY <1>1, <1>2, <1>3 DEF RequiredUnits

-----------------------------------------------------------------------------
(* Partitions *)

LEMMA LayoutFacts ==
    ASSUME LayoutInv
    PROVE  /\ layout.n \in Nat \ {0} /\ layout.cut \in Nat /\ layout.cut % 8 = 0
           /\ \A e \in layout.parts :
                 /\ e \in [slot : 0..(layout.n - 1), from : Nat, to : Nat]
                 /\ e.slot \in Nat /\ e.slot < layout.n
                 /\ e.from \in Nat /\ e.to \in Nat /\ e.from < e.to
<1>1. /\ layout.n \in Nat \ {0} /\ layout.cut \in Nat /\ layout.cut % 8 = 0
      /\ layout.parts \subseteq [slot : 0..(layout.n - 1), from : Nat, to : Nat]
      /\ \A e \in layout.parts : e.from < e.to
  BY GptFixAssumption DEF LayoutInv
<1> QED
  BY <1>1

(* An extent survives being written into an entry for a sector size that   *)
(* divides it, and read again (gpt.c:327-345).                             *)
LEMMA EntryFacts ==
    ASSUME LayoutInv, NEW s \in SectorSizes, NEW e \in layout.parts,
           e.from % s = 0, e.to % s = 0
    PROVE  /\ Entry(e, s).slot = e.slot
           /\ Entry(e, s).StartingLBA \in Nat /\ Entry(e, s).EndingLBA \in Nat
           /\ Start(Entry(e, s), s) = e.from /\ End(Entry(e, s), s) = e.to
           /\ Extent(Entry(e, s), s) = e
<1>1. /\ e \in [slot : 0..(layout.n - 1), from : Nat, to : Nat]
      /\ e.slot \in Nat /\ e.from \in Nat /\ e.to \in Nat /\ e.from < e.to
  BY LayoutFacts
<1>2. e = [slot |-> e.slot, from |-> e.from, to |-> e.to]
  BY <1>1
<1>3. (e.from \div s) * s = e.from /\ (e.to \div s) * s = e.to
      /\ e.from \div s \in Nat /\ e.to \div s \in Nat /\ e.to \div s > 0
  BY <1>1 DEF SectorSizes, Small, Big
<1> HIDE <1>1
<1>4. /\ Entry(e, s).slot = e.slot /\ Entry(e, s).StartingLBA = e.from \div s
      /\ Entry(e, s).EndingLBA = e.to \div s - 1
  BY DEF Entry
<1>5. Entry(e, s).EndingLBA + 1 = e.to \div s /\ Entry(e, s).EndingLBA \in Nat
  BY <1>3, <1>4
<1>6. Start(Entry(e, s), s) = e.from /\ End(Entry(e, s), s) = e.to
  BY <1>3, <1>4, <1>5 DEF Start, End
<1> QED
  BY <1>2, <1>3, <1>4, <1>5, <1>6 DEF Extent

(* The partitions of a table that was read begin at FirstStart, end at     *)
(* LastEnd, and use used_entries of its entries (gpt.c:312-361).           *)
LEMMA GptFacts ==
    ASSUME LayoutInv, NEW s \in SectorSizes, NEW g, GoodGpt(g, s)
    PROVE  /\ Aligned(s)
           /\ FirstStart(g) \in Nat /\ FirstStart(g) % s = 0
           /\ \A e \in layout.parts : FirstStart(g) <= e.from
           /\ LastEnd(g) \in Nat /\ LastEnd(g) % s = 0
           /\ \A e \in layout.parts : LastEnd(g) >= e.to
           /\ used_entries(g) \in Nat \ {0}
           /\ used_entries(g) <= g.header.NumberOfPartitionEntries
           /\ \A e \in layout.parts : e.slot < used_entries(g)
           /\ FirstStart(g) < LastEnd(g)
           /\ g.header.FirstUsableLBA \in Nat /\ g.header.LastUsableLBA \in Nat
           /\ g.header.FirstUsableLBA >= 3
           /\ g.header.FirstUsableLBA * s <= FirstStart(g)
           /\ LastEnd(g) <= (g.header.LastUsableLBA + 1) * s
           /\ (g.header.LastUsableLBA + 1) * s + s <= Units
           /\ \E e \in layout.parts : e.from = FirstStart(g)
           /\ \E e \in layout.parts : e.to = LastEnd(g)
<1> DEFINE h == g.header
<1>1. PICK offset \in {1, Sectors(s) - 1} :
          GoodHeader(h, offset * s, s) /\ check_gpt_header(h, offset, s) = 1
  BY DEF GoodGpt
<1>s. s \in {1, 8} /\ s \in Nat /\ Sectors(s) \in Nat /\ Sectors(s) * s = Units
      /\ Sectors(s) >= 6 /\ Units \in Nat
  BY SizeFacts DEF SectorSizes, Small, Big
<1>2. /\ h.MyLBA * s = offset * s /\ h.MyLBA \in Nat /\ h.AlternateLBA \in Nat
      /\ h.FirstUsableLBA \in Int /\ h.LastUsableLBA \in Int /\ h.PartitionEntryLBA \in Int
      /\ h.NumberOfPartitionEntries \in Nat
      /\ Aligned(s) /\ \A e \in layout.parts : e.slot < h.NumberOfPartitionEntries
  BY <1>1 DEF GoodHeader
<1>3. h.FirstUsableLBA >= 3 /\ h.LastUsableLBA >= h.FirstUsableLBA
  BY <1>1, <1>2 DEF check_gpt_header, EXIT_TRUNCATED
<1>4. h.LastUsableLBA + 1 <= Sectors(s) - 1
  <2>1. CASE offset = 1
    BY <1>1, <1>2, <1>s, <2>1 DEF check_gpt_header, EXIT_TRUNCATED
  <2>2. CASE offset # 1
    <3>1. offset = Sectors(s) - 1
      BY <1>1, <2>2
    <3>2. h.MyLBA = Sectors(s) - 1
      BY <1>2, <1>s, <3>1
    <3>3. h.LastUsableLBA < h.PartitionEntryLBA /\ h.PartitionEntryLBA < h.MyLBA
      BY <1>1, <1>2, <2>2 DEF check_gpt_header, EXIT_TRUNCATED
    <3> QED
      BY <1>2, <1>s, <3>2, <3>3
  <2> QED
    BY <2>1, <2>2
<1>5. (h.LastUsableLBA + 1) * s + s <= Units
  BY <1>2, <1>4, <1>s
<1>6. ASSUME NEW p \in g.entries
      PROVE  \E e \in layout.parts :
                /\ p.slot = e.slot /\ Start(p, g.sector_size) = e.from
                /\ End(p, g.sector_size) = e.to
                /\ e.from \in Nat /\ e.to \in Nat /\ e.slot \in Nat
                /\ h.FirstUsableLBA * s <= e.from /\ e.to <= (h.LastUsableLBA + 1) * s
  <2>1. PICK e \in layout.parts : p = Entry(e, s)
    BY <1>6 DEF GoodGpt, EntriesFor
  <2>2. /\ p.slot = e.slot /\ Start(p, s) = e.from /\ End(p, s) = e.to
        /\ p.StartingLBA \in Nat /\ p.EndingLBA \in Nat
    BY <1>2, <2>1, EntryFacts DEF Aligned
  <2>3. p.StartingLBA >= h.FirstUsableLBA /\ p.EndingLBA <= h.LastUsableLBA
    BY <1>6 DEF GoodGpt
  <2>4. h.FirstUsableLBA * s <= Start(p, s) /\ End(p, s) <= (h.LastUsableLBA + 1) * s
    BY <1>2, <1>s, <2>2, <2>3 DEF Start, End
  <2> QED
    BY <2>1, <2>2, <2>4, LayoutFacts DEF GoodGpt
<1>7. ASSUME NEW e \in layout.parts
      PROVE  \E p \in g.entries : p.slot = e.slot /\ Start(p, g.sector_size) = e.from
                                  /\ End(p, g.sector_size) = e.to
  <2>1. Entry(e, s) \in g.entries
    BY DEF GoodGpt, EntriesFor
  <2> QED
    BY <1>2, <2>1, EntryFacts DEF Aligned, GoodGpt
<1>8. PICK p0 \in g.entries : TRUE
  BY <1>7 DEF GoodGpt
<1> DEFINE S == {Start(p, g.sector_size) : p \in g.entries}
           E == {End(p, g.sector_size) : p \in g.entries}
           L == {p.slot : p \in g.entries}
<1>9. FirstStart(g) \in S /\ \A y \in S : FirstStart(g) <= y
  <2>1. S \in SUBSET Nat /\ S # {}
    BY <1>6, <1>8
  <2> HIDE DEF S
  <2>2. Min(S) \in S /\ \A y \in S : Min(S) <= y
    BY <2>1, MinFacts
  <2> QED
    BY <2>2 DEF FirstStart, S
<1>10. LastEnd(g) \in E /\ \A y \in E : LastEnd(g) >= y
  <2>1. E \in SUBSET Nat /\ E # {} /\ \A y \in E : y <= (h.LastUsableLBA + 1) * s
    BY <1>6, <1>8
  <2>2. (h.LastUsableLBA + 1) * s \in Nat
    BY <1>2, <1>3, <1>s
  <2> HIDE DEF E
  <2>3. Max(E) \in E /\ \A y \in E : Max(E) >= y
    BY <2>1, <2>2, MaxFacts
  <2> QED
    BY <2>3 DEF LastEnd, E
<1>11. Max(L) \in L /\ \A y \in L : Max(L) >= y
  <2>1. L \in SUBSET Nat /\ L # {} /\ \A y \in L : y <= h.NumberOfPartitionEntries
    BY <1>2, <1>6, <1>8
  <2> HIDE DEF L
  <2> QED
    BY <1>2, <2>1, MaxFacts
<1>12. used_entries(g) = Max(L) + 1
  BY DEF used_entries
<1>13. PICK e1 \in layout.parts : /\ FirstStart(g) = e1.from /\ e1.from \in Nat
                                  /\ h.FirstUsableLBA * s <= e1.from
  BY <1>6, <1>9
<1>14. PICK e2 \in layout.parts : /\ LastEnd(g) = e2.to /\ e2.to \in Nat
                                  /\ e2.to <= (h.LastUsableLBA + 1) * s
  BY <1>6, <1>10
<1>15. PICK e3 \in layout.parts : Max(L) = e3.slot /\ e3.slot \in Nat
  <2> DEFINE m == Max(L)
  <2>1. m \in L
    BY <1>11
  <2> HIDE DEF m
  <2>2. PICK p \in g.entries : m = p.slot
    BY <2>1
  <2>3. PICK e \in layout.parts : p.slot = e.slot /\ e.slot \in Nat
    BY <1>6
  <2>4. m = e.slot
    BY <2>2, <2>3
  <2> QED
    BY <2>3, <2>4, Zenon DEF m
<1>16. ASSUME NEW e \in layout.parts
       PROVE  FirstStart(g) <= e.from /\ LastEnd(g) >= e.to /\ Max(L) >= e.slot
  BY <1>7, <1>9, <1>10, <1>11
<1> HIDE DEF S, E, L
<1>17. FirstStart(g) % s = 0 /\ LastEnd(g) % s = 0
  BY <1>2, <1>13, <1>14 DEF Aligned
<1>18. FirstStart(g) < LastEnd(g)
  <2>1. e1.from < e1.to /\ e1.to \in Nat
    BY LayoutFacts
  <2> QED
    BY <1>13, <1>14, <1>16, <2>1
<1>19. used_entries(g) \in Nat \ {0} /\ used_entries(g) <= h.NumberOfPartitionEntries
       /\ \A e \in layout.parts : e.slot < used_entries(g)
  BY <1>2, <1>12, <1>15, <1>16, LayoutFacts
<1> QED
  BY <1>2, <1>3, <1>5, <1>13, <1>14, <1>16, <1>17, <1>18, <1>19

-----------------------------------------------------------------------------
(* Reading *)

LEMMA HeaderUnitFacts ==
    ASSUME NEW s \in SectorSizes, NEW offset \in {1, Sectors(s) - 1}
    PROVE  /\ offset \in Nat /\ offset * s \in HeaderUnits(s)
           /\ offset * s \in 0..(Units - 1)
           /\ offset < Sectors(s) /\ (offset # 1 => offset >= 5)
           /\ HeaderUnits(s) = {s, (Sectors(s) - 1) * s}
<1>1. s \in {1, 8} /\ Sectors(s) \in Nat /\ Sectors(s) * s = Units
      /\ Sectors(s) >= 6 /\ Units \in Nat
  BY SizeFacts DEF SectorSizes, Small, Big
<1>2. (Sectors(s) - 1) * s = Units - s
  BY <1>1
<1> QED
  BY <1>1, <1>2 DEF HeaderUnits

(* What read_and_check_gpt() (gpt.c:648) accepts: a header that passes the *)
(* check, the array it was computed over, and at least one partition.      *)
Accepts(d, offset, s) ==
    LET h == d[offset * s] IN
    /\ ~(offset >= Sectors(s)) /\ ~(offset # 1 /\ offset < 5) /\ h.t = "hdr"
    /\ check_gpt_header(h, offset, s) = 1
    /\ [i \in DOMAIN h.crc |-> d[h.PartitionEntryLBA * s + i]] = h.crc
    /\ ~(\E p \in Listed(h) : \/ p.StartingLBA < h.FirstUsableLBA
                              \/ p.EndingLBA > h.LastUsableLBA)
    /\ Listed(h) # {}

(* read_and_check_gpt() reports success exactly if every check passes. *)
LEMMA ReadAccepts ==
    ASSUME NEW d, NEW s, NEW offset
    PROVE  /\ read_and_check_gpt(d, offset, s).status = 1 <=> Accepts(d, offset, s)
           /\ Accepts(d, offset, s) =>
                read_and_check_gpt(d, offset, s) =
                    [status |-> 1, sector_size |-> s, header |-> d[offset * s],
                     entries |-> Listed(d[offset * s])]
<1> DEFINE h == d[offset * s]
           g == read_and_check_gpt(d, offset, s)
           c == check_gpt_header(h, offset, s)
           array == [i \in DOMAIN h.crc |-> d[h.PartitionEntryLBA * s + i]]
           A == offset >= Sectors(s) \/ (offset # 1 /\ offset < 5) \/ h.t # "hdr"
           B == \/ array # h.crc
                \/ \E p \in Listed(h) : \/ p.StartingLBA < h.FirstUsableLBA
                                        \/ p.EndingLBA > h.LastUsableLBA
           good == [status |-> 1, sector_size |-> s, header |-> h, entries |-> Listed(h)]
<1>1. NoGpt.status = 0 /\ \A x : [NoGpt EXCEPT !.status = x].status = x
  BY DEF NoGpt
<1>2. g = IF A THEN NoGpt
          ELSE IF c # 1 THEN [NoGpt EXCEPT !.status = c]
          ELSE IF B THEN NoGpt
          ELSE IF Listed(h) = {} THEN [NoGpt EXCEPT !.status = EXIT_UNSUPPORTED]
          ELSE good
  BY Zenon DEF read_and_check_gpt, Listed
<1>3. EXIT_UNSUPPORTED # 1 /\ good.status = 1
  BY DEF EXIT_UNSUPPORTED
<1>4. Accepts(d, offset, s) <=> ~A /\ c = 1 /\ ~B /\ Listed(h) # {}
  BY Zenon DEF Accepts
<1> HIDE DEF A, B, c, g, good
<1>5. /\ g.status = 1 <=> Accepts(d, offset, s)
      /\ Accepts(d, offset, s) => g = good
  BY <1>1, <1>2, <1>3, <1>4
<1> QED
  BY <1>5 DEF g, good

(* A table that read_and_check_gpt() accepts from a disk all of whose      *)
(* headers are right is the table of the layout.                           *)
LEMMA ReadFacts ==
    ASSUME LayoutInv, HeadersInv, NEW s \in SectorSizes,
           NEW offset \in {1, Sectors(s) - 1},
           read_and_check_gpt(disk, offset, s).status = 1
    PROVE  GoodGpt(read_and_check_gpt(disk, offset, s), s)
<1> DEFINE h == disk[offset * s]
           g == read_and_check_gpt(disk, offset, s)
<1>1. Accepts(disk, offset, s)
  BY ReadAccepts
<1>2. /\ h.t = "hdr" /\ check_gpt_header(h, offset, s) = 1
      /\ ~(\E p \in Listed(h) : \/ p.StartingLBA < h.FirstUsableLBA
                                \/ p.EndingLBA > h.LastUsableLBA)
      /\ Listed(h) # {}
      /\ g = [status |-> 1, sector_size |-> s, header |-> h, entries |-> Listed(h)]
  <2>1. g = [status |-> 1, sector_size |-> s, header |-> h, entries |-> Listed(h)]
    BY <1>1, ReadAccepts
  <2> QED
    BY <1>1, <2>1, Zenon DEF Accepts
<1>3. GoodHeader(h, offset * s, s)
  BY <1>2, HeaderUnitFacts DEF HeadersInv
<1>4. Listed(h) = EntriesFor(s) /\ layout.parts # {}
  BY <1>2, <1>3 DEF GoodHeader, EntriesFor
<1>5. /\ g.status = 1 /\ g.sector_size = s /\ g.header = h /\ g.entries = Listed(h)
  BY <1>2
<1>6. ASSUME NEW p \in Listed(h)
      PROVE  p.StartingLBA >= h.FirstUsableLBA /\ p.EndingLBA <= h.LastUsableLBA
  <2>1. PICK e \in layout.parts : p = Entry(e, s)
    BY <1>4, <1>6 DEF EntriesFor
  <2>2. p.StartingLBA \in Nat /\ p.EndingLBA \in Nat
    BY <1>3, <2>1, EntryFacts DEF GoodHeader, Aligned
  <2>3. h.FirstUsableLBA \in Int /\ h.LastUsableLBA \in Int
    BY <1>3 DEF GoodHeader
  <2> QED
    BY <1>2, <2>2, <2>3
<1> HIDE DEF g, h
<1> QED
  BY <1>2, <1>3, <1>4, <1>5, <1>6 DEF GoodGpt, g

(* The extents that a good table describes are those of the layout. *)
LEMMA GoodGptIsRight ==
    ASSUME LayoutInv, NEW s \in SectorSizes, NEW g, GoodGpt(g, s)
    PROVE  Extents(g) = layout.parts
<1>1. Aligned(s) /\ g.sector_size = s /\ g.entries = {Entry(e, s) : e \in layout.parts}
  BY DEF GoodGpt, GoodHeader, EntriesFor
<1>2. \A e \in layout.parts : Extent(Entry(e, s), s) = e
  BY <1>1, EntryFacts DEF Aligned
<1> QED
  BY <1>1, <1>2 DEF Extents

-----------------------------------------------------------------------------
(* The new table *)

(* The number of entries kept and the room for them, when nothing stands   *)
(* in the way: all used entries are kept, and the table fits in front of   *)
(* and behind the partitions (gpt.c:363-385).                              *)
LEMMA NewEntriesFacts ==
    ASSUME LayoutInv, NEW s0 \in SectorSizes, NEW g, GoodGpt(g, s0),
           NEW s \in SectorSizes, ~Constraint(g, s)
    PROVE  /\ Aligned(s)
           /\ FirstStart(g) % s = 0 /\ LastEnd(g) % s = 0
           /\ max_partition_entries(g, s) \in Nat
           /\ max_partition_entries(g, s) >= used_entries(g)
           /\ new_entries(g, s) \in Nat \ {0}
           /\ new_entries(g, s) >= used_entries(g)
           /\ RequiredUnits(new_entries(g, s), s) \in Nat
           /\ RequiredUnits(new_entries(g, s), s) >= s
           /\ RequiredUnits(new_entries(g, s), s) % s = 0
           /\ RequiredUnits(new_entries(g, s), s) <= Units - s - LastEnd(g)
           /\ RequiredUnits(new_entries(g, s), s) + 2 * s <= FirstStart(g)
<1>s. s \in {1, 8} /\ Units \in Nat /\ Units % s = 0
  BY SizeFacts DEF SectorSizes, Small, Big
<1> DEFINE used == used_entries(g)
           N == g.header.NumberOfPartitionEntries
           F == FirstStart(g)
           L == LastEnd(g)
           M == Min({Units - s - L, F - 2 * s})
<1>1. /\ F \in Nat /\ L \in Nat /\ used \in Nat \ {0} /\ used <= N /\ L <= Units /\ N \in Nat
      /\ Aligned(s0)
  <2>1. N \in Nat
    BY DEF GoodGpt, GoodHeader
  <2>2. g.header.LastUsableLBA \in Nat /\ s0 \in Nat
    BY GptFacts, SizeFacts
  <2>3. (g.header.LastUsableLBA + 1) * s0 \in Nat
    BY <2>2
  <2> QED
    BY <1>s, <2>1, <2>2, <2>3, GptFacts
<1>2. ASSUME NEW e \in layout.parts PROVE e.from % s = 0 /\ e.to % s = 0
  <2>1. Entry(e, s0) \in g.entries /\ g.sector_size = s0
    BY DEF GoodGpt, EntriesFor
  <2>2. Start(Entry(e, s0), s0) = e.from /\ End(Entry(e, s0), s0) = e.to
    BY <1>1, EntryFacts DEF Aligned
  <2> QED
    BY <2>1, <2>2 DEF Constraint
<1>3. Aligned(s) /\ F % s = 0 /\ L % s = 0
  <2>1. Aligned(s)
    BY <1>2 DEF Aligned
  <2>2. (\E e \in layout.parts : e.from = F) /\ (\E e \in layout.parts : e.to = L)
    BY GptFacts
  <2> QED
    BY <1>2, <2>1, <2>2
<1>4. Units - L >= RequiredUnits(used, s) + s /\ RequiredUnits(used, s) + 2 * s <= F
  <2>1. RequiredUnits(used, s) \in Nat
    BY <1>1, RequiredFacts
  <2>2. /\ ~(Units - L < RequiredUnits(used, s) + s)
        /\ ~(RequiredUnits(used, s) + 2 * s > F)
    BY DEF Constraint
  <2> HIDE DEF used, F, L
  <2> QED
    BY <1>1, <1>s, <2>1, <2>2
<1>5. RequiredUnits(used, s) \in Nat /\ RequiredUnits(used, s) * 4 >= used
  <2>1. RequiredUnits(used, s) >= UnitsFor(used) /\ RequiredUnits(used, s) \in Nat
        /\ UnitsFor(used) \in Nat /\ UnitsFor(used) * 4 >= used
    BY <1>1, RequiredFacts, UnitsForFacts
  <2> HIDE DEF used
  <2> QED
    BY <1>1, <2>1
<1>6. M = IF Units - s - L <= F - 2 * s THEN Units - s - L ELSE F - 2 * s
  <2>1. Units - s - L \in Int /\ F - 2 * s \in Int
    BY <1>1, <1>s
  <2> QED
    BY <2>1, MinOfTwo
<1>7. /\ M \in Nat /\ M % s = 0 /\ M * 4 >= used
      /\ M <= Units - s - L /\ M + 2 * s <= F
  <2> HIDE DEF M, F, L, used
  <2> QED
    BY <1>1, <1>3, <1>4, <1>5, <1>6, <1>s
<1>8. max_partition_entries(g, s) = M * 4
  BY DEF max_partition_entries, PerUnit
<1>9. new_entries(g, s) = IF M * 4 <= N THEN M * 4 ELSE N
  <2>1. M * 4 \in Int /\ N \in Int
    BY <1>1, <1>7
  <2> QED
    BY <1>8, <2>1, MinOfTwo, Zenon DEF new_entries
<1> HIDE DEF M, F, L, used, N
<1>10. new_entries(g, s) \in Nat \ {0} /\ new_entries(g, s) >= used
       /\ new_entries(g, s) <= M * 4
  BY <1>1, <1>7, <1>9
<1> DEFINE n == new_entries(g, s)
<1> HIDE DEF n
<1>11. /\ RequiredUnits(n, s) \in Nat /\ RequiredUnits(n, s) >= s
       /\ RequiredUnits(n, s) % s = 0 /\ RequiredUnits(n, s) <= M
  <2>1. n \in Nat /\ n > 0 /\ n <= M * 4
    BY <1>10 DEF n
  <2> QED
    BY <1>7, <2>1, RequiredFacts
<1>12. RequiredUnits(n, s) <= Units - s - L /\ RequiredUnits(n, s) + 2 * s <= F
  BY <1>1, <1>7, <1>11, <1>s
<1> QED
  BY <1>3, <1>7, <1>8, <1>10, <1>11, <1>12 DEF n, F, L, used

(* Every partition is listed again, for the new size (gpt.c:389-409).      *)
LEMMA NewArrayFacts ==
    ASSUME LayoutInv, NEW s0 \in SectorSizes, NEW g, GoodGpt(g, s0),
           NEW s \in SectorSizes, ~Constraint(g, s)
    PROVE  /\ new_array(g, s) = EntriesFor(s)
           /\ \A p \in new_array(g, s) : p.slot \in Nat /\ p.slot < new_entries(g, s)
<1>1. /\ Aligned(s0) /\ g.sector_size = s0 /\ g.entries = {Entry(e, s0) : e \in layout.parts}
      /\ \A e \in layout.parts : e.slot < used_entries(g) /\ used_entries(g) \in Nat
  BY GptFacts DEF GoodGpt, EntriesFor
<1>2. new_entries(g, s) >= used_entries(g) /\ new_entries(g, s) \in Nat
  BY NewEntriesFacts
<1>3. ASSUME NEW e \in layout.parts
      PROVE  /\ Entry(e, s0).slot < new_entries(g, s) /\ Extent(Entry(e, s0), s0) = e
             /\ e.slot \in Nat /\ e.slot < new_entries(g, s)
  <2>1. Entry(e, s0).slot = e.slot /\ Extent(Entry(e, s0), s0) = e
    BY <1>1, EntryFacts DEF Aligned
  <2>2. e.slot \in Nat /\ e.slot < used_entries(g)
    BY <1>1, LayoutFacts
  <2> QED
    BY <1>1, <1>2, <2>1, <2>2
<1>4. new_array(g, s) = EntriesFor(s)
  BY <1>1, <1>3 DEF new_array, EntriesFor
<1>5. ASSUME NEW p \in new_array(g, s) PROVE p.slot \in Nat /\ p.slot < new_entries(g, s)
  <2>1. PICK e \in layout.parts : p = Entry(e, s)
    BY <1>4, <1>5 DEF EntriesFor
  <2>2. p.slot = e.slot
    BY <2>1 DEF Entry
  <2> QED
    BY <1>3, <2>2
<1> QED
  BY <1>4, <1>5

(* An array of n entries lists what was put into it. *)
LEMMA EntryArrayFacts ==
    ASSUME NEW ps, NEW n \in Nat, \A p \in ps : p.slot \in Nat /\ p.slot < n
    PROVE  /\ DOMAIN EntryArray(ps, n) = 0..(UnitsFor(n) - 1)
           /\ UNION {EntryArray(ps, n)[i].ps : i \in DOMAIN EntryArray(ps, n)} = ps
<1> DEFINE A == EntryArray(ps, n)
<1>1. DOMAIN A = 0..(UnitsFor(n) - 1)
  BY DEF EntryArray
<1>2. ASSUME NEW i \in 0..(UnitsFor(n) - 1)
      PROVE  A[i].ps = {p \in ps : p.slot \div 4 = i}
  BY DEF EntryArray, Chunk, Ent, PerUnit
<1>3. ASSUME NEW p \in ps PROVE p.slot \div 4 \in 0..(UnitsFor(n) - 1)
  <2>1. p.slot \in Nat /\ p.slot < n
    OBVIOUS
  <2>2. p.slot \div 4 < UnitsFor(n) /\ UnitsFor(n) \in Nat
    BY <2>1, UnitsForFacts
  <2>3. p.slot \div 4 \in Nat
    BY <2>1
  <2> QED
    BY <2>2, <2>3
<1> HIDE DEF A
<1>4. UNION {A[i].ps : i \in DOMAIN A} = ps
  <2>1. ASSUME NEW p \in ps PROVE p \in UNION {A[i].ps : i \in DOMAIN A}
    <3>1. p \in A[p.slot \div 4].ps /\ p.slot \div 4 \in DOMAIN A
      BY <1>1, <1>2, <1>3
    <3> QED
      BY <3>1
  <2>2. ASSUME NEW i \in DOMAIN A PROVE A[i].ps \subseteq ps
    BY <1>1, <1>2
  <2> QED
    BY <2>1, <2>2
<1> QED
  BY <1>1, <1>4 DEF A

(* The header that gpt_adjust_sectors() computes: its table fits between   *)
(* it and the partitions, and the usable sectors cover them                *)
(* (gpt.c:363-430).                                                        *)
LEMMA NewHeaderFields ==
    ASSUME LayoutInv, NEW s0 \in SectorSizes, NEW g, GoodGpt(g, s0),
           NEW s \in SectorSizes, ~Constraint(g, s),
           NEW offset \in {1, Sectors(s) - 1}, NEW h, h = new_header(g, s, offset),
           NEW T, T = RequiredUnits(new_entries(g, s), s)
    PROVE  /\ h.t = "hdr" /\ h.MyLBA = offset
           /\ h.AlternateLBA = IF offset = 1 THEN Sectors(s) - 1 ELSE 1
           /\ h.NumberOfPartitionEntries = new_entries(g, s)
           /\ h.crc = EntryArray(new_array(g, s), new_entries(g, s))
           /\ h.PartitionEntryLBA \in Nat
           /\ h.PartitionEntryLBA = IF offset = 1 THEN 2 ELSE Sectors(s) - 1 - T \div s
           /\ h.PartitionEntryLBA * s = IF offset = 1 THEN 2 * s ELSE Units - s - T
           /\ h.FirstUsableLBA \in Nat
           /\ h.FirstUsableLBA * s >= T + 2 * s /\ h.FirstUsableLBA * s <= FirstStart(g)
           /\ h.LastUsableLBA \in Int
           /\ (h.LastUsableLBA + 1) * s >= LastEnd(g)
           /\ (h.LastUsableLBA + 1) * s <= Units - s - T
<1>s. s \in {1, 8} /\ Units \in Nat /\ Units % s = 0 /\ Sectors(s) \in Nat
      /\ Sectors(s) * s = Units /\ Sectors(s) >= 6 /\ s0 \in Nat
  BY SizeFacts DEF SectorSizes, Small, Big
<1> DEFINE F == FirstStart(g)
           L == LastEnd(g)
           a == g.header.FirstUsableLBA * s0
           b == (g.header.LastUsableLBA + 1) * s0
           fu == Max({a, T + 2 * s})
           lu == Min({b, Units - (T + s)})
<1>1. /\ F \in Nat /\ L \in Nat /\ F % s = 0 /\ L % s = 0
      /\ T \in Nat /\ T % s = 0 /\ T >= s /\ T <= Units - s - L /\ T + 2 * s <= F
  BY GptFacts, NewEntriesFacts
<1>2. a \in Nat /\ b \in Nat /\ a <= F /\ L <= b
  <2>1. g.header.FirstUsableLBA \in Nat /\ g.header.LastUsableLBA \in Nat
    BY GptFacts
  <2>2. a <= F /\ L <= b
    BY GptFacts
  <2> QED
    BY <1>s, <2>1, <2>2
<1>3. g.sector_size = s0
  BY DEF GoodGpt
<1>4. /\ h.t = "hdr" /\ h.MyLBA = offset
      /\ h.AlternateLBA = IF offset = 1 THEN Sectors(s) - 1 ELSE 1
      /\ h.NumberOfPartitionEntries = new_entries(g, s)
      /\ h.crc = EntryArray(new_array(g, s), new_entries(g, s))
      /\ h.PartitionEntryLBA = IF offset = 1 THEN 2 ELSE Sectors(s) - 1 - T \div s
      /\ h.FirstUsableLBA = RoundUp(fu, s) \div s
      /\ h.LastUsableLBA = lu \div s - 1
  BY <1>3 DEF new_header, GPTHeader
<1> HIDE DEF a, b, F, L
<1>5. fu = IF a >= T + 2 * s THEN a ELSE T + 2 * s
  <2>1. a \in Int /\ T + 2 * s \in Int
    BY <1>1, <1>2, <1>s
  <2> QED
    BY <2>1, MaxOfTwo
<1>6. lu = IF b <= Units - (T + s) THEN b ELSE Units - (T + s)
  <2>1. b \in Int /\ Units - (T + s) \in Int
    BY <1>1, <1>2, <1>s
  <2> QED
    BY <2>1, MinOfTwo
<1> HIDE DEF fu, lu
<1>7. fu \in Nat /\ fu <= F /\ fu >= T + 2 * s
  BY <1>1, <1>2, <1>5, <1>s
<1>8. RoundUp(fu, s) \in Nat /\ RoundUp(fu, s) >= fu /\ RoundUp(fu, s) <= F
      /\ (RoundUp(fu, s) \div s) * s = RoundUp(fu, s)
  BY <1>1, <1>7, RoundUpFacts
<1>9. lu \in Nat /\ lu >= L /\ lu <= Units - s - T
  BY <1>1, <1>2, <1>6, <1>s
<1>10. (lu \div s) * s <= Units - s - T /\ (lu \div s) * s >= L /\ lu \div s \in Nat
  BY <1>1, <1>9, <1>s
<1>11. /\ RoundUp(fu, s) \div s \in Nat
  BY <1>8, <1>s
<1>12. (Sectors(s) - 1 - T \div s) * s = Units - s - T /\ Sectors(s) - 1 - T \div s \in Nat
  BY <1>1, <1>s
<1>13. h.PartitionEntryLBA * s = IF offset = 1 THEN 2 * s ELSE Units - s - T
  BY <1>4, <1>12
<1>14. h.LastUsableLBA + 1 = lu \div s /\ h.LastUsableLBA \in Int
  BY <1>4, <1>10
<1>15. h.PartitionEntryLBA \in Nat
  BY <1>4, <1>12
<1>16. h.FirstUsableLBA * s >= T + 2 * s /\ h.FirstUsableLBA * s <= F
  <2>1. h.FirstUsableLBA * s = RoundUp(fu, s)
    BY <1>4, <1>8
  <2> DEFINE r == RoundUp(fu, s)
  <2> HIDE DEF r
  <2>2. h.FirstUsableLBA * s = r /\ r \in Nat /\ r >= fu /\ r <= F
    BY <1>8, <2>1 DEF r
  <2> QED
    BY <1>1, <1>7, <2>2, <1>s
<1> QED
  BY <1>4, <1>10, <1>11, <1>13, <1>14, <1>15, <1>16 DEF F, L

(* The new headers list the partitions and pass the program's own check    *)
(* (gpt.c:411, 789).                                                       *)
LEMMA NewHeaderFacts ==
    ASSUME LayoutInv, NEW s0 \in SectorSizes, NEW g, GoodGpt(g, s0),
           NEW s \in SectorSizes, ~Constraint(g, s),
           NEW offset \in {1, Sectors(s) - 1}
    PROVE  /\ GoodHeader(new_header(g, s, offset), offset * s, s)
           /\ check_gpt_header(new_header(g, s, offset), offset, s) = 1
           /\ \A p \in EntriesFor(s) :
                 /\ p.StartingLBA >= new_header(g, s, offset).FirstUsableLBA
                 /\ p.EndingLBA <= new_header(g, s, offset).LastUsableLBA
<1>s. s \in {1, 8} /\ Units \in Nat /\ Sectors(s) \in Nat
      /\ Sectors(s) * s = Units /\ Sectors(s) >= 6
  BY SizeFacts DEF SectorSizes, Small, Big
<1> DEFINE n == new_entries(g, s)
           T == RequiredUnits(n, s)
           h == new_header(g, s, offset)
<1>1. /\ h.t = "hdr" /\ h.MyLBA = offset
      /\ h.AlternateLBA = IF offset = 1 THEN Sectors(s) - 1 ELSE 1
      /\ h.NumberOfPartitionEntries = n
      /\ h.crc = EntryArray(new_array(g, s), n)
      /\ h.PartitionEntryLBA \in Nat
      /\ h.PartitionEntryLBA = IF offset = 1 THEN 2 ELSE Sectors(s) - 1 - T \div s
      /\ h.PartitionEntryLBA * s = IF offset = 1 THEN 2 * s ELSE Units - s - T
      /\ h.FirstUsableLBA \in Nat
      /\ h.FirstUsableLBA * s >= T + 2 * s /\ h.FirstUsableLBA * s <= FirstStart(g)
      /\ h.LastUsableLBA \in Int
      /\ (h.LastUsableLBA + 1) * s >= LastEnd(g)
      /\ (h.LastUsableLBA + 1) * s <= Units - s - T
  BY NewHeaderFields
<1>2. /\ n \in Nat \ {0} /\ T \in Nat /\ T % s = 0 /\ T >= s /\ Aligned(s)
      /\ FirstStart(g) \in Nat /\ LastEnd(g) \in Nat /\ FirstStart(g) < LastEnd(g)
      /\ \A e \in layout.parts : e.slot < n
      /\ \A e \in layout.parts : FirstStart(g) <= e.from /\ e.to <= LastEnd(g)
  <2>1. \A e \in layout.parts : e.slot < used_entries(g) /\ used_entries(g) \in Nat
                                /\ e.slot \in Nat
    BY GptFacts, LayoutFacts
  <2>2. n \in Nat /\ n >= used_entries(g)
    BY NewEntriesFacts
  <2> QED
    BY <2>1, <2>2, GptFacts, NewEntriesFacts
<1>3. T * 4 >= n
  <2>1. T >= UnitsFor(n) /\ UnitsFor(n) * 4 >= n /\ UnitsFor(n) \in Nat
    BY <1>2, RequiredFacts, UnitsForFacts
  <2> HIDE DEF n, T
  <2> QED
    BY <1>2, <2>1
<1>4. /\ DOMAIN h.crc = 0..(UnitsFor(n) - 1)
      /\ Listed(h) = EntriesFor(s)
  <2>1. new_array(g, s) = EntriesFor(s)
        /\ \A p \in new_array(g, s) : p.slot \in Nat /\ p.slot < n
    BY NewArrayFacts
  <2> HIDE DEF h, n
  <2>2. /\ DOMAIN EntryArray(new_array(g, s), n) = 0..(UnitsFor(n) - 1)
        /\ UNION {EntryArray(new_array(g, s), n)[i].ps :
                     i \in DOMAIN EntryArray(new_array(g, s), n)} = new_array(g, s)
    BY <1>2, <2>1, EntryArrayFacts
  <2> QED
    BY <1>1, <2>1, <2>2 DEF Listed
<1> HIDE DEF h, T, n
<1>5. offset \in Nat /\ offset * s \in Nat
  BY <1>s
<1>6. GoodHeader(h, offset * s, s)
  <2>1. h.AlternateLBA \in Nat /\ h.AlternateLBA < Sectors(s)
    BY <1>1, <1>s
  <2> QED
    BY <1>1, <1>2, <1>4, <1>5, <2>1 DEF GoodHeader
<1>7. h.FirstUsableLBA >= 3 /\ h.LastUsableLBA >= h.FirstUsableLBA
  BY <1>1, <1>2, <1>s
<1>8. ASSUME offset = 1 PROVE check_gpt_header(h, offset, s) = 1
  <2>1. h.PartitionEntryLBA = 2 /\ h.LastUsableLBA < h.AlternateLBA
        /\ h.AlternateLBA < Sectors(s)
    BY <1>1, <1>2, <1>8, <1>s
  <2>2. (h.FirstUsableLBA - h.PartitionEntryLBA) * s * 4 >= n
    BY <1>1, <1>2, <1>3, <1>8, <1>s
  <2>3. /\ ~(h.FirstUsableLBA < 3) /\ ~(h.LastUsableLBA < h.FirstUsableLBA)
        /\ ~(h.PartitionEntryLBA # 2) /\ ~(h.LastUsableLBA >= h.AlternateLBA)
        /\ ~(h.AlternateLBA >= Sectors(s)) /\ ~(h.NumberOfPartitionEntries < 1)
        /\ ~((h.FirstUsableLBA - h.PartitionEntryLBA) * s * PerUnit
               < h.NumberOfPartitionEntries)
    BY <1>1, <1>2, <1>7, <1>8, <1>s, <2>1, <2>2 DEF PerUnit
  <2>4. check_gpt_header(h, offset, s) = 1
    BY <1>8, <2>3, Zenon DEF check_gpt_header
  <2> QED
    BY <2>4
<1>9. ASSUME offset # 1 PROVE check_gpt_header(h, offset, s) = 1
  <2>1. h.AlternateLBA = 1 /\ h.PartitionEntryLBA < h.MyLBA
        /\ h.LastUsableLBA < h.PartitionEntryLBA
    BY <1>1, <1>2, <1>9, <1>s
  <2>2. (h.MyLBA - h.PartitionEntryLBA) * s * 4 >= n
    <3>1. h.MyLBA * s = Units - s /\ h.MyLBA \in Nat
      BY <1>1, <1>9, <1>s
    <3>2. h.PartitionEntryLBA * s = Units - s - T /\ h.PartitionEntryLBA \in Nat
      BY <1>1, <1>9
    <3>3. (h.MyLBA - h.PartitionEntryLBA) * s = T
      BY <1>2, <1>s, <3>1, <3>2
    <3> QED
      BY <1>3, <3>3
  <2>3. /\ ~(h.FirstUsableLBA < 3) /\ ~(h.LastUsableLBA < h.FirstUsableLBA)
        /\ ~(h.AlternateLBA # 1) /\ ~(h.LastUsableLBA >= h.PartitionEntryLBA)
        /\ ~(h.PartitionEntryLBA >= h.MyLBA) /\ ~(h.NumberOfPartitionEntries < 1)
        /\ ~((h.MyLBA - h.PartitionEntryLBA) * s * PerUnit < h.NumberOfPartitionEntries)
    BY <1>1, <1>2, <1>7, <1>9, <1>s, <2>1, <2>2 DEF PerUnit
  <2>4. check_gpt_header(h, offset, s) = 1
    BY <1>9, <2>3, Zenon DEF check_gpt_header
  <2> QED
    BY <2>4
<1>10. ASSUME NEW p \in EntriesFor(s)
       PROVE  p.StartingLBA >= h.FirstUsableLBA /\ p.EndingLBA <= h.LastUsableLBA
  <2>1. PICK e \in layout.parts : p = Entry(e, s)
    BY <1>10 DEF EntriesFor
  <2>2. /\ p.StartingLBA \in Nat /\ p.EndingLBA \in Nat
        /\ p.StartingLBA * s = e.from /\ (p.EndingLBA + 1) * s = e.to
    BY <1>2, <2>1, EntryFacts DEF Aligned, Start, End
  <2>3. e.from \in Nat /\ e.to \in Nat
    BY LayoutFacts
  <2> QED
    BY <1>1, <1>2, <1>s, <2>1, <2>2, <2>3
<1>11. check_gpt_header(h, offset, s) = 1
  BY <1>8, <1>9
<1> QED
  BY <1>6, <1>10, <1>11 DEF h

-----------------------------------------------------------------------------
(* The writes *)

LEMMA ContentFacts ==
    ASSUME NEW a, NEW b
    PROVE  /\ Zero.t # "hdr" /\ Mbr(a, b).t = "mbr" /\ Mbr(a, b).kind = a
           /\ Mbr(a, b).size = b /\ Chunk(a, b).t # "hdr"
           /\ Zero.t # "mbr" /\ Chunk(a, b).t # "mbr"
  BY DEF Zero, Mbr, Chunk, Ent

(* create_new_gpt() writes a GPT on its side of the partitions, and the    *)
(* only header it writes is the new one (gpt.c:785-840).                   *)
LEMMA WritesConfined ==
    ASSUME LayoutInv, NEW s0 \in SectorSizes, NEW g, GoodGpt(g, s0),
           NEW s \in SectorSizes, s # s0, ~Constraint(g, s),
           NEW offset \in {1, Sectors(s) - 1}, NEW w \in GptWrites(g, s, offset)
    PROVE  Confined(w, IF offset = 1 THEN 0 ELSE LastEnd(g),
                       IF offset = 1 THEN FirstStart(g) ELSE Units, s)
<1>s. s \in {1, 8} /\ s0 \in {1, 8} /\ Units \in Nat /\ Sectors(s) \in Nat
      /\ Sectors(s) * s = Units /\ Sectors(s) >= 6 /\ Units >= 48
  BY SizeFacts DEF SectorSizes, Small, Big
<1> DEFINE n == new_entries(g, s)
           T == RequiredUnits(n, s)
           h == new_header(g, s, offset)
           F == FirstStart(g)
           L == LastEnd(g)
           lo == IF offset = 1 THEN 0 ELSE L
           hi == IF offset = 1 THEN F ELSE Units
<1>1. /\ h.NumberOfPartitionEntries = n
      /\ h.PartitionEntryLBA * s = IF offset = 1 THEN 2 * s ELSE Units - s - T
  BY NewHeaderFields
<1>2. /\ T \in Nat /\ T % s = 0 /\ T >= s /\ T <= Units - s - L /\ T + 2 * s <= F
      /\ F \in Nat /\ L \in Nat /\ F < L
  BY GptFacts, NewEntriesFacts
<1>3. s0 = 8 => F >= 24 /\ L + 8 <= Units
  <2>1. /\ g.header.FirstUsableLBA \in Nat /\ g.header.LastUsableLBA \in Nat
        /\ g.header.FirstUsableLBA >= 3
        /\ g.header.FirstUsableLBA * s0 <= F
        /\ L <= (g.header.LastUsableLBA + 1) * s0
        /\ (g.header.LastUsableLBA + 1) * s0 + s0 <= Units
    BY GptFacts
  <2> HIDE DEF F, L
  <2> QED
    BY <1>2, <1>s, <2>1
<1>h. GoodHeader(h, offset * s, s) /\ offset * s \in HeaderUnits(s)
      /\ offset \in Nat
  BY NewHeaderFacts, HeaderUnitFacts
<1> HIDE DEF h, T, n, F, L
<1>4. CASE w = TableWrite(g, s, offset)
  <2>1. w.at = h.PartitionEntryLBA * s /\ w.data = [i \in 0..(T - 1) |-> Chunk(new_array(g, s), i)]
    BY <1>1, <1>4 DEF TableWrite, Pwrite, h, T
  <2>2. w.at \in Nat /\ lo <= w.at /\ w.at + T <= hi /\ w.at # 0
    <3>1. CASE offset = 1
      BY <1>1, <1>2, <1>s, <2>1, <3>1, SMTT(60)
    <3>2. CASE offset # 1
      <4>1. w.at = Units - s - T
        BY <1>1, <2>1, <3>2
      <4> QED
        BY <1>2, <1>s, <3>2, <4>1
    <3> QED
      BY <3>1, <3>2
  <2>3. DOMAIN w.data = 0..(T - 1) /\ T > 0 /\ T % s = 0 /\ T \in Nat
    BY <1>2, <1>s, <2>1
  <2>4. \A i \in DOMAIN w.data : w.data[i].t # "hdr"
    BY <2>1, ContentFacts
  <2> QED
    BY <2>2, <2>3, <2>4 DEF Confined, F, L
<1>5. CASE w = HeaderWrite(g, s, offset)
  <2>1. w.at = offset * s /\ w.data = [i \in 0..(s - 1) |-> IF i = 0 THEN h ELSE Zero]
    BY <1>5 DEF HeaderWrite, Pwrite, h, SectorWith
  <2>2. w.at \in Nat /\ lo <= w.at /\ w.at + s <= hi /\ w.at # 0
    BY <1>2, <1>s, <1>h, <2>1, SMTT(60)
  <2>3. DOMAIN w.data = 0..(s - 1) /\ s > 0 /\ s % s = 0 /\ s \in Nat
    BY <1>s, <2>1
  <2>4. ASSUME NEW i \in DOMAIN w.data, w.data[i].t = "hdr"
        PROVE  w.at + i \in HeaderUnits(s) /\ GoodHeader(w.data[i], w.at + i, s)
    <3>1. i = 0 /\ w.data[i] = h
      BY <2>1, <2>4, ContentFacts
    <3>2. w.at + i = offset * s
      BY <2>1, <2>2, <3>1
    <3> QED
      BY <1>h, <3>1, <3>2
  <2> QED
    BY <2>2, <2>3, <2>4 DEF Confined, F, L
<1>6. ASSUME NEW at \in Nat, NEW len \in Nat \ {0}, len % s = 0, w = ClearUnits(at, len),
             lo <= at, at + len <= hi, at # 0
      PROVE  Confined(w, lo, hi, s)
  <2>1. w.at = at /\ w.data = [i \in 0..(len - 1) |-> Zero]
    BY <1>6 DEF ClearUnits, Pwrite
  <2> QED
    BY <1>6, <2>1, ContentFacts DEF Confined
<1>7. CASE w = WriteMbr(s) /\ offset = 1
  <2>1. w.at = 0 /\ w.data = [i \in 0..(s - 1) |->
                                 IF i = 0 THEN Mbr("protective", Sectors(s) - 1) ELSE Zero]
    BY <1>7 DEF WriteMbr, Pwrite, SectorWith
  <2>2. lo <= 0 /\ 0 + s <= hi
    BY <1>2, <1>7, <1>s
  <2>3. DOMAIN w.data = 0..(s - 1) /\ s > 0 /\ s % s = 0 /\ s \in Nat
        /\ w.data[0] = Mbr("protective", Sectors(s) - 1)
    BY <1>s, <2>1
  <2>4. \A i \in DOMAIN w.data : w.data[i].t # "hdr"
    <3>1. \A i \in DOMAIN w.data :
             w.data[i] = Zero \/ w.data[i] = Mbr("protective", Sectors(s) - 1)
      BY <2>1
    <3>2. Zero.t # "hdr" /\ Mbr("protective", Sectors(s) - 1).t # "hdr"
      BY ContentFacts
    <3> QED
      BY <3>1, <3>2
  <2> QED
    BY <2>1, <2>2, <2>3, <2>4 DEF Confined, F, L
<1>8. CASE w = ClearUnits(Units - Big, Big) /\ offset # 1
  <2>1. Units - 8 \in Nat /\ 8 \in Nat \ {0} /\ 8 % s = 0
        /\ lo <= Units - 8 /\ Units - 8 + 8 <= hi /\ Units - 8 # 0
    BY <1>2, <1>3, <1>8, <1>s
  <2>2. w = ClearUnits(Units - 8, 8)
    BY <1>8 DEF Big
  <2>3. Confined(w, lo, hi, s)
    BY <1>6, <2>1, <2>2
  <2> QED
    BY <2>3 DEF F, L
<1>9. CASE w \in {ClearUnits(1, 1), ClearUnits(Big, Big)} /\ offset = 1 /\ s # Big
  <2>1. s = 1 /\ s0 = 8
    BY <1>9, <1>s DEF Big
  <2>2. F >= 24 /\ lo = 0 /\ hi = F
    BY <1>3, <1>9, <2>1
  <2>3. CASE w = ClearUnits(1, 1)
    <3>0. 1 \in Nat \ {0} /\ 1 % s = 0 /\ lo <= 1 /\ 1 + 1 <= hi /\ 1 # 0
      BY <1>2, <2>1, <2>2
    <3>1. Confined(w, lo, hi, s)
      BY <1>6, <2>3, <3>0
    <3> QED
      BY <3>1 DEF F, L
  <2>4. CASE w = ClearUnits(Big, Big)
    <3>0. /\ 8 \in Nat \ {0} /\ 8 % s = 0 /\ lo <= 8 /\ 8 + 8 <= hi /\ 8 # 0
          /\ w = ClearUnits(8, 8)
      BY <1>2, <2>1, <2>2, <2>4 DEF Big
    <3>1. Confined(w, lo, hi, s)
      BY <1>6, <3>0
    <3> QED
      BY <3>1 DEF F, L
  <2> QED
    BY <1>9, <2>3, <2>4
<1> QED
  BY <1>4, <1>5, <1>7, <1>8, <1>9 DEF GptWrites

(* The order of the writes: the table, then the header that refers to it;  *)
(* the GPT that was used last (gpt.c:1042).                                *)
LEMMA GptWritesOrder ==
    ASSUME NEW g, NEW s, NEW offset, NEW W, W = create_new_gpt(g, s, offset)
    PROVE  /\ W \in Seq(GptWrites(g, s, offset)) /\ Len(W) \in {3, 5}
           /\ W[Len(W) - 1] = TableWrite(g, s, offset)
           /\ W[Len(W)] = HeaderWrite(g, s, offset)
           /\ offset = 1 => W[1] = WriteMbr(s)
<1> DEFINE G == GptWrites(g, s, offset)
           t == TableWrite(g, s, offset)
           h == HeaderWrite(g, s, offset)
<1>1. t \in G /\ h \in G
  BY DEF GptWrites
<1>2. CASE offset # 1
  <2> DEFINE c == ClearUnits(Units - Big, Big)
  <2>1. W = <<c>> \o <<t, h>>
    BY <1>2 DEF create_new_gpt, TableWrite, HeaderWrite
  <2>2. c \in G
    BY <1>2 DEF GptWrites
  <2> HIDE DEF c, t, h, G
  <2> QED
    BY <1>1, <1>2, <2>1, <2>2 DEF t, h, G
<1>3. CASE offset = 1 /\ s = Big
  <2> DEFINE c == WriteMbr(s)
  <2>1. W = <<c>> \o <<t, h>>
    BY <1>3 DEF create_new_gpt, TableWrite, HeaderWrite
  <2>2. c \in G
    BY <1>3 DEF GptWrites
  <2> HIDE DEF c, t, h, G
  <2>3. W \in Seq(G) /\ Len(W) = 3 /\ W[1] = c /\ W[2] = t /\ W[3] = h
    BY <1>1, <2>1, <2>2
  <2> QED
    BY <2>3 DEF c, t, h, G
<1>4. CASE offset = 1 /\ s # Big
  <2> DEFINE c == WriteMbr(s)
             d == ClearUnits(1, 1)
             e == ClearUnits(Big, Big)
  <2>1. W = <<c, d, e>> \o <<t, h>>
    BY <1>4 DEF create_new_gpt, TableWrite, HeaderWrite
  <2>2. c \in G /\ d \in G /\ e \in G
    BY <1>4 DEF GptWrites
  <2> HIDE DEF c, d, e, t, h, G
  <2>3. W \in Seq(G) /\ Len(W) = 5 /\ W[1] = c /\ W[4] = t /\ W[5] = h
    BY <1>1, <2>1, <2>2
  <2> QED
    BY <2>3 DEF c, t, h, G
<1> QED
  BY <1>2, <1>3, <1>4

(* The order of the writes of a repair: the entries of the first table     *)
(* before its header, and then the same for the second (gpt.c:1042).       *)
LEMMA AllWritesOrder ==
    ASSUME NEW First, First = create_new_gpt(gpt, dev, FirstOffset),
           NEW Second, Second = create_new_gpt(gpt, dev, SecondOffset)
    PROVE  /\ All \in Seq(GptWrites(gpt, dev, FirstOffset) \cup
                          GptWrites(gpt, dev, SecondOffset))
           /\ Len(All) = Len(First) + Len(Second) /\ SecondHalf = Len(Second)
           /\ Len(First) \in {3, 5} /\ Len(Second) \in {3, 5}
           /\ \A k \in 1..Len(First) : All[k] = First[k]
           /\ \A k \in 1..Len(Second) : All[Len(First) + k] = Second[k]
           /\ All[Len(First) - 1] = TableWrite(gpt, dev, FirstOffset)
           /\ All[Len(First)] = HeaderWrite(gpt, dev, FirstOffset)
           /\ All[Len(All) - 1] = TableWrite(gpt, dev, SecondOffset)
           /\ All[Len(All)] = HeaderWrite(gpt, dev, SecondOffset)
           /\ \E k \in 1..Len(All) : All[k] = WriteMbr(dev)
<1> DEFINE G == GptWrites(gpt, dev, FirstOffset)
           H == GptWrites(gpt, dev, SecondOffset)
<1>1. All = First \o Second
  BY DEF All, AllWrites, FirstOffset, SecondOffset
<1>2. /\ First \in Seq(G) /\ Len(First) \in {3, 5}
      /\ First[Len(First) - 1] = TableWrite(gpt, dev, FirstOffset)
      /\ First[Len(First)] = HeaderWrite(gpt, dev, FirstOffset)
      /\ FirstOffset = 1 => First[1] = WriteMbr(dev)
  BY GptWritesOrder
<1>3. /\ Second \in Seq(H) /\ Len(Second) \in {3, 5}
      /\ Second[Len(Second) - 1] = TableWrite(gpt, dev, SecondOffset)
      /\ Second[Len(Second)] = HeaderWrite(gpt, dev, SecondOffset)
      /\ SecondOffset = 1 => Second[1] = WriteMbr(dev)
  BY GptWritesOrder
<1> HIDE DEF G, H
<1>4. First \in Seq(G \cup H) /\ Second \in Seq(G \cup H)
  BY <1>2, <1>3
<1>5. /\ All \in Seq(G \cup H) /\ Len(All) = Len(First) + Len(Second)
      /\ \A k \in 1..Len(First) : All[k] = First[k]
      /\ \A k \in 1..Len(Second) : All[Len(First) + k] = Second[k]
  BY <1>1, <1>4
<1>6. SecondHalf = Len(Second)
  BY DEF SecondHalf
<1>7. /\ All[Len(First) - 1] = TableWrite(gpt, dev, FirstOffset)
      /\ All[Len(First)] = HeaderWrite(gpt, dev, FirstOffset)
  <2>1. PICK a \in {3, 5} : a = Len(First)
    BY <1>2
  <2>2. Len(First) - 1 \in 1..Len(First) /\ Len(First) \in 1..Len(First)
    <3>1. a - 1 \in 1..a /\ a \in 1..a
      OBVIOUS
    <3> QED
      BY <2>1, <3>1, Zenon
  <2> QED
    BY <1>2, <1>5, <2>2, Zenon
<1>8. /\ All[Len(All) - 1] = TableWrite(gpt, dev, SecondOffset)
      /\ All[Len(All)] = HeaderWrite(gpt, dev, SecondOffset)
  <2>1. Len(All) - 1 = Len(First) + (Len(Second) - 1) /\ Len(Second) - 1 \in 1..Len(Second)
        /\ Len(Second) \in 1..Len(Second)
    <3>1. PICK a \in {3, 5} : a = Len(First)
      BY <1>2
    <3>2. PICK b \in {3, 5} : b = Len(Second)
      BY <1>3
    <3>3. (a + b) - 1 = a + (b - 1) /\ b - 1 \in 1..b /\ b \in 1..b
      OBVIOUS
    <3> QED
      BY <1>5, <3>1, <3>2, <3>3, Zenon
  <2> QED
    BY <1>3, <1>5, <2>1, Zenon
<1>9. \E k \in 1..Len(All) : All[k] = WriteMbr(dev)
  <2>1. CASE FirstOffset = 1
    BY <1>2, <1>3, <1>5, <2>1, SMTT(60)
  <2>2. CASE SecondOffset = 1
    <3>1. Len(First) + 1 \in 1..Len(All) /\ All[Len(First) + 1] = WriteMbr(dev)
      BY <1>2, <1>3, <1>5, <2>2
    <3> QED
      BY <3>1
  <2> QED
    BY <2>1, <2>2 DEF FirstOffset, SecondOffset
<1> QED
  BY <1>2, <1>3, <1>5, <1>6, <1>7, <1>8, <1>9 DEF G, H

(* A sector of a write that reaches the disk changes the units of that     *)
(* sector and no others.                                                   *)
LEMMA PutFacts ==
    ASSUME disk = [u \in 0..(Units - 1) |-> disk[u]],
           NEW s \in SectorSizes, NEW lo \in Nat, NEW hi \in Nat, hi <= Units,
           NEW w, Confined(w, lo, hi, s), NEW i \in SectorsOf(w, s),
           NEW d, d = Put(disk, w, s, i)
    PROVE  /\ d = [u \in 0..(Units - 1) |-> d[u]]
           /\ \A u \in 0..(Units - 1) :
                 \/ /\ u >= lo /\ u < hi /\ u - w.at \in DOMAIN w.data
                    /\ d[u] = w.data[u - w.at]
                 \/ d[u] = disk[u]
           /\ \A k \in DOMAIN w.data :
                 /\ w.at + k \in 0..(Units - 1) /\ w.at + k >= lo /\ w.at + k < hi
                 /\ k \in Nat
                 /\ k \div s = i => d[w.at + k] = w.data[k]
                 /\ k \div s # i => d[w.at + k] = disk[w.at + k]
                 /\ k \div s \in SectorsOf(w, s)
<1>s. s \in {1, 8} /\ Units \in Nat
  BY SizeFacts DEF SectorSizes, Small, Big
<1>1. PICK m \in Nat : /\ DOMAIN w.data = 0..(m - 1) /\ m % s = 0 /\ m > 0
                       /\ w.at \in Nat /\ lo <= w.at /\ w.at + m <= hi
  BY DEF Confined
<1>2. SectorsOf(w, s) = 0..(m \div s - 1)
  <2>1. Cardinality(0..(m - 1)) = m
    <3>1. Cardinality(0..(m - 1)) = IF 0 > m - 1 THEN 0 ELSE (m - 1) - 0 + 1
      <4>1. 0 \in Int /\ m - 1 \in Int
        OBVIOUS
      <4> QED
        BY <4>1, FS_Interval
    <3> QED
      BY <1>1, <3>1
  <2> QED
    BY <1>1, <2>1 DEF SectorsOf
<1>3. \A u \in 0..(Units - 1) :
         d[u] = IF (u - w.at) \div s = i /\ u >= w.at THEN w.data[u - w.at] ELSE disk[u]
  BY DEF Put
<1>4. d = [u \in 0..(Units - 1) |-> d[u]]
  BY DEF Put
<1>5. ASSUME NEW u \in 0..(Units - 1), (u - w.at) \div s = i, u >= w.at
      PROVE  u >= lo /\ u < hi /\ u - w.at \in DOMAIN w.data
  <2>1. i \in 0..(m \div s - 1)
    BY <1>2
  <2>2. u \in Nat /\ w.at \in Nat /\ u >= w.at /\ (u - w.at) \div s = i
    BY <1>1, <1>5, <1>s
  <2>3. m % s = 0
    BY <1>1
  <2>4. u - w.at \in Nat /\ u - w.at < m
    <3>1. CASE s = 1
      BY <2>1, <2>2, <3>1
    <3>2. CASE s = 8
      <4> DEFINE x == u - w.at
      <4>1. x \in Nat /\ x \div 8 = i /\ m % 8 = 0 /\ i \in 0..(m \div 8 - 1)
        BY <2>1, <2>2, <2>3, <3>2
      <4> HIDE DEF x
      <4>2. x < m
        BY <4>1
      <4> QED
        BY <4>1, <4>2 DEF x
    <3> QED
      BY <1>s, <3>1, <3>2
  <2> QED
    BY <1>1, <2>2, <2>4
<1>6. ASSUME NEW k \in DOMAIN w.data
      PROVE  /\ w.at + k \in 0..(Units - 1) /\ w.at + k >= lo /\ w.at + k < hi
             /\ k \in Nat /\ (w.at + k) - w.at = k /\ w.at + k >= w.at
             /\ k \div s \in SectorsOf(w, s)
  <2>1. k \in Nat /\ k < m /\ w.at \in Nat
    BY <1>1, <1>6
  <2>2. m % s = 0
    BY <1>1
  <2>3. k \div s \in 0..(m \div s - 1)
    <3>1. CASE s = 1
      BY <2>1, <3>1
    <3>2. CASE s = 8
      BY <2>1, <2>2, <3>2
    <3> QED
      BY <1>s, <3>1, <3>2
  <2>4. w.at + k \in 0..(Units - 1) /\ w.at + k >= lo /\ w.at + k < hi
        /\ (w.at + k) - w.at = k /\ w.at + k >= w.at
    BY <1>1, <1>s, <2>1
  <2> QED
    BY <1>2, <2>1, <2>3, <2>4
<1>7. ASSUME NEW k \in DOMAIN w.data
      PROVE  d[w.at + k] = IF k \div s = i THEN w.data[k] ELSE disk[w.at + k]
  BY <1>3, <1>6
<1> QED
  BY <1>3, <1>4, <1>5, <1>6, <1>7

-----------------------------------------------------------------------------
(* What stays readable *)

(* A GPT that was written as a whole is read as it was written.            *)
LEMMA ReadsNew ==
    ASSUME LayoutInv, NEW s0 \in SectorSizes, NEW g, GoodGpt(g, s0),
           NEW s \in SectorSizes, ~Constraint(g, s),
           NEW offset \in {1, Sectors(s) - 1}, NEW d,
           OnDisk(d, TableWrite(g, s, offset)), OnDisk(d, HeaderWrite(g, s, offset))
    PROVE  read_and_check_gpt(d, offset, s) =
              [status |-> 1, sector_size |-> s, header |-> new_header(g, s, offset),
               entries |-> EntriesFor(s)]
<1> DEFINE h == new_header(g, s, offset)
           n == new_entries(g, s)
           T == RequiredUnits(n, s)
           q == h.PartitionEntryLBA * s
<1>s. s \in {1, 8}
  BY DEF SectorSizes, Small, Big
<1>1. /\ h.t = "hdr" /\ h.NumberOfPartitionEntries = n
      /\ h.crc = EntryArray(new_array(g, s), n) /\ q \in Nat
      /\ h.FirstUsableLBA \in Int /\ h.LastUsableLBA \in Int
  BY <1>s, NewHeaderFields
<1>2. /\ GoodHeader(h, offset * s, s) /\ check_gpt_header(h, offset, s) = 1
      /\ \A p \in EntriesFor(s) : p.StartingLBA >= h.FirstUsableLBA
                                  /\ p.EndingLBA <= h.LastUsableLBA
  BY NewHeaderFacts
<1>3. n \in Nat /\ T \in Nat /\ T >= UnitsFor(n) /\ UnitsFor(n) \in Nat
  BY NewEntriesFacts, RequiredFacts, UnitsForFacts
<1>4. offset \in Nat /\ offset * s \in Nat /\ ~(offset >= Sectors(s))
      /\ ~(offset # 1 /\ offset < 5)
  <2>1. Sectors(s) \in Nat /\ offset \in Nat /\ offset < Sectors(s) /\ (offset # 1 => offset >= 5)
    BY HeaderUnitFacts, SizeFacts
  <2> QED
    BY <1>s, <2>1
<1>5. d[offset * s] = h
  <2> DEFINE w == HeaderWrite(g, s, offset)
  <2>1. w.at = offset * s /\ w.data = [i \in 0..(s - 1) |-> IF i = 0 THEN h ELSE Zero]
    BY DEF HeaderWrite, Pwrite, SectorWith
  <2> HIDE DEF w, h
  <2>2. 0 \in DOMAIN w.data /\ w.data[0] = h /\ w.at + 0 = offset * s
    BY <1>4, <1>s, <2>1
  <2> QED
    BY <2>2 DEF OnDisk, w
<1>6. ASSUME NEW i \in DOMAIN h.crc PROVE d[q + i] = h.crc[i]
  <2> DEFINE w == TableWrite(g, s, offset)
  <2>1. w.at = q /\ w.data = [j \in 0..(T - 1) |-> Chunk(new_array(g, s), j)]
    BY <1>1 DEF TableWrite, Pwrite
  <2>2. i \in 0..(UnitsFor(n) - 1) /\ h.crc[i] = Chunk(new_array(g, s), i)
    BY <1>1, <1>6 DEF EntryArray
  <2> HIDE DEF w, q, T, n, h
  <2>3. i \in 0..(T - 1)
    BY <1>3, <2>2
  <2> QED
    BY <2>1, <2>2, <2>3 DEF OnDisk, w
<1>7. Listed(h) = EntriesFor(s) /\ Listed(h) # {}
  BY <1>2 DEF GoodHeader, EntriesFor, GoodGpt
<1>8. ~(\E p \in Listed(h) : \/ p.StartingLBA < h.FirstUsableLBA
                             \/ p.EndingLBA > h.LastUsableLBA)
  <2>1. ASSUME NEW p \in Listed(h) PROVE p.StartingLBA \in Nat /\ p.EndingLBA \in Nat
    <3>1. PICK e \in layout.parts : p = Entry(e, s)
      BY <1>7, <2>1 DEF EntriesFor
    <3>2. Aligned(s)
      BY NewEntriesFacts
    <3> QED
      BY <3>1, <3>2, EntryFacts DEF Aligned
  <2> HIDE DEF h
  <2> QED
    BY <1>1, <1>2, <1>7, <2>1
<1>9. [i \in DOMAIN h.crc |-> d[q + i]] = h.crc
  <2>1. h.crc = [i \in DOMAIN h.crc |-> h.crc[i]]
    BY <1>1 DEF EntryArray
  <2> HIDE DEF h, q
  <2> QED
    BY <1>6, <2>1
<1> HIDE DEF h
<1>10. Accepts(d, offset, s)
  BY <1>1, <1>2, <1>4, <1>5, <1>7, <1>8, <1>9 DEF Accepts
<1> QED
  BY <1>5, <1>7, <1>10, ReadAccepts DEF h

(* Room for N entries, in units *)
LEMMA TableRoom ==
    ASSUME NEW s \in SectorSizes, NEW a \in Int, NEW b \in Int, a < b,
           NEW N \in Nat, ~((b - a) * s * 4 < N)
    PROVE  /\ (b - a) * s \in Nat /\ N <= ((b - a) * s) * 4
           /\ (b - a) * s + a * s = b * s /\ a * s \in Int /\ b * s \in Int
  BY DEF SectorSizes, Small, Big

(* A GPT occupies units on its own side of the partitions: its header and  *)
(* as much of the array as the checksum is computed over.                  *)
LEMMA UnitsOfGpt ==
    ASSUME LayoutInv, HeadersInv, NEW s \in SectorSizes,
           NEW offset \in {1, Sectors(s) - 1}, NEW g,
           g = read_and_check_gpt(disk, offset, s), g.status = 1,
           NEW u, u = offset * s \/ \E i \in DOMAIN g.header.crc :
                                      u = g.header.PartitionEntryLBA * s + i
    PROVE  /\ u \in 0..(Units - 1)
           /\ IF offset = 1 THEN u < FirstStart(g) ELSE u >= LastEnd(g)
<1> DEFINE h == g.header
           N == h.NumberOfPartitionEntries
           F == FirstStart(g)
           L == LastEnd(g)
<1>s. s \in {1, 8} /\ Units \in Nat /\ Sectors(s) \in Nat /\ Sectors(s) * s = Units
      /\ Sectors(s) >= 6
  BY SizeFacts DEF SectorSizes, Small, Big
<1>1. GoodGpt(g, s) /\ Accepts(disk, offset, s) /\ h = disk[offset * s]
  BY ReadFacts, ReadAccepts
<1>2. h.t = "hdr" /\ check_gpt_header(h, offset, s) = 1
  BY <1>1 DEF Accepts
<1>3. GoodHeader(h, offset * s, s)
  BY <1>1, <1>2, HeaderUnitFacts DEF HeadersInv
<1>4. /\ h.MyLBA * s = offset * s /\ h.MyLBA \in Nat
      /\ h.FirstUsableLBA \in Int /\ h.LastUsableLBA \in Int /\ h.PartitionEntryLBA \in Int
      /\ N \in Nat /\ DOMAIN h.crc = 0..(UnitsFor(N) - 1)
  BY <1>3 DEF GoodHeader
<1>5. /\ F \in Nat /\ L \in Nat /\ F < L
      /\ h.FirstUsableLBA * s <= F /\ L <= (h.LastUsableLBA + 1) * s
      /\ (h.LastUsableLBA + 1) * s + s <= Units /\ h.FirstUsableLBA >= 3
  BY <1>1, GptFacts
<1>6. UnitsFor(N) \in Nat /\ \A m \in Nat : N <= m * 4 => UnitsFor(N) <= m
  BY <1>4, UnitsForFacts
<1> HIDE DEF h, F, L
<1>7. CASE offset = 1
  <2>1. /\ h.PartitionEntryLBA = 2
        /\ ~((h.FirstUsableLBA - 2) * s * 4 < N)
    BY <1>2, <1>4, <1>7 DEF check_gpt_header, PerUnit, EXIT_TRUNCATED
  <2> DEFINE m == (h.FirstUsableLBA - 2) * s
  <2>2. m \in Nat /\ N <= m * 4 /\ m + 2 * s = h.FirstUsableLBA * s
    <3>1. 2 \in Int /\ 2 < h.FirstUsableLBA
      BY <1>4, <1>5
    <3> HIDE DEF N
    <3> QED
      BY <1>4, <2>1, <3>1, TableRoom
  <2> HIDE DEF m
  <2>3. UnitsFor(N) <= m
    BY <1>6, <2>2
  <2>4. u \in Nat /\ u < F /\ F < Units
    <3>1. CASE u = offset * s
      BY <1>4, <1>5, <1>7, <1>s, <3>1
    <3>2. CASE \E i \in DOMAIN h.crc : u = h.PartitionEntryLBA * s + i
      <4>1. PICK i \in 0..(UnitsFor(N) - 1) : u = 2 * s + i
        BY <1>4, <2>1, <3>2
      <4>2. u \in Nat /\ u < m + 2 * s
        BY <1>6, <1>s, <2>2, <2>3, <4>1
      <4>3. F < Units
        <5>1. PICK x \in Int : x = (h.LastUsableLBA + 1) * s
          BY <1>4, <1>s
        <5>2. F \in Nat /\ L \in Nat /\ F < L /\ L <= x /\ x + s <= Units
          BY <1>5, <5>1
        <5> QED
          BY <1>s, <5>2
      <4> QED
        BY <1>5, <1>s, <2>2, <4>2, <4>3
    <3> QED
      BY <3>1, <3>2 DEF h
  <2> QED
    BY <1>7, <1>s, <2>4, <1>5 DEF F
<1>8. CASE offset # 1
  <2>1. offset = Sectors(s) - 1 /\ h.MyLBA = Sectors(s) - 1
    BY <1>4, <1>8, <1>s
  <2>2. /\ h.LastUsableLBA < h.PartitionEntryLBA /\ h.PartitionEntryLBA < h.MyLBA
        /\ ~((h.MyLBA - h.PartitionEntryLBA) * s * 4 < N)
    BY <1>2, <1>4, <1>8 DEF check_gpt_header, PerUnit, EXIT_TRUNCATED
  <2> DEFINE m == (h.MyLBA - h.PartitionEntryLBA) * s
  <2>3. m \in Nat /\ N <= m * 4 /\ m + h.PartitionEntryLBA * s = Units - s
    <3>1. h.MyLBA \in Int /\ h.MyLBA * s = Units - s
      BY <1>4, <1>s, <2>1
    <3> HIDE DEF N
    <3> QED
      BY <1>4, <2>2, <3>1, TableRoom
  <2>4. h.PartitionEntryLBA * s >= (h.LastUsableLBA + 1) * s
    BY <1>4, <1>s, <2>2, SMTT(60)
  <2> HIDE DEF m
  <2>5. UnitsFor(N) <= m
    BY <1>6, <2>3
  <2>6. u \in Nat /\ u >= L /\ u < Units
    <3> DEFINE a == (h.LastUsableLBA + 1) * s
               b == h.PartitionEntryLBA * s
    <3>0. a \in Int /\ b \in Int /\ L <= a /\ a + s <= Units /\ b >= a /\ m + b = Units - s
      <4>1. h.LastUsableLBA + 1 \in Int /\ h.PartitionEntryLBA \in Int /\ s \in Int
        BY <1>4, <1>s
      <4>2. a \in Int /\ b \in Int
        BY <4>1
      <4> QED
        BY <1>5, <2>3, <2>4, <4>2
    <3>1. CASE u = offset * s
      <4>1. u = Units - s
        BY <1>s, <2>1, <3>1
      <4> HIDE DEF a, b
      <4> QED
        BY <1>5, <1>s, <3>0, <4>1
    <3>2. CASE \E i \in DOMAIN h.crc : u = h.PartitionEntryLBA * s + i
      <4>1. PICK i \in 0..(UnitsFor(N) - 1) : u = b + i
        BY <1>4, <3>2
      <4> HIDE DEF a, b, N
      <4> QED
        BY <1>5, <1>6, <1>s, <2>3, <2>5, <3>0, <4>1
    <3> QED
      BY <3>1, <3>2 DEF h
  <2> QED
    BY <1>8, <1>s, <2>6 DEF L
<1> QED
  BY <1>7, <1>8

(* It is read as before when those units are not written. *)
Judge(h, array, offset, s) ==
    IF \/ offset >= Sectors(s) \/ (offset # 1 /\ offset < 5) \/ h.t # "hdr"
    THEN NoGpt
    ELSE IF check_gpt_header(h, offset, s) # 1
    THEN [NoGpt EXCEPT !.status = check_gpt_header(h, offset, s)]
    ELSE IF \/ array # h.crc
            \/ \E p \in Listed(h) : \/ p.StartingLBA < h.FirstUsableLBA
                                    \/ p.EndingLBA > h.LastUsableLBA
    THEN NoGpt
    ELSE IF Listed(h) = {} THEN [NoGpt EXCEPT !.status = EXIT_UNSUPPORTED]
    ELSE [status |-> 1, sector_size |-> s, header |-> h, entries |-> Listed(h)]

(* read_and_check_gpt() depends on the header and on the entries that the  *)
(* header covers, and on nothing else.                                     *)
LEMMA ReadJudges ==
    ASSUME NEW d, NEW s, NEW offset
    PROVE  read_and_check_gpt(d, offset, s) =
              Judge(d[offset * s],
                    [i \in DOMAIN d[offset * s].crc |->
                        d[d[offset * s].PartitionEntryLBA * s + i]], offset, s)
  BY Zenon DEF read_and_check_gpt, Judge, Listed

(* Two disks with the same header and the same entries are read alike. *)
LEMMA ReadSame ==
    ASSUME NEW d1, NEW d2, NEW s, NEW offset, NEW h, h = d1[offset * s],
           d2[offset * s] = d1[offset * s],
           \A i \in DOMAIN h.crc :
              d2[h.PartitionEntryLBA * s + i] = d1[h.PartitionEntryLBA * s + i]
    PROVE  read_and_check_gpt(d1, offset, s) = read_and_check_gpt(d2, offset, s)
<1> DEFINE a1 == [i \in DOMAIN h.crc |-> d1[h.PartitionEntryLBA * s + i]]
           a2 == [i \in DOMAIN h.crc |-> d2[h.PartitionEntryLBA * s + i]]
<1>1. a1 = a2
  OBVIOUS
<1>2. read_and_check_gpt(d1, offset, s) = Judge(h, a1, offset, s)
  BY ReadJudges
<1>3. read_and_check_gpt(d2, offset, s) = Judge(h, a2, offset, s)
  BY ReadJudges
<1> HIDE DEF a1, a2
<1> QED
  BY <1>1, <1>2, <1>3

-----------------------------------------------------------------------------
(* The steps of gptfix *)

LEMMA SizesDiffer ==
    ASSUME dev \in SectorSizes
    PROVE  Other \in SectorSizes /\ Other # dev /\ SectorSizes = {dev, Other}
  BY DEF Other, SectorSizes, Small, Big

(* A step that neither writes nor has a table in hand afterwards keeps the *)
(* disk as it is.                                                          *)
LEMMA IdleKeeps ==
    ASSUME GptFixInv, UNCHANGED <<layout, disk>>, dev' \in SectorSizes,
           pc' \notin {"adjust", "write", "reload"}
    PROVE  GptFixInv'
<1>1. LayoutInv' /\ DiskInv'
  BY ZenonT(60) DEF GptFixInv, LayoutInv, DiskInv, HeadersInv, DataKept, GoodHeader, EntriesFor,
         Aligned
<1>2. FoundInv'
  BY DEF GptFixInv, FoundInv
<1> QED
  BY <1>1, <1>2 DEF GptFixInv, GptInv, QueueInv, ProgressInv

(* A table that was found is the one the repair begins with.               *)
LEMMA ReadKeeps ==
    ASSUME GptFixInv, NEW place \in Places, Read(place)
    PROVE  GptFixInv'
<1> DEFINE g == read_and_check_gpt(disk, OffsetAt(place), SizeAt(place))
<1>0. layout' = layout /\ dev' = dev /\ disk' = disk /\ dev \in SectorSizes /\ pc = place
  BY DEF Read, diskVars, GptFixInv, LayoutInv
<1>1. CASE pc' # "adjust"
  <2>1. pc' \notin {"write", "reload"}
    BY <1>1 DEF Read, Goto, Exit, NextPlace
  <2> QED
    BY <1>0, <1>1, <2>1, IdleKeeps
<1>2. CASE pc' = "adjust"
  <2>1. g.status = 1 /\ SizeAt(place) # dev /\ gpt' = g
    BY <1>2 DEF Read, Goto, Exit, NextPlace
  <2>2. /\ used_primary' = (place = "old_primary")
        /\ place \in {"old_primary", "old_backup"} /\ SizeAt(place) = Other
    BY <2>1 DEF Read, SizeAt, Places
  <2>3. /\ OffsetAt(place) = IF place = "old_primary" THEN 1 ELSE Sectors(Other) - 1
        /\ OffsetAt(place) \in {1, Sectors(Other) - 1}
    BY <2>2 DEF OffsetAt
  <2>4. GoodGpt(g, Other)
    BY <1>0, <2>1, <2>2, <2>3, SizesDiffer, ReadFacts DEF GptFixInv, DiskInv
  <2>5. LayoutInv' /\ DiskInv' /\ FoundInv'
    BY <1>0 DEF GptFixInv, LayoutInv, DiskInv, HeadersInv, DataKept, GoodHeader, EntriesFor,
         Aligned, FoundInv
  <2>6. Other' = Other /\ UsedOffset' = OffsetAt(place)
    BY <1>0, <2>2, <2>3 DEF Other, UsedOffset
  <2>7. UsedIntact'
    BY <1>0, <2>1, <2>2, <2>6 DEF UsedIntact
  <2>8. GptInv'
    <3>1. GoodGpt(gpt, Other)'
      BY <1>0, <2>1, <2>4, <2>6 DEF GoodGpt, GoodHeader, EntriesFor, Aligned
    <3> QED
      BY <3>1 DEF GptInv
  <2> QED
    BY <1>2, <2>5, <2>7, <2>8 DEF GptFixInv, QueueInv, ProgressInv
<1> QED
  BY <1>1, <1>2

(* The tables written first and second and the one in use are at the two   *)
(* ends of the disk.                                                       *)
LEMMA OffsetFacts ==
    ASSUME dev \in SectorSizes
    PROVE  /\ FirstOffset \in {1, Sectors(dev) - 1} /\ SecondOffset \in {1, Sectors(dev) - 1}
           /\ Sectors(dev) - 1 # 1 /\ UsedOffset \in {1, Sectors(Other) - 1}
           /\ Sectors(Other) - 1 # 1
           /\ {FirstOffset, SecondOffset} = {1, Sectors(dev) - 1}
           /\ FirstOffset = 1 <=> SecondOffset # 1
           /\ FirstOffset = 1 <=> UsedOffset # 1
<1>1. /\ Sectors(dev) \in Nat /\ Sectors(dev) >= 6 /\ Sectors(Other) \in Nat
      /\ Sectors(Other) >= 6
  BY SizesDiffer, SizeFacts
<1>2. Sectors(dev) - 1 # 1 /\ Sectors(Other) - 1 # 1
  BY <1>1
<1> QED
  BY <1>2 DEF FirstOffset, SecondOffset, UsedOffset

(* gpt_adjust_sectors() has found no constraint, and create_new_gpt()      *)
(* begins.                                                                 *)
LEMMA AdjustKeeps ==
    ASSUME GptFixInv, Adjust
    PROVE  GptFixInv'
<1>0. /\ layout' = layout /\ dev' = dev /\ disk' = disk /\ dev \in SectorSizes
      /\ pc = "adjust" /\ used_primary' = used_primary
  BY DEF Adjust, diskVars, GptFixInv, LayoutInv
<1>1. CASE Constraint(gpt, dev)
  <2>1. pc' = "idle"
    BY <1>1 DEF Adjust, Exit
  <2> QED
    BY <1>0, <2>1, IdleKeeps
<1>2. CASE ~Constraint(gpt, dev)
  <2>1. /\ pc' = "write" /\ queue' = All /\ pend' = SectorsOf(queue'[1], dev)
        /\ gpt' = gpt
    BY <1>2 DEF Adjust, All
  <2>2. LayoutInv' /\ DiskInv' /\ FoundInv'
    BY <1>0, ZenonT(60) DEF GptFixInv, LayoutInv, DiskInv, HeadersInv, DataKept, GoodHeader, EntriesFor,
         Aligned, FoundInv
  <2>3. /\ Other' = Other /\ UsedOffset' = UsedOffset /\ FirstOffset' = FirstOffset
        /\ SecondOffset' = SecondOffset
    BY <1>0 DEF Other, UsedOffset, FirstOffset, SecondOffset
  <2>4. All' = All /\ SecondHalf' = SecondHalf
    BY <1>0, <2>1, <2>3 DEF All, SecondHalf
  <2>5. UsedIntact' /\ GoodGpt(gpt, Other)
    BY <1>0, <2>1, <2>3 DEF GptFixInv, ProgressInv, GptInv, UsedIntact
  <2>6. GptInv'
    BY <1>0, <2>1, <2>3, <2>5 DEF GptInv, GoodGpt, GoodHeader, EntriesFor, Aligned
  <2> DEFINE First == create_new_gpt(gpt, dev, FirstOffset)
             Second == create_new_gpt(gpt, dev, SecondOffset)
             G == GptWrites(gpt, dev, FirstOffset) \cup GptWrites(gpt, dev, SecondOffset)
  <2>7. /\ All \in Seq(G)
        /\ Len(All) = Len(First) + Len(Second) /\ SecondHalf = Len(Second)
        /\ Len(First) \in {3, 5} /\ Len(Second) \in {3, 5}
        /\ \A k \in 1..Len(First) : All[k] = First[k]
        /\ \E k \in 1..Len(All) : All[k] = WriteMbr(dev)
    BY AllWritesOrder
  <2> HIDE DEF First, Second, G
  <2>8. PICK a \in Nat, b \in Nat : /\ a = Len(First) /\ b = Len(Second) /\ a >= 3 /\ b >= 3
                                    /\ Len(All) = a + b /\ SecondHalf = b
    <3>1. \A x \in {3, 5} : x \in Nat /\ x >= 3
      OBVIOUS
    <3> QED
      BY <2>7, <3>1, Zenon
  <2>9. /\ Len(queue') \in 1..Len(All') /\ Len(queue') > SecondHalf' + 1
        /\ Len(queue') > 1 /\ ~(Len(queue') <= SecondHalf') /\ ~(Len(queue') <= 1)
        /\ ~(Len(queue') <= SecondHalf' + 1)
        /\ \A k \in 1..Len(queue') : Len(All) - Len(queue') + k = k
    BY <2>1, <2>4, <2>8
  <2>10. QueueInv'
    <3>1. queue' \in Seq(G)'
      BY <1>0, <2>1, <2>3, <2>7 DEF G
    <3>2. \A k \in 1..Len(queue') : queue'[k] = All'[Len(All') - Len(queue') + k]
      BY <2>1, <2>4, <2>9
    <3>3. ~Constraint(gpt, dev)'
      BY <1>0, <1>2, <2>1
    <3>4. pend' \subseteq SectorsOf(queue'[1], dev')
      BY <1>0, <2>1
    <3> QED
      BY <2>9, <3>1, <3>2, <3>3, <3>4 DEF QueueInv, G
  <2>11. \A i \in DOMAIN queue'[1].data : i \div dev' \in pend'
    <3>1. queue'[1] \in GptWrites(gpt, dev, FirstOffset)
      <4>1. First \in Seq(GptWrites(gpt, dev, FirstOffset)) /\ 1 \in 1..Len(First)
        BY <2>8, GptWritesOrder DEF First
      <4>2. queue'[1] = First[1]
        BY <2>1, <2>7, <4>1
      <4> QED
        BY <4>1, <4>2
    <3>2. PICK lo, hi : Confined(queue'[1], lo, hi, dev)
      BY <1>0, <1>2, <2>5, <3>1, SizesDiffer, OffsetFacts, WritesConfined DEF GptFixInv
    <3>3. PICK m \in Nat : DOMAIN queue'[1].data = 0..(m - 1) /\ m % dev = 0 /\ m > 0
      BY <3>2 DEF Confined
    <3>4. SectorsOf(queue'[1], dev) = 0..(m \div dev - 1)
      <4>1. 0 \in Int /\ m - 1 \in Int
        OBVIOUS
      <4>2. Cardinality(0..(m - 1)) = IF 0 > m - 1 THEN 0 ELSE (m - 1) - 0 + 1
        BY <4>1, FS_Interval
      <4>3. Cardinality(0..(m - 1)) = m
        BY <3>3, <4>2
      <4> QED
        BY <3>3, <4>3 DEF SectorsOf
    <3>5. ASSUME NEW i \in 0..(m - 1) PROVE i \div dev \in 0..(m \div dev - 1)
      BY <1>0, <3>3 DEF SectorSizes, Small, Big
    <3> QED
      BY <1>0, <2>1, <3>3, <3>4, <3>5
  <2>12. ~(\A k \in 1..Len(queue') : queue'[k] # WriteMbr(dev'))
    BY <1>0, <2>1, <2>7
  <2>13. ProgressInv'
    BY <2>1, <2>5, <2>9, <2>11, <2>12 DEF ProgressInv
  <2> QED
    BY <2>2, <2>6, <2>10, <2>13 DEF GptFixInv
<1> QED
  BY <1>1, <1>2

-----------------------------------------------------------------------------
(* A sector is written *)

LowOf(g, offset) == IF offset = 1 THEN 0 ELSE LastEnd(g)
HighOf(g, offset) == IF offset = 1 THEN FirstStart(g) ELSE Units

CurrentOffset == IF Len(queue) > SecondHalf THEN FirstOffset ELSE SecondOffset

(* Where the writing is: in the GPT that was not used first, its header    *)
(* last, then in the other one.                                            *)
LEMMA CurrentWrite ==
    ASSUME GptFixInv, pc = "write"
    PROVE  /\ CurrentOffset \in {1, Sectors(dev) - 1}
           /\ Confined(queue[1], LowOf(gpt, CurrentOffset), HighOf(gpt, CurrentOffset), dev)
           /\ Len(queue) = SecondHalf + 2 => queue[1] = TableWrite(gpt, dev, FirstOffset)
           /\ Len(queue) = SecondHalf + 1 => queue[1] = HeaderWrite(gpt, dev, FirstOffset)
           /\ Len(queue) = 2 => queue[1] = TableWrite(gpt, dev, SecondOffset)
           /\ Len(queue) = 1 => queue[1] = HeaderWrite(gpt, dev, SecondOffset)
           /\ Len(queue) \in Nat /\ SecondHalf \in Nat /\ SecondHalf >= 3
           /\ \A k \in 1..Len(queue) : \E offset \in {1, Sectors(dev) - 1} :
                 Confined(queue[k], LowOf(gpt, offset), HighOf(gpt, offset), dev)
<1>0. dev \in SectorSizes /\ LayoutInv /\ GoodGpt(gpt, Other) /\ ~Constraint(gpt, dev)
      /\ Other \in SectorSizes /\ dev # Other
  BY SizesDiffer DEF GptFixInv, LayoutInv, GptInv, QueueInv
<1> DEFINE First == create_new_gpt(gpt, dev, FirstOffset)
           Second == create_new_gpt(gpt, dev, SecondOffset)
           G == GptWrites(gpt, dev, FirstOffset)
           H == GptWrites(gpt, dev, SecondOffset)
           n == Len(queue)
<1>1. /\ queue \in Seq(G \cup H) /\ n \in 1..Len(All)
      /\ \A k \in 1..n : queue[k] = All[Len(All) - n + k]
  BY DEF GptFixInv, QueueInv
<1>2. /\ Len(All) = Len(First) + Len(Second) /\ SecondHalf = Len(Second)
      /\ Len(First) \in {3, 5} /\ Len(Second) \in {3, 5}
      /\ \A k \in 1..Len(First) : All[k] = First[k]
      /\ \A k \in 1..Len(Second) : All[Len(First) + k] = Second[k]
      /\ All[Len(First) - 1] = TableWrite(gpt, dev, FirstOffset)
      /\ All[Len(First)] = HeaderWrite(gpt, dev, FirstOffset)
      /\ All[Len(All) - 1] = TableWrite(gpt, dev, SecondOffset)
      /\ All[Len(All)] = HeaderWrite(gpt, dev, SecondOffset)
  BY AllWritesOrder
<1>3. First \in Seq(G) /\ Second \in Seq(H)
  BY GptWritesOrder
<1> HIDE DEF First, Second, G, H
<1>4. PICK a \in Nat, b \in Nat : /\ a = Len(First) /\ b = Len(Second) /\ a >= 3 /\ b >= 3
                                  /\ Len(All) = a + b /\ SecondHalf = b
  <2>1. \A x \in {3, 5} : x \in Nat /\ x >= 3
    OBVIOUS
  <2> QED
    BY <1>2, <2>1, Zenon
<1>5. n \in Nat /\ n >= 1 /\ n <= a + b /\ 1 \in 1..n
  BY <1>1, <1>4
<1>6. queue[1] = All[(a + b) - n + 1]
  BY <1>1, <1>4, <1>5
<1>7. ASSUME NEW w \in G PROVE Confined(w, LowOf(gpt, FirstOffset), HighOf(gpt, FirstOffset), dev)
  BY <1>0, <1>7, OffsetFacts, WritesConfined DEF LowOf, HighOf, G
<1>8. ASSUME NEW w \in H PROVE Confined(w, LowOf(gpt, SecondOffset), HighOf(gpt, SecondOffset), dev)
  BY <1>0, <1>8, OffsetFacts, WritesConfined DEF LowOf, HighOf, H
<1>9. CASE n > b
  <2>1. (a + b) - n + 1 \in 1..a
    BY <1>5, <1>9
  <2>2. queue[1] \in G
    <3>1. PICK q \in 1..a : q = (a + b) - n + 1
      BY <2>1
    <3>2. queue[1] = First[q]
      BY <1>2, <1>4, <1>6, <3>1, Zenon
    <3> QED
      BY <1>3, <1>4, <3>1, <3>2
  <2>3. CurrentOffset = FirstOffset
    BY <1>4, <1>9 DEF CurrentOffset
  <2> QED
    <3>1. n = b + 2 => (a + b) - n + 1 = a - 1
      BY <1>5
    <3>2. n = b + 1 => (a + b) - n + 1 = a
      BY <1>5
    <3>3. n # 1 /\ n # 2
      <4>1. b \in Nat /\ b >= 3 /\ n \in Nat /\ n > b
        BY <1>4, <1>5, <1>9
      <4> HIDE DEF n
      <4> QED
        BY <4>1
    <3>4. \A k \in 1..n : queue[k] \in G \cup H
      BY <1>1
    <3>5. Confined(queue[1], LowOf(gpt, CurrentOffset), HighOf(gpt, CurrentOffset), dev)
      BY <1>7, <2>2, <2>3
    <3> QED
      BY <1>0, <1>2, <1>4, <1>5, <1>6, <1>7, <1>8, <2>3, <3>1, <3>2, <3>3, <3>4, <3>5, OffsetFacts,
         Zenon
<1>10. CASE ~(n > b)
  <2>1. (b - n) + 1 \in 1..b /\ (a + b) - n + 1 = a + ((b - n) + 1)
    BY <1>4, <1>5, <1>10
  <2>2. queue[1] = Second[(b - n) + 1]
    BY <1>2, <1>4, <1>6, <2>1, Zenon
  <2>3. queue[1] \in H
    BY <1>3, <1>4, <2>1, <2>2
  <2>4. CurrentOffset = SecondOffset
    BY <1>4, <1>10 DEF CurrentOffset
  <2> QED
    <3>1. n = 2 => (a + b) - n + 1 = (a + b) - 1
      BY <1>5
    <3>2. n = 1 => (a + b) - n + 1 = a + b
      BY <1>5
    <3>3. n # b + 2 /\ n # b + 1
      BY <1>4, <1>5, <1>10
    <3>4. \A k \in 1..n : queue[k] \in G \cup H
      BY <1>1
    <3>5. Confined(queue[1], LowOf(gpt, CurrentOffset), HighOf(gpt, CurrentOffset), dev)
      BY <1>8, <2>3, <2>4
    <3>6. n = 2 => queue[1] = TableWrite(gpt, dev, SecondOffset)
      BY <1>2, <1>4, <1>6, <3>1
    <3>7. n = 1 => queue[1] = HeaderWrite(gpt, dev, SecondOffset)
      BY <1>2, <1>4, <1>6, <3>2
    <3>8. \A k \in 1..n : \E offset \in {1, Sectors(dev) - 1} :
                 Confined(queue[k], LowOf(gpt, offset), HighOf(gpt, offset), dev)
      BY <1>0, <1>7, <1>8, <3>4, OffsetFacts
    <3> QED
      BY <1>0, <1>4, <1>5, <2>4, <3>3, <3>5, <3>6, <3>7, <3>8, OffsetFacts, Zenon
<1> QED
  BY <1>9, <1>10

(* The sides of the partitions *)
LEMMA SideFacts ==
    ASSUME LayoutInv, NEW s \in SectorSizes, NEW g, GoodGpt(g, s), NEW offset
    PROVE  /\ LowOf(g, offset) \in Nat /\ HighOf(g, offset) \in Nat
           /\ HighOf(g, offset) <= Units
           /\ FirstStart(g) \in Nat /\ LastEnd(g) \in Nat /\ FirstStart(g) < LastEnd(g)
           /\ LastEnd(g) <= Units
<1>1. /\ FirstStart(g) \in Nat /\ LastEnd(g) \in Nat /\ FirstStart(g) < LastEnd(g)
      /\ LastEnd(g) <= (g.header.LastUsableLBA + 1) * s
      /\ (g.header.LastUsableLBA + 1) * s + s <= Units /\ g.header.LastUsableLBA \in Nat
  BY GptFacts
<1>2. Units \in Nat /\ s \in Nat
  BY SizeFacts
<1>3. (g.header.LastUsableLBA + 1) * s \in Nat
  BY <1>1, <1>2
<1> DEFINE x == (g.header.LastUsableLBA + 1) * s
<1> HIDE DEF x
<1>4. LastEnd(g) <= x /\ x + s <= Units /\ x \in Nat
  BY <1>1, <1>3 DEF x
<1>5. LastEnd(g) <= Units
  BY <1>1, <1>2, <1>4
<1> QED
  BY <1>1, <1>2, <1>5 DEF LowOf, HighOf

(* Writes on different units leave one another alone. *)
Apart(v, w) ==
    \A j \in DOMAIN v.data : \A k \in DOMAIN w.data : v.at + j # w.at + k

(* A write elsewhere leaves what is on the disk as it is. *)
LEMMA ApartStays ==
    ASSUME disk = [u \in 0..(Units - 1) |-> disk[u]],
           NEW s \in SectorSizes, NEW lo \in Nat, NEW hi \in Nat, hi <= Units,
           NEW w, Confined(w, lo, hi, s), NEW i \in SectorsOf(w, s),
           NEW lo2 \in Nat, NEW hi2 \in Nat, hi2 <= Units,
           NEW v, Confined(v, lo2, hi2, s), Apart(v, w), OnDisk(disk, v)
    PROVE  OnDisk(Put(disk, w, s, i), v)
<1> DEFINE d == Put(disk, w, s, i)
<1>1. \A u \in 0..(Units - 1) : \/ /\ u - w.at \in DOMAIN w.data
                                   /\ d[u] = w.data[u - w.at]
                                \/ d[u] = disk[u]
  BY PutFacts
<1>2. PICK m \in Nat : DOMAIN v.data = 0..(m - 1) /\ v.at \in Nat /\ v.at + m <= hi2
  BY DEF Confined
<1>3. w.at \in Nat
  BY DEF Confined
<1>4. Units \in Nat
  BY SizeFacts
<1> HIDE DEF d
<1>5. ASSUME NEW j \in DOMAIN v.data PROVE d[v.at + j] = v.data[j]
  <2>1. v.at + j \in 0..(Units - 1)
    BY <1>2, <1>4, <1>5
  <2>2. ~((v.at + j) - w.at \in DOMAIN w.data)
    <3>1. (v.at + j) = w.at + ((v.at + j) - w.at)
      BY <1>3, <2>1, <1>4
    <3> QED
      BY <3>1 DEF Apart
  <2>3. d[v.at + j] = disk[v.at + j]
    BY <1>1, <2>1, <2>2
  <2> QED
    BY <2>3 DEF OnDisk
<1> QED
  BY <1>5 DEF OnDisk, d

(* Writes on two sides of the partitions are apart. *)
LEMMA SidesApart ==
    ASSUME NEW v, NEW w, NEW s, NEW a \in Nat, NEW b \in Nat, NEW c \in Nat, NEW d \in Nat,
           Confined(v, a, b, s), Confined(w, c, d, s), b <= c \/ d <= a
    PROVE  Apart(v, w)
<1>1. PICK m \in Nat : DOMAIN v.data = 0..(m - 1) /\ v.at \in Nat /\ a <= v.at /\ v.at + m <= b
  BY DEF Confined
<1>2. PICK n \in Nat : DOMAIN w.data = 0..(n - 1) /\ w.at \in Nat /\ c <= w.at /\ w.at + n <= d
  BY DEF Confined
<1> QED
  BY <1>1, <1>2, SMTT(60) DEF Apart

(* The header is not in its table. *)
LEMMA HeaderApart ==
    ASSUME LayoutInv, NEW s0 \in SectorSizes, NEW g, GoodGpt(g, s0),
           NEW s \in SectorSizes, ~Constraint(g, s),
           NEW offset \in {1, Sectors(s) - 1}
    PROVE  Apart(TableWrite(g, s, offset), HeaderWrite(g, s, offset))
<1>s. s \in {1, 8} /\ Units \in Nat /\ Sectors(s) \in Nat
      /\ Sectors(s) * s = Units /\ Sectors(s) >= 6
  BY SizeFacts DEF SectorSizes, Small, Big
<1> DEFINE n == new_entries(g, s)
           T == RequiredUnits(n, s)
           h == new_header(g, s, offset)
           v == TableWrite(g, s, offset)
           w == HeaderWrite(g, s, offset)
<1>1. /\ h.NumberOfPartitionEntries = n
      /\ h.PartitionEntryLBA * s = IF offset = 1 THEN 2 * s ELSE Units - s - T
  BY NewHeaderFields
<1>2. T \in Nat /\ T <= Units - s - LastEnd(g) /\ LastEnd(g) \in Nat
  BY NewEntriesFacts, GptFacts
<1>3. v.at = h.PartitionEntryLBA * s /\ DOMAIN v.data = 0..(T - 1)
  BY <1>1 DEF TableWrite, Pwrite
<1>4. w.at = offset * s /\ DOMAIN w.data = 0..(s - 1)
  BY DEF HeaderWrite, Pwrite, SectorWith
<1> HIDE DEF v, w, T, h
<1>5. CASE offset = 1
  <2>1. v.at = 2 * s /\ w.at = s
    BY <1>1, <1>3, <1>4, <1>5, <1>s
  <2>2. Apart(v, w)
    <3>1. ASSUME NEW j \in 0..(T - 1), NEW k \in 0..(s - 1) PROVE 2 * s + j # s + k
      BY <1>2, <1>s
    <3> QED
      BY <1>3, <1>4, <2>1, <3>1 DEF Apart
  <2> QED
    BY <2>2 DEF v, w
<1>6. CASE offset # 1
  <2>1. v.at = Units - s - T /\ w.at = Units - s
    BY <1>1, <1>3, <1>4, <1>6, <1>s
  <2>2. Apart(v, w)
    <3>1. ASSUME NEW j \in 0..(T - 1), NEW k \in 0..(s - 1)
          PROVE  (Units - s - T) + j # (Units - s) + k
      BY <1>2, <1>s
    <3> QED
      BY <1>3, <1>4, <2>1, <3>1 DEF Apart
  <2> QED
    BY <2>2 DEF v, w
<1> QED
  BY <1>5, <1>6

(* The headers and the partitions after a sector was written.              *)
LEMMA WriteKeepsDisk ==
    ASSUME GptFixInv, NEW i \in pend, WriteSector(i)
    PROVE  DiskInv'
<1> DEFINE w == queue[1]
           lo == LowOf(gpt, CurrentOffset)
           hi == HighOf(gpt, CurrentOffset)
<1>0. /\ layout' = layout /\ pc = "write" /\ disk' = Put(disk, w, dev, i)
      /\ LayoutInv /\ DiskInv /\ dev \in SectorSizes /\ GoodGpt(gpt, Other)
      /\ Other \in SectorSizes /\ i \in SectorsOf(w, dev)
  BY SizesDiffer DEF WriteSector, diskVars, GptFixInv, LayoutInv, GptInv, QueueInv
<1>1. Confined(w, lo, hi, dev)
  BY <1>0, CurrentWrite
<1>2. /\ lo \in Nat /\ hi \in Nat /\ hi <= Units
      /\ FirstStart(gpt) \in Nat /\ LastEnd(gpt) \in Nat /\ FirstStart(gpt) < LastEnd(gpt)
      /\ LastEnd(gpt) <= Units
  BY <1>0, SideFacts
<1>3. hi <= FirstStart(gpt) \/ lo >= LastEnd(gpt)
  BY <1>2 DEF LowOf, HighOf
<1> HIDE DEF w, lo, hi
<1>4. /\ disk' = [u \in 0..(Units - 1) |-> disk'[u]]
      /\ \A u \in 0..(Units - 1) :
            \/ /\ u >= lo /\ u < hi /\ u - w.at \in DOMAIN w.data
               /\ disk'[u] = w.data[u - w.at]
            \/ disk'[u] = disk[u]
  <2>1. disk' = [u \in 0..(Units - 1) |-> disk'[u]]
    <3>1. DOMAIN disk = 0..(Units - 1)
      BY <1>0 DEF DiskInv
    <3> DEFINE f(u) == IF (u - w.at) \div dev = i /\ u >= w.at THEN w.data[u - w.at]
                       ELSE disk[u]
    <3>2. disk' = [u \in 0..(Units - 1) |-> f(u)]
      BY <1>0, <3>1 DEF Put
    <3> HIDE DEF f
    <3> QED
      BY <3>2
  <2>2. ASSUME NEW u \in 0..(Units - 1), disk'[u] # disk[u]
        PROVE  u >= lo /\ u < hi /\ u - w.at \in DOMAIN w.data
    BY <1>0, <1>1, <1>2, <2>2, PutFacts DEF DiskInv
  <2>3. ASSUME NEW u \in 0..(Units - 1), disk'[u] # disk[u]
        PROVE  disk'[u] = w.data[u - w.at]
    BY <1>0, <1>1, <1>2, <2>3, PutFacts DEF DiskInv
  <2> QED
    BY <2>1, <2>2, <2>3
<1>5. w.at \in Nat /\ \A k \in DOMAIN w.data : w.data[k].t = "hdr" =>
         w.at + k \in HeaderUnits(dev) /\ GoodHeader(w.data[k], w.at + k, dev)
  BY <1>1 DEF Confined
<1>6. HeadersInv'
  <2>1. ASSUME NEW s \in SectorSizes, NEW u \in HeaderUnits(s), disk'[u].t = "hdr"
        PROVE  GoodHeader(disk'[u], u, s)
    <3>1. u \in 0..(Units - 1) /\ u \in Int
      BY <2>1, GptFixAssumption DEF HeaderUnits, SectorSizes, Small, Big
    <3>2. CASE disk'[u] = disk[u]
      BY <1>0, <2>1, <3>2 DEF DiskInv, HeadersInv
    <3>3. CASE u - w.at \in DOMAIN w.data /\ disk'[u] = w.data[u - w.at]
      <4>1. w.at + (u - w.at) = u
        BY <1>5, <3>1
      <4>2. u \in HeaderUnits(dev) /\ GoodHeader(disk'[u], u, dev)
        BY <1>5, <2>1, <3>3, <4>1
      <4>3. s = dev
        BY <1>0, <2>1, <4>2, GptFixAssumption DEF HeaderUnits, SectorSizes, Small, Big
      <4> QED
        BY <4>2, <4>3
    <3> QED
      BY <1>4, <3>1, <3>2, <3>3
  <2> QED
    BY <1>0, <2>1, SMTT(60) DEF HeadersInv, GoodHeader, EntriesFor, Aligned
<1>7. DataKept'
  <2>1. ASSUME NEW e \in layout.parts, NEW u \in e.from..(e.to - 1), u \in 0..(Units - 1)
        PROVE  disk'[u] = Data
    <3>1. e.from \in Nat /\ e.to \in Nat /\ FirstStart(gpt) <= e.from /\ LastEnd(gpt) >= e.to
      BY <1>0, LayoutFacts, GptFacts
    <3>2. ~(u >= lo /\ u < hi)
      BY <1>2, <1>3, <2>1, <3>1
    <3>3. disk'[u] = disk[u]
      BY <1>4, <2>1, <3>2
    <3>4. u \in DOMAIN disk
      BY <1>0, <2>1 DEF DiskInv
    <3> QED
      BY <1>0, <3>3, <3>4 DEF DiskInv, DataKept
  <2>2. DOMAIN disk' = 0..(Units - 1)
    BY <1>4
  <2> QED
    BY <1>0, <2>1, <2>2 DEF DataKept
<1> QED
  BY <1>4, <1>6, <1>7 DEF DiskInv

(* The GPT that was used is read as before while the other one is written. *)
LEMMA WriteKeepsUsed ==
    ASSUME GptFixInv, NEW i \in pend, WriteSector(i), Len(queue) > SecondHalf
    PROVE  gpt = read_and_check_gpt(disk', UsedOffset, Other)
<1> DEFINE w == queue[1]
           lo == LowOf(gpt, CurrentOffset)
           hi == HighOf(gpt, CurrentOffset)
           h == gpt.header
<1>0. /\ pc = "write" /\ disk' = Put(disk, w, dev, i)
      /\ LayoutInv /\ DiskInv /\ dev \in SectorSizes /\ GoodGpt(gpt, Other)
      /\ Other \in SectorSizes /\ i \in SectorsOf(w, dev)
  BY SizesDiffer DEF WriteSector, GptFixInv, LayoutInv, GptInv, QueueInv
<1>1. Confined(w, lo, hi, dev) /\ CurrentOffset = FirstOffset
  BY <1>0, CurrentWrite DEF CurrentOffset
<1>2. /\ lo \in Nat /\ hi \in Nat /\ hi <= Units
      /\ FirstStart(gpt) \in Nat /\ LastEnd(gpt) \in Nat /\ FirstStart(gpt) < LastEnd(gpt)
  BY <1>0, SideFacts
<1>3. \A u \in 0..(Units - 1) : (u >= lo /\ u < hi) \/ disk'[u] = disk[u]
  <2> HIDE DEF w, lo, hi
  <2> QED
    BY <1>0, <1>1, <1>2, PutFacts DEF DiskInv
<1>4. /\ gpt = read_and_check_gpt(disk, UsedOffset, Other) /\ gpt.status = 1
      /\ UsedOffset \in {1, Sectors(Other) - 1}
  BY <1>0, OffsetFacts DEF GptFixInv, ProgressInv, UsedIntact, GoodGpt
<1>5. h = disk[UsedOffset * Other]
  BY <1>4, ReadAccepts
<1>6. ASSUME NEW u, u = UsedOffset * Other \/ \E k \in DOMAIN h.crc :
                                                u = h.PartitionEntryLBA * Other + k
      PROVE  disk'[u] = disk[u]
  <2>1. /\ u \in 0..(Units - 1)
        /\ IF UsedOffset = 1 THEN u < FirstStart(gpt) ELSE u >= LastEnd(gpt)
    BY <1>0, <1>4, <1>6, UnitsOfGpt DEF DiskInv
  <2>2. FirstOffset = 1 <=> UsedOffset # 1
    BY <1>0, OffsetFacts
  <2>3. ~(u >= lo /\ u < hi)
    BY <1>1, <1>2, <2>1, <2>2 DEF LowOf, HighOf
  <2> QED
    BY <1>3, <2>1, <2>3
<1>7. /\ disk'[UsedOffset * Other] = disk[UsedOffset * Other]
      /\ \A k \in DOMAIN h.crc : disk'[h.PartitionEntryLBA * Other + k]
                                   = disk[h.PartitionEntryLBA * Other + k]
  BY <1>6
<1> QED
  BY <1>4, <1>5, <1>7, ReadSame

(* What a step of create_new_gpt() leaves alone *)
LEMMA WriteFrame ==
    ASSUME GptFixInv, NEW i \in pend, WriteSector(i)
    PROVE  /\ layout' = layout /\ dev' = dev /\ gpt' = gpt /\ used_primary' = used_primary
           /\ Other' = Other /\ FirstOffset' = FirstOffset /\ SecondOffset' = SecondOffset
           /\ UsedOffset' = UsedOffset /\ SecondHalf' = SecondHalf /\ All' = All
           /\ LayoutInv /\ LayoutInv' /\ GptInv' /\ GoodGpt(gpt, Other)
           /\ dev \in SectorSizes /\ Other \in SectorSizes /\ dev # Other
           /\ pc = "write" /\ ~Constraint(gpt, dev) /\ i \in SectorsOf(queue[1], dev)
           /\ disk' = Put(disk, queue[1], dev, i)
<1>1. /\ layout' = layout /\ dev' = dev /\ gpt' = gpt /\ used_primary' = used_primary
      /\ pc = "write" /\ disk' = Put(disk, queue[1], dev, i)
  BY DEF WriteSector, diskVars, runVars
<1>2. /\ LayoutInv /\ dev \in SectorSizes /\ GoodGpt(gpt, Other) /\ ~Constraint(gpt, dev)
      /\ i \in SectorsOf(queue[1], dev)
  BY <1>1 DEF GptFixInv, LayoutInv, GptInv, QueueInv
<1>3. Other' = Other
  BY <1>1 DEF Other
<1>4. /\ FirstOffset' = FirstOffset /\ SecondOffset' = SecondOffset /\ UsedOffset' = UsedOffset
  BY <1>1, <1>3 DEF FirstOffset, SecondOffset, UsedOffset
<1>5. SecondHalf' = SecondHalf /\ All' = All
  BY <1>1, <1>4 DEF SecondHalf, All
<1>6. LayoutInv'
  BY <1>1, <1>2 DEF LayoutInv
<1>7. GptInv'
  <2>1. GoodGpt(gpt, Other)'
    BY <1>1, <1>2, <1>3 DEF GoodGpt, GoodHeader, EntriesFor, Aligned
  <2> QED
    BY <2>1 DEF GptInv
<1> QED
  BY <1>1, <1>2, <1>3, <1>4, <1>5, <1>6, <1>7, SizesDiffer

(* The sectors of the current write that have been written *)
LEMMA WriteProgress ==
    ASSUME GptFixInv, NEW i \in pend, WriteSector(i)
    PROVE  /\ \A k \in DOMAIN queue[1].data : k \div dev \notin pend \ {i} =>
                 disk'[queue[1].at + k] = queue[1].data[k]
           /\ pend = {i} => OnDisk(disk', queue[1])
<1> DEFINE w == queue[1]
           lo == LowOf(gpt, CurrentOffset)
           hi == HighOf(gpt, CurrentOffset)
<1>0. /\ dev \in SectorSizes /\ LayoutInv /\ GoodGpt(gpt, Other) /\ Other \in SectorSizes
      /\ i \in SectorsOf(w, dev) /\ disk' = Put(disk, w, dev, i) /\ pc = "write"
  BY WriteFrame
<1>1. Confined(w, lo, hi, dev)
  BY <1>0, CurrentWrite
<1>2. lo \in Nat /\ hi \in Nat /\ hi <= Units
  BY <1>0, SideFacts
<1>3. disk = [u \in 0..(Units - 1) |-> disk[u]]
  BY DEF GptFixInv, DiskInv
<1>4. \A k \in DOMAIN w.data : k \div dev \notin pend => disk[w.at + k] = w.data[k]
  BY <1>0 DEF GptFixInv, ProgressInv
<1> HIDE DEF w, lo, hi
<1>5. ASSUME NEW k \in DOMAIN w.data, k \div dev \notin pend \ {i}
      PROVE  disk'[w.at + k] = w.data[k]
  <2>1. CASE k \div dev = i
    BY <1>0, <1>1, <1>2, <1>3, <1>5, <2>1, PutFacts
  <2>2. CASE k \div dev # i
    <3>1. disk'[w.at + k] = disk[w.at + k]
      BY <1>0, <1>1, <1>2, <1>3, <1>5, <2>2, PutFacts
    <3> QED
      BY <1>4, <1>5, <2>2, <3>1
  <2> QED
    BY <2>1, <2>2
<1>6. ASSUME pend = {i} PROVE OnDisk(disk', w)
  BY <1>5, <1>6 DEF OnDisk
<1> QED
  BY <1>5, <1>6 DEF w

(* A part of a new GPT that is on the disk stays there while another part  *)
(* is written.                                                             *)
LEMMA PartStays ==
    ASSUME GptFixInv, NEW i \in pend, WriteSector(i),
           NEW offset \in {1, Sectors(dev) - 1},
           NEW v \in {TableWrite(gpt, dev, offset), HeaderWrite(gpt, dev, offset)},
           Apart(v, queue[1]) \/ offset # CurrentOffset,
           OnDisk(disk, v)
    PROVE  OnDisk(disk', v)
<1> DEFINE w == queue[1]
           lo == LowOf(gpt, CurrentOffset)
           hi == HighOf(gpt, CurrentOffset)
           lo2 == LowOf(gpt, offset)
           hi2 == HighOf(gpt, offset)
<1>0. /\ dev \in SectorSizes /\ LayoutInv /\ GoodGpt(gpt, Other) /\ Other \in SectorSizes
      /\ dev # Other /\ ~Constraint(gpt, dev)
      /\ i \in SectorsOf(w, dev) /\ disk' = Put(disk, w, dev, i) /\ pc = "write"
  BY WriteFrame
<1>1. Confined(w, lo, hi, dev) /\ CurrentOffset \in {1, Sectors(dev) - 1}
  BY <1>0, CurrentWrite
<1>2. /\ lo \in Nat /\ hi \in Nat /\ hi <= Units /\ lo2 \in Nat /\ hi2 \in Nat /\ hi2 <= Units
      /\ FirstStart(gpt) \in Nat /\ LastEnd(gpt) \in Nat /\ FirstStart(gpt) < LastEnd(gpt)
  BY <1>0, SideFacts
<1>3. disk = [u \in 0..(Units - 1) |-> disk[u]]
  BY DEF GptFixInv, DiskInv
<1>4. Confined(v, lo2, hi2, dev)
  <2>1. v \in GptWrites(gpt, dev, offset)
    BY DEF GptWrites
  <2> QED
    BY <1>0, <2>1, WritesConfined DEF LowOf, HighOf
<1>5. Apart(v, w)
  <2>1. CASE offset # CurrentOffset
    <3>1. hi2 <= lo \/ hi <= lo2
      BY <1>1, <1>2, <2>1 DEF LowOf, HighOf
    <3> HIDE DEF lo, hi, lo2, hi2, w
    <3> QED
      BY <1>1, <1>2, <1>4, <3>1, SidesApart
  <2> QED
    BY <2>1
<1> HIDE DEF w, lo, hi, lo2, hi2
<1> QED
  BY <1>0, <1>1, <1>2, <1>3, <1>4, <1>5, ApartStays

(* The GPT that is written first is complete when the second one is begun, *)
(* and each header is written after its table.                             *)
LEMMA WriteKeepsParts ==
    ASSUME GptFixInv, NEW i \in pend, WriteSector(i)
    PROVE  /\ Len(queue) <= SecondHalf + 1 => OnDisk(disk', TableWrite(gpt, dev, FirstOffset))
           /\ Len(queue) <= SecondHalf => OnDisk(disk', HeaderWrite(gpt, dev, FirstOffset))
           /\ Len(queue) <= 1 => OnDisk(disk', TableWrite(gpt, dev, SecondOffset))
<1>0. /\ dev \in SectorSizes /\ LayoutInv /\ GoodGpt(gpt, Other) /\ Other \in SectorSizes
      /\ ~Constraint(gpt, dev) /\ pc = "write"
  BY WriteFrame
<1>1. /\ FirstOffset \in {1, Sectors(dev) - 1} /\ SecondOffset \in {1, Sectors(dev) - 1}
      /\ FirstOffset # SecondOffset
  BY <1>0, OffsetFacts
<1>2. /\ Len(queue) = SecondHalf + 1 => queue[1] = HeaderWrite(gpt, dev, FirstOffset)
      /\ Len(queue) = 1 => queue[1] = HeaderWrite(gpt, dev, SecondOffset)
      /\ Len(queue) \in Nat /\ SecondHalf \in Nat /\ SecondHalf >= 3
  BY <1>0, CurrentWrite
<1>3. Len(queue) \in 1..Len(All) /\ Len(queue) >= 1
  BY <1>0 DEF GptFixInv, QueueInv
<1>4. /\ Len(queue) <= SecondHalf + 1 => OnDisk(disk, TableWrite(gpt, dev, FirstOffset))
      /\ Len(queue) <= SecondHalf => OnDisk(disk, HeaderWrite(gpt, dev, FirstOffset))
      /\ Len(queue) <= 1 => OnDisk(disk, TableWrite(gpt, dev, SecondOffset))
  BY <1>0 DEF GptFixInv, ProgressInv
<1>5. ASSUME Len(queue) <= SecondHalf + 1
      PROVE  OnDisk(disk', TableWrite(gpt, dev, FirstOffset))
  <2>1. CASE Len(queue) = SecondHalf + 1
    <3>1. Apart(TableWrite(gpt, dev, FirstOffset), queue[1])
      BY <1>0, <1>1, <1>2, <2>1, HeaderApart
    <3> QED
      BY <1>1, <1>4, <1>5, <3>1, PartStays
  <2>2. CASE Len(queue) # SecondHalf + 1
    <3>1. CurrentOffset = SecondOffset
      BY <1>2, <1>5, <2>2 DEF CurrentOffset
    <3> QED
      BY <1>1, <1>4, <1>5, <3>1, PartStays
  <2> QED
    BY <2>1, <2>2
<1>6. ASSUME Len(queue) <= SecondHalf
      PROVE  OnDisk(disk', HeaderWrite(gpt, dev, FirstOffset))
  <2>1. CurrentOffset = SecondOffset
    BY <1>2, <1>6 DEF CurrentOffset
  <2> QED
    BY <1>1, <1>4, <1>6, <2>1, PartStays
<1>7. ASSUME Len(queue) <= 1
      PROVE  OnDisk(disk', TableWrite(gpt, dev, SecondOffset))
  <2>1. queue[1] = HeaderWrite(gpt, dev, SecondOffset)
    <3>1. Len(queue) = 1
      <4>1. PICK n \in Nat : n = Len(queue) /\ n >= 1 /\ n <= 1
        BY <1>2, <1>3, <1>7, Zenon
      <4>2. n = 1
        BY <4>1
      <4> QED
        BY <4>1, <4>2
    <3> QED
      BY <1>2, <3>1, Zenon
  <2>2. Apart(TableWrite(gpt, dev, SecondOffset), queue[1])
    BY <1>0, <1>1, <2>1, HeaderApart
  <2> QED
    BY <1>1, <1>4, <1>7, <2>2, PartStays
<1> QED
  BY <1>5, <1>6, <1>7

(* Sector 0 keeps an MBR, and once the new one is there it stays.          *)
LEMMA WriteKeepsMbr ==
    ASSUME GptFixInv, NEW i \in pend, WriteSector(i)
    PROVE  /\ disk'[0] = disk[0] \/ disk'[0] = Mbr("protective", Sectors(dev) - 1)
           /\ \/ \A k \in 1..Len(queue) : queue[k] # WriteMbr(dev)
              \/ pend = {i} /\ \A k \in 2..Len(queue) : queue[k] # WriteMbr(dev)
              => MbrOnDisk'
<1> DEFINE w == queue[1]
           lo == LowOf(gpt, CurrentOffset)
           hi == HighOf(gpt, CurrentOffset)
<1>0. /\ dev \in SectorSizes /\ LayoutInv /\ GoodGpt(gpt, Other) /\ Other \in SectorSizes
      /\ i \in SectorsOf(w, dev) /\ disk' = Put(disk, w, dev, i) /\ pc = "write" /\ dev' = dev
  BY WriteFrame
<1>1. Confined(w, lo, hi, dev)
  BY <1>0, CurrentWrite
<1>2. lo \in Nat /\ hi \in Nat /\ hi <= Units
  BY <1>0, SideFacts
<1>3. disk = [u \in 0..(Units - 1) |-> disk[u]]
  BY DEF GptFixInv, DiskInv
<1>4. w.at \in Nat /\ (w.at = 0 => w.data[0] = Mbr("protective", Sectors(dev) - 1))
      /\ \A k \in DOMAIN w.data : k \in Nat
  BY <1>1 DEF Confined
<1>5. Units \in Nat /\ 0 \in 0..(Units - 1)
  BY GptFixAssumption
<1> HIDE DEF w, lo, hi
<1>6. disk'[0] = disk[0] \/ disk'[0] = Mbr("protective", Sectors(dev) - 1)
  <2>1. \/ 0 - w.at \in DOMAIN w.data /\ disk'[0] = w.data[0 - w.at]
        \/ disk'[0] = disk[0]
    BY <1>0, <1>1, <1>2, <1>3, <1>5, PutFacts
  <2>2. ASSUME 0 - w.at \in DOMAIN w.data PROVE w.at = 0 /\ 0 - w.at = 0
    BY <1>4, <2>2
  <2> QED
    BY <1>4, <2>1, <2>2
<1>7. ASSUME \A k \in 1..Len(queue) : queue[k] # WriteMbr(dev) PROVE MbrOnDisk'
  BY <1>0, <1>6, <1>7 DEF GptFixInv, ProgressInv, MbrOnDisk, Sectors
<1>8. ASSUME pend = {i}, \A k \in 2..Len(queue) : queue[k] # WriteMbr(dev) PROVE MbrOnDisk'
  <2>1. CASE w = WriteMbr(dev)
    <3>1. OnDisk(disk', w)
      BY <1>8, WriteProgress DEF w
    <3>2. w.at = 0 /\ 0 \in DOMAIN w.data
      BY <1>0, <2>1 DEF WriteMbr, Pwrite, SectorWith, SectorSizes, Small, Big
    <3>3. disk'[0] = w.data[0]
      BY <3>1, <3>2 DEF OnDisk
    <3> QED
      BY <1>0, <1>4, <3>2, <3>3 DEF MbrOnDisk, Sectors
  <2>2. CASE w # WriteMbr(dev)
    <3>1. Len(queue) \in Nat
      BY <1>0, CurrentWrite
    <3>2. \A k \in 1..Len(queue) : k = 1 \/ k \in 2..Len(queue)
      BY <3>1
    <3>3. \A k \in 1..Len(queue) : queue[k] # WriteMbr(dev)
      BY <1>8, <2>2, <3>2 DEF w
    <3> QED
      BY <1>7, <3>3
  <2> QED
    BY <2>1, <2>2
<1> QED
  BY <1>6, <1>7, <1>8

(* A call of sync_pwrite() begins with all its sectors to be written.      *)
LEMMA FreshWrite ==
    ASSUME NEW s \in SectorSizes, NEW w, NEW lo, NEW hi, Confined(w, lo, hi, s)
    PROVE  \A k \in DOMAIN w.data : k \div s \in SectorsOf(w, s)
<1>1. PICK m \in Nat : DOMAIN w.data = 0..(m - 1) /\ m % s = 0 /\ m > 0
  BY DEF Confined
<1>2. SectorsOf(w, s) = 0..(m \div s - 1)
  <2>1. 0 \in Int /\ m - 1 \in Int
    OBVIOUS
  <2>2. Cardinality(0..(m - 1)) = IF 0 > m - 1 THEN 0 ELSE (m - 1) - 0 + 1
    BY <2>1, FS_Interval
  <2>3. Cardinality(0..(m - 1)) = m
    BY <1>1, <2>2
  <2> QED
    BY <1>1, <2>3 DEF SectorsOf
<1>3. ASSUME NEW k \in 0..(m - 1) PROVE k \div s \in 0..(m \div s - 1)
  BY <1>1 DEF SectorSizes, Small, Big
<1> QED
  BY <1>1, <1>2, <1>3

(* The next call of sync_pwrite()                                          *)
LEMMA NextWrite ==
    ASSUME GptFixInv, NEW i \in pend, WriteSector(i), pend = {i}, Len(queue) > 1
    PROVE  /\ queue' = Tail(queue) /\ pend' = SectorsOf(queue[2], dev) /\ pc' = "write"
           /\ Len(queue') \in Nat /\ Len(queue) = Len(queue') + 1 /\ Len(queue') >= 1
           /\ \A k \in 1..Len(queue') : queue'[k] = queue[k + 1] /\ k + 1 \in 1..Len(queue)
           /\ QueueInv'
           /\ \A k \in DOMAIN queue'[1].data : k \div dev \in pend'
<1> DEFINE G == GptWrites(gpt, dev, FirstOffset) \cup GptWrites(gpt, dev, SecondOffset)
<1>0. /\ dev \in SectorSizes /\ dev' = dev /\ gpt' = gpt /\ FirstOffset' = FirstOffset
      /\ SecondOffset' = SecondOffset /\ All' = All /\ ~Constraint(gpt, dev) /\ pc = "write"
  BY WriteFrame
<1>1. queue' = Tail(queue) /\ pend' = SectorsOf(queue[2], dev) /\ pc' = "write"
  BY DEF WriteSector
<1>2. /\ queue \in Seq(G) /\ Len(queue) \in 1..Len(All)
      /\ \A k \in 1..Len(queue) : queue[k] = All[Len(All) - Len(queue) + k]
  BY <1>0 DEF GptFixInv, QueueInv
<1>3. Len(All) \in Nat
  <2>1. PICK First : First = create_new_gpt(gpt, dev, FirstOffset)
    OBVIOUS
  <2>2. PICK Second : Second = create_new_gpt(gpt, dev, SecondOffset)
    OBVIOUS
  <2>3. All \in Seq(G)
    BY <2>1, <2>2, AllWritesOrder
  <2> HIDE DEF G
  <2> QED
    BY <2>3
<1> HIDE DEF G
<1>4. /\ Len(queue') = Len(queue) - 1 /\ queue' \in Seq(G)
      /\ \A k \in 1..(Len(queue) - 1) : queue'[k] = queue[k + 1]
  BY <1>1, <1>2
<1>5. /\ Len(queue') \in Nat /\ Len(queue) = Len(queue') + 1 /\ Len(queue') >= 1
      /\ \A k \in 1..Len(queue') : queue'[k] = queue[k + 1] /\ k + 1 \in 1..Len(queue)
      /\ Len(queue') \in 1..Len(All)
  BY <1>2, <1>3, <1>4
<1>6. ASSUME NEW k \in 1..Len(queue')
      PROVE  queue'[k] = All'[Len(All') - Len(queue') + k]
  <2>1. k + 1 \in 1..Len(queue) /\ queue'[k] = queue[k + 1]
        /\ queue[k + 1] = All[Len(All) - Len(queue) + (k + 1)]
    BY <1>2, <1>5, <1>6
  <2>2. Len(All) - Len(queue) + (k + 1) = Len(All) - Len(queue') + k
    BY <1>2, <1>3, <1>5
  <2> QED
    BY <1>0, <2>1, <2>2
<1>7. queue'[1] = queue[2] /\ 2 \in 1..Len(queue)
  BY <1>5
<1>8. QueueInv'
  <2>1. queue' \in Seq(G)'
    BY <1>0, <1>4 DEF G
  <2>2. ~Constraint(gpt, dev)' /\ Len(queue') \in 1..Len(All')
    BY <1>0, <1>5
  <2>3. pend' \subseteq SectorsOf(queue'[1], dev')
    BY <1>0, <1>1, <1>7
  <2> QED
    BY <1>6, <2>1, <2>2, <2>3 DEF QueueInv, G
<1>9. \A k \in DOMAIN queue'[1].data : k \div dev \in pend'
  <2>1. PICK offset : Confined(queue[2], LowOf(gpt, offset), HighOf(gpt, offset), dev)
    BY <1>0, <1>7, CurrentWrite
  <2> QED
    BY <1>0, <1>1, <1>7, <2>1, FreshWrite
<1> QED
  BY <1>1, <1>5, <1>8, <1>9

(* A GPT can be found after the step: the one that was used, or the first  *)
(* of the new ones.                                                        *)
LEMMA WriteKeepsFound ==
    ASSUME GptFixInv, NEW i \in pend, WriteSector(i)
    PROVE  FoundInv'
<1>0. /\ dev \in SectorSizes /\ LayoutInv /\ GoodGpt(gpt, Other) /\ Other \in SectorSizes
      /\ ~Constraint(gpt, dev) /\ pc = "write" /\ layout' = layout
  BY WriteFrame
<1>1. Len(queue) \in Nat /\ SecondHalf \in Nat /\ SecondHalf >= 3
  BY <1>0, CurrentWrite
<1>2. layout.parts # {} /\ gpt.status = 1
  BY <1>0 DEF GoodGpt
<1>3. \E s \in SectorSizes : \E offset \in {1, Sectors(s) - 1} :
         read_and_check_gpt(disk', offset, s).status = 1
  <2>1. CASE Len(queue) > SecondHalf
    <3>1. gpt = read_and_check_gpt(disk', UsedOffset, Other)
      BY <2>1, WriteKeepsUsed
    <3>2. UsedOffset \in {1, Sectors(Other) - 1}
      BY <1>0, OffsetFacts
    <3> QED
      BY <1>0, <1>2, <3>1, <3>2
  <2>2. CASE ~(Len(queue) > SecondHalf)
    <3>1. Len(queue) <= SecondHalf /\ Len(queue) <= SecondHalf + 1
      BY <1>1, <2>2
    <3>2. /\ OnDisk(disk', TableWrite(gpt, dev, FirstOffset))
          /\ OnDisk(disk', HeaderWrite(gpt, dev, FirstOffset))
      BY <3>1, WriteKeepsParts
    <3>3. FirstOffset \in {1, Sectors(dev) - 1}
      BY <1>0, OffsetFacts
    <3>4. read_and_check_gpt(disk', FirstOffset, dev).status = 1
      <4>1. PICK d : d = disk'
        OBVIOUS
      <4>2. read_and_check_gpt(d, FirstOffset, dev) =
              [status |-> 1, sector_size |-> dev, header |-> new_header(gpt, dev, FirstOffset),
               entries |-> EntriesFor(dev)]
        BY <1>0, <3>2, <3>3, <4>1, ReadsNew
      <4> QED
        BY <4>1, <4>2
    <3> QED
      BY <1>0, <3>3, <3>4
  <2> QED
    BY <2>1, <2>2
<1> QED
  BY <1>0, <1>2, <1>3 DEF FoundInv

(* What is on the disk while create_new_gpt() goes on                      *)
LEMMA WriteKeepsProgress ==
    ASSUME GptFixInv, NEW i \in pend, WriteSector(i)
    PROVE  QueueInv' /\ ProgressInv'
<1> DEFINE n == Len(queue)
           FT == TableWrite(gpt, dev, FirstOffset)
           FH == HeaderWrite(gpt, dev, FirstOffset)
           ST == TableWrite(gpt, dev, SecondOffset)
           SH == HeaderWrite(gpt, dev, SecondOffset)
<1>0. /\ dev \in SectorSizes /\ dev' = dev /\ gpt' = gpt /\ used_primary' = used_primary
      /\ FirstOffset' = FirstOffset /\ SecondOffset' = SecondOffset /\ All' = All
      /\ SecondHalf' = SecondHalf /\ UsedOffset' = UsedOffset /\ Other' = Other
      /\ ~Constraint(gpt, dev) /\ pc = "write"
  BY WriteFrame
<1>1. /\ n = SecondHalf + 2 => queue[1] = FT
      /\ n = SecondHalf + 1 => queue[1] = FH
      /\ n = 2 => queue[1] = ST
      /\ n = 1 => queue[1] = SH
      /\ n \in Nat /\ SecondHalf \in Nat /\ SecondHalf >= 3
  BY <1>0, CurrentWrite
<1>2. n >= 1
  BY <1>0, <1>1 DEF GptFixInv, QueueInv
<1>3. /\ n <= SecondHalf + 1 => OnDisk(disk', FT)
      /\ n <= SecondHalf => OnDisk(disk', FH)
      /\ n <= 1 => OnDisk(disk', ST)
  BY WriteKeepsParts
<1>4. /\ \A k \in DOMAIN queue[1].data : k \div dev \notin pend \ {i} =>
            disk'[queue[1].at + k] = queue[1].data[k]
      /\ pend = {i} => OnDisk(disk', queue[1])
  BY WriteProgress
<1>5. /\ (\A k \in 1..n : queue[k] # WriteMbr(dev)) => MbrOnDisk'
      /\ pend = {i} /\ (\A k \in 2..n : queue[k] # WriteMbr(dev)) => MbrOnDisk'
  BY WriteKeepsMbr
<1>6. n > SecondHalf => UsedIntact'
  BY <1>0, WriteKeepsUsed DEF UsedIntact
<1>7. /\ FT' = FT /\ FH' = FH /\ ST' = ST /\ SH' = SH
  BY <1>0
<1>p. \A m \in Nat : /\ ~(m > SecondHalf) <=> m <= SecondHalf
                     /\ m + 1 <= SecondHalf + 2 <=> m <= SecondHalf + 1
  BY <1>1
<1> HIDE DEF n, FT, FH, ST, SH
<1>8. CASE pend # {i}
  <2>1. pend' = pend \ {i} /\ queue' = queue /\ pc' = "write"
    BY <1>0, <1>8 DEF WriteSector
  <2>2. QueueInv'
    BY <1>0, <2>1 DEF GptFixInv, QueueInv
  <2>3. Len(queue') = n
    BY <2>1 DEF n
  <2>4. \A k \in DOMAIN queue'[1].data :
           k \div dev' \notin pend' => disk'[queue'[1].at + k] = queue'[1].data[k]
    BY <1>0, <1>4, <2>1
  <2>5. /\ Len(queue') > SecondHalf' => UsedIntact'
        /\ Len(queue') <= SecondHalf' + 1 => OnDisk(disk', TableWrite(gpt, dev, FirstOffset)')
        /\ Len(queue') <= SecondHalf' => OnDisk(disk', HeaderWrite(gpt, dev, FirstOffset)')
        /\ Len(queue') <= 1 => OnDisk(disk', TableWrite(gpt, dev, SecondOffset)')
        /\ (\A k \in 1..Len(queue') : queue'[k] # WriteMbr(dev')) => MbrOnDisk'
    BY <1>0, <1>3, <1>5, <1>6, <1>7, <2>1, <2>3, Zenon DEF FT, FH, ST
  <2> QED
    BY <2>1, <2>2, <2>4, <2>5, Zenon DEF ProgressInv, OnDisk
<1>9. CASE pend = {i} /\ n > 1
  <2>1. /\ queue' = Tail(queue) /\ pc' = "write"
        /\ Len(queue') \in Nat /\ n = Len(queue') + 1 /\ Len(queue') >= 1
        /\ \A k \in 1..Len(queue') : queue'[k] = queue[k + 1] /\ k + 1 \in 1..n
        /\ QueueInv'
        /\ \A k \in DOMAIN queue'[1].data : k \div dev \in pend'
    BY <1>9, NextWrite DEF n
  <2>2. PICK m \in Nat : m = Len(queue') /\ n = m + 1 /\ m >= 1
    BY <2>1
  <2>3. m > SecondHalf => UsedIntact'
    BY <1>1, <1>6, <2>2
  <2>4. m <= SecondHalf + 1 => OnDisk(disk', FT)
    <3>1. CASE n = SecondHalf + 2
      BY <1>1, <1>4, <1>9, <3>1
    <3>2. CASE n # SecondHalf + 2
      BY <1>1, <1>3, <2>2, <3>2
    <3> QED
      BY <3>1, <3>2
  <2>5. m <= SecondHalf => OnDisk(disk', FH)
    <3>1. CASE n = SecondHalf + 1
      BY <1>1, <1>4, <1>9, <3>1
    <3>2. CASE n # SecondHalf + 1
      BY <1>1, <1>3, <2>2, <3>2
    <3> QED
      BY <3>1, <3>2
  <2>6. m <= 1 => OnDisk(disk', ST)
    <3>1. CASE n = 2
      BY <1>1, <1>4, <1>9, <3>1
    <3>2. CASE n # 2
      BY <2>2, <3>2
    <3> QED
      BY <3>1, <3>2
  <2>7. (\A k \in 1..m : queue'[k] # WriteMbr(dev)) => MbrOnDisk'
    <3>1. ASSUME \A k \in 1..m : queue'[k] # WriteMbr(dev), NEW k \in 2..n
          PROVE  queue[k] # WriteMbr(dev)
      <4>1. k - 1 \in 1..m /\ (k - 1) + 1 = k
        BY <2>2, <3>1
      <4>2. queue'[k - 1] = queue[k]
        BY <2>1, <2>2, <4>1
      <4> QED
        BY <3>1, <4>1, <4>2
    <3> QED
      BY <1>5, <1>9, <3>1
  <2>8. /\ Len(queue') > SecondHalf' => UsedIntact'
        /\ Len(queue') <= SecondHalf' + 1 => OnDisk(disk', TableWrite(gpt, dev, FirstOffset)')
        /\ Len(queue') <= SecondHalf' => OnDisk(disk', HeaderWrite(gpt, dev, FirstOffset)')
        /\ Len(queue') <= 1 => OnDisk(disk', TableWrite(gpt, dev, SecondOffset)')
        /\ (\A k \in 1..Len(queue') : queue'[k] # WriteMbr(dev')) => MbrOnDisk'
    BY <1>0, <1>7, <2>2, <2>3, <2>4, <2>5, <2>6, <2>7, Zenon DEF FT, FH, ST
  <2>9. \A k \in DOMAIN queue'[1].data :
           k \div dev' \notin pend' => disk'[queue'[1].at + k] = queue'[1].data[k]
    BY <1>0, <2>1
  <2> QED
    BY <2>1, <2>8, <2>9, Zenon DEF ProgressInv, OnDisk
<1>10. CASE pend = {i} /\ ~(n > 1)
  <2>1. n = 1 /\ n <= SecondHalf /\ n <= SecondHalf + 1 /\ n <= 1
    BY <1>1, <1>2, <1>10
  <2>2. pc' = "reload"
    BY <1>10 DEF WriteSector, n
  <2>3. MbrOnDisk'
    <3>1. \A k \in 2..n : queue[k] # WriteMbr(dev)
      BY <2>1
    <3> QED
      BY <1>5, <1>10, <3>1
  <2>4. OnDisk(disk', FT) /\ OnDisk(disk', FH) /\ OnDisk(disk', ST) /\ OnDisk(disk', SH)
    BY <1>1, <1>3, <1>4, <1>10, <2>1, Zenon
  <2>5. ASSUME NEW offset \in {1, Sectors(dev) - 1}
        PROVE  /\ OnDisk(disk', TableWrite(gpt, dev, offset))
               /\ OnDisk(disk', HeaderWrite(gpt, dev, offset))
    <3>1. offset = FirstOffset \/ offset = SecondOffset
      BY <1>0, <2>5, OffsetFacts
    <3> QED
      BY <2>4, <3>1, Zenon DEF FT, FH, ST, SH
  <2>6. \A offset \in {1, Sectors(dev') - 1} :
              /\ OnDisk(disk', TableWrite(gpt', dev', offset))
              /\ OnDisk(disk', HeaderWrite(gpt', dev', offset))
    BY <1>0, <2>5, Zenon
  <2>7. ProgressInv'
    BY <1>0, <2>2, <2>3, <2>6 DEF ProgressInv
  <2> QED
    BY <2>2, <2>7 DEF QueueInv
<1> QED
  BY <1>8, <1>9, <1>10

(* A sector of a repair is written. *)
LEMMA WriteKeeps ==
    ASSUME GptFixInv, NEW i \in pend, WriteSector(i)
    PROVE  GptFixInv'
  BY WriteFrame, WriteKeepsDisk, WriteKeepsProgress, WriteKeepsFound DEF GptFixInv

-----------------------------------------------------------------------------
(* The disk at the start *)

ToolSectors(s) == (Units + layout.cut) \div s
ToolTable(s) == RequiredUnits(layout.n, s) \div s
ToolHeader(my, alt, ptr, s) ==
    GPTHeader(my, alt, 2 + ToolTable(s), ToolSectors(s) - 2 - ToolTable(s), ptr, layout.n,
              EntryArray(EntriesFor(s), layout.n))

(* The table of a partitioning tool, in sectors *)
LEMMA ToolNumbers ==
    ASSUME LayoutInv, NEW s \in SectorSizes, CanFormat(layout, s)
    PROVE  /\ ToolSectors(s) \in Nat /\ ToolSectors(s) * s = Units + layout.cut
           /\ ToolTable(s) \in Nat /\ ToolTable(s) >= 1
           /\ ToolTable(s) * s = RequiredUnits(layout.n, s)
           /\ 2 * ToolTable(s) + 4 <= ToolSectors(s)
           /\ UnitsFor(layout.n) \in Nat /\ UnitsFor(layout.n) >= 1
           /\ UnitsFor(layout.n) <= ToolTable(s) * s
           /\ layout.n <= ToolTable(s) * s * 4
<1> DEFINE T == RequiredUnits(layout.n, s)
           m == UnitsFor(layout.n)
           n == layout.n
<1>1. n \in Nat /\ n > 0 /\ layout.cut \in Nat /\ layout.cut % 8 = 0
  BY LayoutFacts
<1>2. T \in Nat /\ T % s = 0 /\ T >= m /\ (T \div s) * s = T /\ T >= s
  BY <1>1, RequiredFacts
<1>3. m \in Nat /\ m * 4 >= n /\ m > 0
  BY <1>1, UnitsForFacts
<1>4. 2 * T + 4 * s <= Units + layout.cut
  BY DEF CanFormat
<1>5. Units \in Nat /\ Units % 8 = 0 /\ s \in {1, 8}
  BY SizeFacts DEF SectorSizes, Small, Big
<1> DEFINE c == layout.cut
<1>c. c \in Nat /\ c % 8 = 0 /\ 2 * T + 4 * s <= Units + c
  BY <1>1, <1>4
<1>d. ToolSectors(s) = (Units + c) \div s /\ ToolTable(s) = T \div s
  BY DEF ToolSectors, ToolTable
<1> HIDE DEF T, m, n, c
<1>6. CASE s = 1
  <2>1. (Units + c) \div 1 = Units + c /\ T \div 1 = T
    BY <1>1, <1>2, <1>5, <1>c
  <2> QED
    BY <1>1, <1>2, <1>3, <1>5, <1>6, <1>c, <1>d, <2>1 DEF T, m, n, c
<1>7. CASE s = 8
  <2>1. ((Units + c) \div 8) * 8 = Units + c /\ (Units + c) \div 8 \in Nat
    BY <1>5, <1>c
  <2>2. T \div 8 \in Nat /\ (T \div 8) * 8 = T
    BY <1>2, <1>7
  <2>3. PICK S \in Nat : S = (Units + c) \div 8 /\ S * 8 = Units + c
    BY <2>1
  <2>4. PICK t \in Nat : t = T \div 8 /\ t * 8 = T
    BY <2>2
  <2>5. t >= 1 /\ 2 * t + 4 <= S /\ n <= t * 8 * 4
    BY <1>1, <1>2, <1>3, <1>7, <1>c, <2>3, <2>4
  <2> QED
    BY <1>1, <1>2, <1>3, <1>7, <1>c, <1>d, <2>3, <2>4, <2>5 DEF T, m, n, c
<1> QED
  BY <1>5, <1>6, <1>7

(* What a tool writes into each unit *)
LEMMA ToolUnits ==
    ASSUME LayoutInv, NEW s \in SectorSizes, CanFormat(layout, s), NEW lost, NEW mbr,
           NEW d, d = Formatted(layout, s, lost, mbr),
           NEW S \in Nat, S = ToolSectors(s), NEW t \in Nat, t = ToolTable(s),
           NEW m \in Nat, m = UnitsFor(layout.n)
    PROVE  /\ d = [u \in 0..(Units - 1) |-> d[u]]
           /\ d[0] = Mbr(mbr, S - 1)
           /\ \A u \in 1..(Units - 1) :
                d[u] = IF u = s /\ "primary" \notin lost THEN ToolHeader(1, S - 1, 2, s)
                       ELSE IF u \in 2*s..(2*s + m - 1) THEN Chunk(EntriesFor(s), u - 2*s)
                       ELSE IF u = (S - 1) * s /\ "backup" \notin lost
                       THEN ToolHeader(S - 1, 1, (S - 1) - t, s)
                       ELSE IF u \in ((S - 1) - t)*s..(((S - 1) - t)*s + m - 1)
                       THEN Chunk(EntriesFor(s), u - ((S - 1) - t)*s)
                       ELSE IF \E e \in layout.parts : u \in e.from..(e.to - 1) THEN Data
                       ELSE Zero
<1> DEFINE f(u) ==
       IF u = 0 THEN Mbr(mbr, S - 1)
       ELSE IF u = s /\ "primary" \notin lost THEN ToolHeader(1, S - 1, 2, s)
       ELSE IF u \in 2*s..(2*s + m - 1) THEN Chunk(EntriesFor(s), u - 2*s)
       ELSE IF u = (S - 1) * s /\ "backup" \notin lost
       THEN ToolHeader(S - 1, 1, (S - 1) - t, s)
       ELSE IF u \in ((S - 1) - t)*s..(((S - 1) - t)*s + m - 1)
       THEN Chunk(EntriesFor(s), u - ((S - 1) - t)*s)
       ELSE IF \E e \in layout.parts : u \in e.from..(e.to - 1) THEN Data
       ELSE Zero
<1>1. d = [u \in 0..(Units - 1) |-> f(u)]
  BY Zenon DEF Formatted, ToolHeader, ToolSectors, ToolTable, EntriesFor
<1>2. 0 \in 0..(Units - 1) /\ \A u \in 1..(Units - 1) : u \in 0..(Units - 1) /\ u # 0
  BY GptFixAssumption
<1>3. f(0) = Mbr(mbr, S - 1)
  OBVIOUS
<1>4. ASSUME NEW u \in 1..(Units - 1) PROVE d[u] = f(u)
  <2> HIDE DEF f
  <2> QED
    BY <1>1, <1>2, <1>4
<1>5. d = [u \in 0..(Units - 1) |-> d[u]] /\ d[0] = f(0)
  <2> HIDE DEF f
  <2> QED
    BY <1>1, <1>2
<1> QED
  BY <1>2, <1>3, <1>4, <1>5, Zenon

(* Its headers list the partitions. *)
LEMMA ToolHeaderFields ==
    ASSUME NEW my, NEW alt, NEW ptr, NEW s, NEW h, h = ToolHeader(my, alt, ptr, s)
    PROVE  /\ h.t = "hdr" /\ h.MyLBA = my /\ h.AlternateLBA = alt /\ h.PartitionEntryLBA = ptr
           /\ h.FirstUsableLBA = 2 + ToolTable(s)
           /\ h.LastUsableLBA = ToolSectors(s) - 2 - ToolTable(s)
           /\ h.NumberOfPartitionEntries = layout.n
           /\ h.crc = EntryArray(EntriesFor(s), layout.n)
  BY DEF ToolHeader, GPTHeader

(* The header that the partitioning tool left is good. *)
LEMMA ToolHeaderFacts ==
    ASSUME LayoutInv, NEW s \in SectorSizes, CanFormat(layout, s),
           NEW my \in Nat, NEW alt \in Nat, NEW ptr \in Int,
           layout.cut = 0 => alt < Sectors(s)
    PROVE  GoodHeader(ToolHeader(my, alt, ptr, s), my * s, s)
<1> DEFINE h == ToolHeader(my, alt, ptr, s)
<1>1. /\ h.t = "hdr" /\ h.MyLBA = my /\ h.AlternateLBA = alt /\ h.PartitionEntryLBA = ptr
      /\ h.FirstUsableLBA = 2 + ToolTable(s)
      /\ h.LastUsableLBA = ToolSectors(s) - 2 - ToolTable(s)
      /\ h.NumberOfPartitionEntries = layout.n
      /\ h.crc = EntryArray(EntriesFor(s), layout.n)
  BY ToolHeaderFields
<1> HIDE DEF h
<1>2. ToolTable(s) \in Nat /\ ToolSectors(s) \in Nat
  BY ToolNumbers
<1>3. layout.n \in Nat /\ \A e \in layout.parts : e.slot \in Nat /\ e.slot < layout.n
  BY LayoutFacts
<1>4. \A p \in EntriesFor(s) : p.slot \in Nat /\ p.slot < layout.n
  BY <1>3 DEF EntriesFor, Entry
<1>5. /\ DOMAIN h.crc = 0..(UnitsFor(layout.n) - 1) /\ Listed(h) = EntriesFor(s)
  BY <1>1, <1>3, <1>4, EntryArrayFacts DEF Listed
<1>6. Aligned(s)
  BY DEF CanFormat, Aligned
<1>7. h.FirstUsableLBA \in Int /\ h.LastUsableLBA \in Int
  BY <1>1, <1>2
<1>8. GoodHeader(h, my * s, s)
  BY <1>1, <1>3, <1>5, <1>6, <1>7 DEF GoodHeader
<1> QED
  BY <1>8 DEF h

(* A disk as the partitioning tool left it, with one of its tables lost or *)
(* cut off or none, meets the invariant.                                   *)
LEMMA InitDisk ==
    ASSUME LayoutInv, NEW s \in SectorSizes, CanFormat(layout, s), NEW lost, NEW mbr,
           disk = Formatted(layout, s, lost, mbr)
    PROVE  DiskInv /\ disk[0].t = "mbr"
<1> DEFINE m == UnitsFor(layout.n)
           c == layout.cut
<1>1. PICK S \in Nat, t \in Nat :
         /\ S = ToolSectors(s) /\ t = ToolTable(s) /\ S * s = Units + c
         /\ t >= 1 /\ t * s = RequiredUnits(layout.n, s) /\ 2 * t + 4 <= S
         /\ m \in Nat /\ m >= 1 /\ m <= t * s
  BY ToolNumbers
<1>2. /\ disk = [u \in 0..(Units - 1) |-> disk[u]]
      /\ disk[0] = Mbr(mbr, S - 1)
      /\ \A u \in 1..(Units - 1) :
           disk[u] = IF u = s /\ "primary" \notin lost THEN ToolHeader(1, S - 1, 2, s)
                  ELSE IF u \in 2*s..(2*s + m - 1) THEN Chunk(EntriesFor(s), u - 2*s)
                  ELSE IF u = (S - 1) * s /\ "backup" \notin lost
                  THEN ToolHeader(S - 1, 1, (S - 1) - t, s)
                  ELSE IF u \in ((S - 1) - t)*s..(((S - 1) - t)*s + m - 1)
                  THEN Chunk(EntriesFor(s), u - ((S - 1) - t)*s)
                  ELSE IF \E e \in layout.parts : u \in e.from..(e.to - 1) THEN Data
                  ELSE Zero
  BY <1>1, ToolUnits
<1>3. disk[0].t = "mbr"
  BY <1>2, ContentFacts
<1>s. /\ s \in {1, 8} /\ Units \in Nat /\ Units >= 48 /\ c \in Nat /\ c % 8 = 0
      /\ Sectors(s) \in Nat /\ Sectors(s) * s = Units /\ Units % 8 = 0
  BY SizeFacts, LayoutFacts DEF SectorSizes, Small, Big
<1> HIDE DEF c, m
<1>n. (S - 1) * s = Units + c - s /\ ((S - 1) - t) * s = (Units + c - s) - t * s
      /\ t * s \in Nat
  BY <1>1, <1>s
<1>4. ASSUME NEW s2 \in SectorSizes, NEW u \in HeaderUnits(s2), disk[u].t = "hdr"
      PROVE  GoodHeader(disk[u], u, s2)
  <2>0. s2 \in {1, 8} /\ (u = s2 \/ u = Units - s2) /\ u \in Int
    BY <1>4, <1>s DEF SectorSizes, Small, Big, HeaderUnits
  <2>1. u \in 1..(Units - 1)
    BY <1>s, <2>0
  <2>2. Data.t # "hdr" /\ Zero.t # "hdr" /\ \A a, b : Chunk(a, b).t # "hdr"
    BY ContentFacts DEF Data
  <2>3. \/ u = s /\ disk[u] = ToolHeader(1, S - 1, 2, s)
        \/ u = (S - 1) * s /\ disk[u] = ToolHeader(S - 1, 1, (S - 1) - t, s)
    <3> DEFINE p == u \in 2*s..(2*s + m - 1)
               q == u \in ((S - 1) - t)*s..(((S - 1) - t)*s + m - 1)
               r == \E e \in layout.parts : u \in e.from..(e.to - 1)
               A == ToolHeader(1, S - 1, 2, s)
               B == ToolHeader(S - 1, 1, (S - 1) - t, s)
               x == Chunk(EntriesFor(s), u - 2*s)
               y == Chunk(EntriesFor(s), u - ((S - 1) - t)*s)
    <3>1. disk[u] = IF u = s /\ "primary" \notin lost THEN A
                    ELSE IF p THEN x
                    ELSE IF u = (S - 1) * s /\ "backup" \notin lost THEN B
                    ELSE IF q THEN y ELSE IF r THEN Data ELSE Zero
      BY <1>2, <2>1, Zenon
    <3>2. x.t # "hdr" /\ y.t # "hdr"
      BY <2>2
    <3> HIDE DEF p, q, r, A, B, x, y
    <3>3. (u = s /\ disk[u] = A) \/ (u = (S - 1) * s /\ disk[u] = B)
      BY <1>4, <2>2, <3>1, <3>2
    <3> QED
      BY <3>3 DEF A, B
  <2>4. CASE u = s /\ disk[u] = ToolHeader(1, S - 1, 2, s)
    <3>1. s2 = s
      BY <1>s, <2>0, <2>4
    <3>2. S - 1 \in Nat /\ 2 \in Int /\ 1 \in Nat
      BY <1>1
    <3>3. layout.cut = 0 => S - 1 < Sectors(s)
      BY <1>1, <1>s DEF c
    <3>4. GoodHeader(disk[u], 1 * s, s)
      <4>1. PICK my \in Nat, alt \in Nat, ptr \in Int : my = 1 /\ alt = S - 1 /\ ptr = 2
        BY <3>2
      <4>2. GoodHeader(disk[u], my * s, s)
        <5>1. GoodHeader(ToolHeader(my, alt, ptr, s), my * s, s)
          BY <3>3, <4>1, ToolHeaderFacts
        <5> QED
          BY <2>4, <4>1, <5>1
      <4> QED
        BY <4>1, <4>2
    <3>5. 1 * s = u
      BY <1>s, <2>4
    <3> QED
      BY <3>1, <3>4, <3>5
  <2>5. CASE u = (S - 1) * s /\ disk[u] = ToolHeader(S - 1, 1, (S - 1) - t, s)
    <3>1. u = Units + c - s /\ u <= Units - 1
      BY <1>n, <2>1, <2>5
    <3>2. c = 0
      BY <1>s, <3>1
    <3>3. s2 = s
      BY <1>s, <2>0, <3>1, <3>2
    <3>4. S - 1 \in Nat /\ (S - 1) - t \in Int /\ 1 \in Nat
      BY <1>1
    <3>5. 1 < Sectors(s)
      BY <1>s
    <3>6. GoodHeader(disk[u], (S - 1) * s, s)
      <4>1. PICK my \in Nat, alt \in Nat, ptr \in Int :
               my = S - 1 /\ alt = 1 /\ ptr = (S - 1) - t
        BY <3>4
      <4>2. GoodHeader(disk[u], my * s, s)
        <5>1. GoodHeader(ToolHeader(my, alt, ptr, s), my * s, s)
          BY <3>5, <4>1, ToolHeaderFacts
        <5> QED
          BY <2>5, <4>1, <5>1
      <4> QED
        BY <4>1, <4>2
    <3> QED
      BY <2>5, <3>3, <3>6
  <2> QED
    BY <2>3, <2>4, <2>5
<1>5. ASSUME NEW e \in layout.parts, NEW u \in e.from..(e.to - 1), u \in 0..(Units - 1)
      PROVE  disk[u] = Data
  <2>1. e.from \in Nat /\ e.to \in Nat
    BY LayoutFacts
  <2>2. e.from >= 2 * s + t * s /\ e.to <= Units + c - s - t * s
    BY <1>1 DEF CanFormat, c
  <2> DEFINE T == t * s
             a == (S - 1) * s
             b == ((S - 1) - t) * s
  <2>3. T \in Nat /\ a = Units + c - s /\ b = (Units + c - s) - T /\ m <= T /\ m \in Nat /\ m >= 1
    BY <1>1, <1>n
  <2>4. u >= 2 * s + T /\ u < (Units + c - s) - T
    <3> HIDE DEF T
    <3>1. e.from >= 2 * s + T /\ e.to <= Units + c - s - T
      BY <2>2 DEF T
    <3> QED
      BY <1>5, <1>s, <2>1, <2>3, <3>1
  <2> HIDE DEF T, a, b
  <2>5. /\ u # s /\ ~(u \in 2*s..(2*s + m - 1)) /\ u # a /\ ~(u \in b..(b + m - 1))
        /\ u \in 1..(Units - 1)
    BY <1>5, <1>s, <2>3, <2>4
  <2> QED
    BY <1>2, <1>5, <2>5, Zenon DEF a, b
<1>6. HeadersInv
  BY <1>4 DEF HeadersInv
<1>7. DataKept
  <2>1. DOMAIN disk = 0..(Units - 1)
    BY <1>2
  <2> QED
    BY <1>5, <2>1 DEF DataKept
<1> QED
  BY <1>2, <1>3, <1>6, <1>7 DEF DiskInv

(* They pass the check of the program when the disk was not truncated.     *)
LEMMA ToolHeaderChecks ==
    ASSUME LayoutInv, NEW s \in SectorSizes, CanFormat(layout, s), layout.cut = 0,
           NEW S \in Nat, S = ToolSectors(s), NEW t \in Nat, t = ToolTable(s)
    PROVE  /\ S = Sectors(s)
           /\ check_gpt_header(ToolHeader(1, S - 1, 2, s), 1, s) = 1
           /\ check_gpt_header(ToolHeader(S - 1, 1, (S - 1) - t, s), S - 1, s) = 1
<1>1. /\ S * s = Units + 0 /\ t >= 1 /\ 2 * t + 4 <= S /\ layout.n <= t * s * 4
  BY ToolNumbers
<1>2. Sectors(s) \in Nat /\ Sectors(s) * s = Units /\ s \in {1, 8} /\ Units \in Nat
  BY SizeFacts DEF SectorSizes, Small, Big
<1>3. S = Sectors(s)
  BY <1>1, <1>2
<1>4. layout.n \in Nat /\ layout.n >= 1
  BY LayoutFacts
<1>5. check_gpt_header(ToolHeader(1, S - 1, 2, s), 1, s) = 1
  <2> DEFINE h == ToolHeader(1, S - 1, 2, s)
  <2>1. /\ h.AlternateLBA = S - 1 /\ h.PartitionEntryLBA = 2
        /\ h.FirstUsableLBA = 2 + t /\ h.LastUsableLBA = S - 2 - t
        /\ h.NumberOfPartitionEntries = layout.n
    BY ToolHeaderFields
  <2> HIDE DEF h
  <2>2. (h.FirstUsableLBA - h.PartitionEntryLBA) * s * 4 >= layout.n
    <3>1. h.FirstUsableLBA - h.PartitionEntryLBA = t
      BY <2>1
    <3> QED
      BY <1>1, <1>2, <1>4, <3>1
  <2>3. /\ ~(h.FirstUsableLBA < 3) /\ ~(h.LastUsableLBA < h.FirstUsableLBA)
        /\ ~(h.PartitionEntryLBA # 2) /\ ~(h.LastUsableLBA >= h.AlternateLBA)
        /\ ~(h.AlternateLBA >= Sectors(s)) /\ ~(h.NumberOfPartitionEntries < 1)
    BY <1>1, <1>3, <1>4, <2>1
  <2>4. ~((h.FirstUsableLBA - h.PartitionEntryLBA) * s * PerUnit < h.NumberOfPartitionEntries)
    BY <1>2, <1>4, <2>1, <2>2 DEF PerUnit
  <2>5. check_gpt_header(h, 1, s) = 1
    BY <2>3, <2>4, Zenon DEF check_gpt_header
  <2> QED
    BY <2>5 DEF h
<1>6. check_gpt_header(ToolHeader(S - 1, 1, (S - 1) - t, s), S - 1, s) = 1
  <2> DEFINE h == ToolHeader(S - 1, 1, (S - 1) - t, s)
  <2>1. /\ h.AlternateLBA = 1 /\ h.PartitionEntryLBA = (S - 1) - t /\ h.MyLBA = S - 1
        /\ h.FirstUsableLBA = 2 + t /\ h.LastUsableLBA = S - 2 - t
        /\ h.NumberOfPartitionEntries = layout.n
    BY ToolHeaderFields
  <2> HIDE DEF h
  <2>2. (h.MyLBA - h.PartitionEntryLBA) * s * 4 >= layout.n
    <3>1. h.MyLBA - h.PartitionEntryLBA = t
      BY <2>1
    <3> QED
      BY <1>1, <1>2, <1>4, <3>1
  <2>3. /\ ~(h.FirstUsableLBA < 3) /\ ~(h.LastUsableLBA < h.FirstUsableLBA)
        /\ ~(h.AlternateLBA # 1) /\ ~(h.LastUsableLBA >= h.PartitionEntryLBA)
        /\ ~(h.PartitionEntryLBA >= h.MyLBA) /\ ~(h.NumberOfPartitionEntries < 1)
        /\ S - 1 # 1
    BY <1>1, <1>3, <1>4, <2>1
  <2>4. ~((h.MyLBA - h.PartitionEntryLBA) * s * PerUnit < h.NumberOfPartitionEntries)
    BY <1>2, <1>4, <2>1, <2>2 DEF PerUnit
  <2>5. check_gpt_header(h, S - 1, s) = 1
    BY <2>3, <2>4, Zenon DEF check_gpt_header
  <2> QED
    BY <2>5 DEF h
<1> QED
  BY <1>3, <1>5, <1>6

(* The status of a table that is whole *)
LEMMA WholeStatus ==
    ASSUME NEW s, NEW offset, NEW h,
           ~(offset >= Sectors(s)), ~(offset # 1 /\ offset < 5), h.t = "hdr",
           check_gpt_header(h, offset, s) = 1,
           ~(\E p \in Listed(h) : \/ p.StartingLBA < h.FirstUsableLBA
                                  \/ p.EndingLBA > h.LastUsableLBA)
    PROVE  Judge(h, h.crc, offset, s).status = IF Listed(h) = {} THEN EXIT_UNSUPPORTED ELSE 1
<1>1. Judge(h, h.crc, offset, s) =
        IF Listed(h) = {} THEN [NoGpt EXCEPT !.status = EXIT_UNSUPPORTED]
        ELSE [status |-> 1, sector_size |-> s, header |-> h, entries |-> Listed(h)]
  BY Zenon DEF Judge
<1>2. [NoGpt EXCEPT !.status = EXIT_UNSUPPORTED].status = EXIT_UNSUPPORTED
  BY DEF NoGpt
<1> QED
  BY <1>1, <1>2

(* One of the two GPTs is there at the start. *)
LEMMA InitFound ==
    ASSUME LayoutInv, NEW s \in SectorSizes, CanFormat(layout, s), NEW lost \in Lost, NEW mbr,
           disk = Formatted(layout, s, lost, mbr), layout.cut = 0
    PROVE  \E offset \in {1, Sectors(s) - 1} :
              read_and_check_gpt(disk, offset, s).status =
                 IF layout.parts = {} THEN EXIT_UNSUPPORTED ELSE 1
<1> DEFINE m == UnitsFor(layout.n)
           E == EntriesFor(s)
<1>1. PICK S \in Nat, t \in Nat :
         /\ S = ToolSectors(s) /\ t = ToolTable(s) /\ S * s = Units + 0
         /\ t >= 1 /\ 2 * t + 4 <= S /\ m \in Nat /\ m >= 1 /\ m <= t * s
         /\ t * s = RequiredUnits(layout.n, s)
  BY ToolNumbers
<1>2. /\ S = Sectors(s)
      /\ check_gpt_header(ToolHeader(1, S - 1, 2, s), 1, s) = 1
      /\ check_gpt_header(ToolHeader(S - 1, 1, (S - 1) - t, s), S - 1, s) = 1
  BY <1>1, ToolHeaderChecks
<1>3. \A u \in 1..(Units - 1) :
           disk[u] = IF u = s /\ "primary" \notin lost THEN ToolHeader(1, S - 1, 2, s)
                  ELSE IF u \in 2*s..(2*s + m - 1) THEN Chunk(E, u - 2*s)
                  ELSE IF u = (S - 1) * s /\ "backup" \notin lost
                  THEN ToolHeader(S - 1, 1, (S - 1) - t, s)
                  ELSE IF u \in ((S - 1) - t)*s..(((S - 1) - t)*s + m - 1)
                  THEN Chunk(E, u - ((S - 1) - t)*s)
                  ELSE IF \E e \in layout.parts : u \in e.from..(e.to - 1) THEN Data
                  ELSE Zero
  BY <1>1, ToolUnits
<1>s. s \in {1, 8} /\ Units \in Nat /\ Units >= 48 /\ Sectors(s) >= 6
  BY SizeFacts DEF SectorSizes, Small, Big
<1>4. E = {} <=> layout.parts = {}
  BY DEF EntriesFor
<1>5. ASSUME NEW p \in E PROVE ~(p.StartingLBA < 2 + t) /\ ~(p.EndingLBA > S - 2 - t)
  <2>1. PICK e \in layout.parts : p = Entry(e, s)
    BY <1>5 DEF EntriesFor
  <2>2. /\ e.from % s = 0 /\ e.to % s = 0 /\ e.from >= 2 * s + t * s
        /\ e.to <= Units + 0 - s - t * s
    BY <1>1 DEF CanFormat
  <2>3. /\ p.StartingLBA \in Nat /\ p.EndingLBA \in Nat
        /\ p.StartingLBA * s = e.from /\ (p.EndingLBA + 1) * s = e.to
    BY <2>1, <2>2, EntryFacts DEF Start, End
  <2>4. e.from \in Nat /\ e.to \in Nat
    BY LayoutFacts
  <2> QED
    BY <1>1, <1>s, <2>2, <2>3, <2>4
<1> HIDE DEF E, m
<1>6. CASE "primary" \notin lost
  <2> DEFINE h == ToolHeader(1, S - 1, 2, s)
  <2>1. /\ h.t = "hdr" /\ h.PartitionEntryLBA = 2
        /\ h.FirstUsableLBA = 2 + t /\ h.LastUsableLBA = S - 2 - t
        /\ h.crc = EntryArray(E, layout.n)
    BY <1>1, ToolHeaderFields DEF E
  <2>2. GoodHeader(h, 1 * s, s)
    <3>1. PICK my \in Nat, alt \in Nat, ptr \in Int : my = 1 /\ alt = S - 1 /\ ptr = 2
      <4>1. S - 1 \in Nat /\ 1 \in Nat /\ 2 \in Int
        BY <1>1
      <4> QED
        BY <4>1
    <3>2. alt < Sectors(s)
      BY <1>1, <1>2, <3>1
    <3>3. GoodHeader(ToolHeader(my, alt, ptr, s), my * s, s)
      BY <3>2, ToolHeaderFacts
    <3> QED
      BY <3>1, <3>3
  <2> HIDE DEF h
  <2>3. disk[1 * s] = h
    <3>1. s \in 1..(Units - 1) /\ 1 * s = s
      BY <1>s
    <3> QED
      BY <1>3, <1>6, <3>1, Zenon DEF h
  <2>4. h.crc = [i \in 0..(m - 1) |-> Chunk(E, i)]
    BY <2>1 DEF EntryArray, m
  <2>5. ASSUME NEW i \in 0..(m - 1) PROVE disk[2 * s + i] = Chunk(E, i)
    <3> DEFINE u == 2 * s + i
    <3>1. u \in 1..(Units - 1) /\ u # s /\ u \in 2*s..(2*s + m - 1) /\ u - 2*s = i
      <4>1. PICK T \in Nat : T = t * s /\ m <= T /\ 2 * T + 4 * s <= Units
        BY <1>1, <1>s
      <4> QED
        BY <1>1, <1>s, <2>5, <4>1
    <3> HIDE DEF u
    <3>2. disk[u] = Chunk(E, u - 2*s)
      BY <1>3, <3>1, Zenon
    <3> QED
      BY <3>1, <3>2 DEF u
  <2>6. [i \in DOMAIN h.crc |-> disk[h.PartitionEntryLBA * s + i]] = h.crc
    BY <2>1, <2>4, <2>5
  <2>7. Listed(h) = E
    BY <2>2 DEF GoodHeader, E
  <2>8. ~(\E p \in Listed(h) : \/ p.StartingLBA < h.FirstUsableLBA
                               \/ p.EndingLBA > h.LastUsableLBA)
    BY <1>5, <2>1, <2>7
  <2>9. check_gpt_header(h, 1, s) = 1 /\ ~(1 >= Sectors(s)) /\ ~(1 # 1 /\ 1 < 5)
    BY <1>2, <1>s, SizeFacts DEF h
  <2>10. read_and_check_gpt(disk, 1, s).status = IF Listed(h) = {} THEN EXIT_UNSUPPORTED ELSE 1
    <3>1. Judge(h, h.crc, 1, s).status = IF Listed(h) = {} THEN EXIT_UNSUPPORTED ELSE 1
      BY <2>1, <2>8, <2>9, WholeStatus, Zenon
    <3>2. read_and_check_gpt(disk, 1, s) = Judge(h, h.crc, 1, s)
      BY <2>3, <2>6, ReadJudges
    <3> QED
      BY <3>1, <3>2
  <2> QED
    BY <1>4, <2>7, <2>10
<1>7. CASE "primary" \in lost
  <2> DEFINE h == ToolHeader(S - 1, 1, (S - 1) - t, s)
             a == (S - 1) * s
             b == ((S - 1) - t) * s
  <2>0. "backup" \notin lost
    BY <1>7, GptFixAssumption
  <2>1. /\ h.t = "hdr" /\ h.PartitionEntryLBA = (S - 1) - t
        /\ h.FirstUsableLBA = 2 + t /\ h.LastUsableLBA = S - 2 - t
        /\ h.crc = EntryArray(E, layout.n)
    BY <1>1, ToolHeaderFields DEF E
  <2>2. GoodHeader(h, (S - 1) * s, s)
    <3>1. PICK my \in Nat, alt \in Nat, ptr \in Int : my = S - 1 /\ alt = 1 /\ ptr = (S - 1) - t
      BY <1>1
    <3>2. alt < Sectors(s)
      BY <1>1, <1>2, <3>1
    <3>3. GoodHeader(ToolHeader(my, alt, ptr, s), my * s, s)
      BY <3>2, ToolHeaderFacts
    <3> QED
      BY <3>1, <3>3
  <2>n. PICK T \in Nat : /\ T = t * s /\ m <= T /\ 2 * T + 4 * s <= Units
                         /\ a = Units - s /\ b = Units - s - T
    BY <1>1, <1>s
  <2> HIDE DEF h, a, b
  <2>3. disk[a] = h
    <3>1. a \in 1..(Units - 1) /\ a # s /\ ~(a \in 2*s..(2*s + m - 1))
      BY <1>1, <1>s, <2>n
    <3> QED
      BY <1>3, <2>0, <3>1, Zenon DEF h, a
  <2>4. h.crc = [i \in 0..(m - 1) |-> Chunk(E, i)]
    BY <2>1 DEF EntryArray, m
  <2>5. ASSUME NEW i \in 0..(m - 1) PROVE disk[b + i] = Chunk(E, i)
    <3> DEFINE u == b + i
    <3>1. /\ u \in 1..(Units - 1) /\ u # s /\ ~(u \in 2*s..(2*s + m - 1)) /\ u # a
          /\ u \in b..(b + m - 1) /\ u - b = i
      <4>1. m \in Nat /\ i \in Nat /\ i <= m - 1
        BY <1>1, <2>5
      <4>2. b = Units - s - T /\ a = Units - s /\ m <= T /\ 2 * T + 4 * s <= Units
        BY <2>n
      <4> QED
        BY <1>s, <4>1, <4>2
    <3> HIDE DEF u
    <3>2. disk[u] = Chunk(E, u - b)
      BY <1>3, <3>1, Zenon DEF a, b
    <3> QED
      BY <3>1, <3>2 DEF u
  <2>6. [i \in DOMAIN h.crc |-> disk[h.PartitionEntryLBA * s + i]] = h.crc
    BY <2>1, <2>4, <2>5 DEF b
  <2>7. Listed(h) = E
    BY <2>2 DEF GoodHeader, E
  <2>8. ~(\E p \in Listed(h) : \/ p.StartingLBA < h.FirstUsableLBA
                               \/ p.EndingLBA > h.LastUsableLBA)
    BY <1>5, <2>1, <2>7
  <2>9. check_gpt_header(h, S - 1, s) = 1 /\ ~(S - 1 >= Sectors(s)) /\ ~(S - 1 # 1 /\ S - 1 < 5)
    <3>1. ~(S - 1 >= Sectors(s)) /\ ~(S - 1 # 1 /\ S - 1 < 5)
      BY <1>2, <1>s
    <3> QED
      BY <1>2, <3>1 DEF h
  <2>10. PICK o : o = S - 1
    OBVIOUS
  <2>11. read_and_check_gpt(disk, o, s).status = IF Listed(h) = {} THEN EXIT_UNSUPPORTED ELSE 1
    <3>1. h = disk[o * s]
      BY <2>3, <2>10 DEF a
    <3>2. ~(o >= Sectors(s)) /\ ~(o # 1 /\ o < 5) /\ check_gpt_header(h, o, s) = 1
      BY <2>9, <2>10
    <3>3. Judge(h, h.crc, o, s).status = IF Listed(h) = {} THEN EXIT_UNSUPPORTED ELSE 1
      BY <2>1, <2>8, <3>2, WholeStatus, Zenon
    <3>4. read_and_check_gpt(disk, o, s) = Judge(h, h.crc, o, s)
      BY <2>6, <3>1, ReadJudges
    <3> QED
      BY <3>3, <3>4
  <2> QED
    BY <1>2, <1>4, <2>7, <2>10, <2>11
<1> QED
  BY <1>6, <1>7

(* gptfix finds such a disk. *)
LEMMA InitKeeps ==
    ASSUME Init
    PROVE  GptFixInv /\ ExitInv
<1>1. LayoutInv /\ pc = "idle" /\ code = Running
  BY DEF Init, LayoutInv
<1>2. PICK s \in SectorSizes, lost \in Lost, mbr \in Mbrs :
         CanFormat(layout, s) /\ disk = Formatted(layout, s, lost, mbr)
  BY DEF Init
<1>3. DiskInv /\ disk[0].t = "mbr"
  BY <1>1, <1>2, InitDisk
<1>4. FoundInv
  BY <1>1, <1>2, InitFound DEF FoundInv
<1>5. GptFixInv
  BY <1>1, <1>3, <1>4 DEF GptFixInv, GptInv, QueueInv, ProgressInv
<1>6. ExitInv
  BY <1>1, <1>3 DEF ExitInv, Places, Running, EXIT_NOT_PARTITIONED, EXIT_INVALID_GPT,
                    EXIT_TRUNCATED
<1> QED
  BY <1>5, <1>6

-----------------------------------------------------------------------------
(* The exit status *)

(* check_gpt_header() (gpt.c:441) finds a disk truncated only when the     *)
(* primary header has the backup one beyond its end.                       *)
LEMMA CheckCases ==
    ASSUME NEW h, NEW offset, NEW s
    PROVE  /\ check_gpt_header(h, offset, s) \in {0, 1, EXIT_TRUNCATED}
           /\ check_gpt_header(h, offset, s) = EXIT_TRUNCATED => h.AlternateLBA >= Sectors(s)
<1> DEFINE table == IF offset # 1 THEN h.MyLBA - h.PartitionEntryLBA
                    ELSE h.FirstUsableLBA - h.PartitionEntryLBA
           misplaced == IF offset # 1
                        THEN \/ h.AlternateLBA # 1
                             \/ h.LastUsableLBA >= h.PartitionEntryLBA
                             \/ h.PartitionEntryLBA >= h.MyLBA
                        ELSE \/ h.PartitionEntryLBA # 2
                             \/ h.LastUsableLBA >= h.AlternateLBA
           A == h.FirstUsableLBA < 3 \/ h.LastUsableLBA < h.FirstUsableLBA \/ misplaced
           B == offset = 1 /\ h.AlternateLBA >= Sectors(s)
           C == h.NumberOfPartitionEntries < 1
                \/ table * s * PerUnit < h.NumberOfPartitionEntries
           c == check_gpt_header(h, offset, s)
<1>1. c = IF A THEN 0 ELSE IF B THEN EXIT_TRUNCATED ELSE IF C THEN 0 ELSE 1
  BY Zenon DEF check_gpt_header
<1>2. B => h.AlternateLBA >= Sectors(s)
  BY Zenon
<1>3. EXIT_TRUNCATED # 0 /\ EXIT_TRUNCATED # 1
  BY DEF EXIT_TRUNCATED
<1> HIDE DEF A, B, C, c
<1>4. c \in {0, 1, EXIT_TRUNCATED} /\ (c = EXIT_TRUNCATED => B)
  BY <1>1, <1>3
<1> QED
  BY <1>2, <1>4 DEF c

(* The statuses that read_and_check_gpt() can end with; a truncated disk   *)
(* is one that was cut.                                                    *)
LEMMA ReadStatus ==
    ASSUME LayoutInv, HeadersInv, NEW s \in SectorSizes, NEW offset \in {1, Sectors(s) - 1},
           NEW st, st = read_and_check_gpt(disk, offset, s).status
    PROVE  /\ st \in {0, 1, EXIT_UNSUPPORTED, EXIT_TRUNCATED}
           /\ st = EXIT_TRUNCATED => layout.cut # 0
<1> DEFINE h == disk[offset * s]
           array == [i \in DOMAIN h.crc |-> disk[h.PartitionEntryLBA * s + i]]
           c == check_gpt_header(h, offset, s)
           A == offset >= Sectors(s) \/ (offset # 1 /\ offset < 5) \/ h.t # "hdr"
           B == \/ array # h.crc
                \/ \E p \in Listed(h) : \/ p.StartingLBA < h.FirstUsableLBA
                                        \/ p.EndingLBA > h.LastUsableLBA
           good == [status |-> 1, sector_size |-> s, header |-> h, entries |-> Listed(h)]
           g == read_and_check_gpt(disk, offset, s)
<1>1. g = IF A THEN NoGpt
          ELSE IF c # 1 THEN [NoGpt EXCEPT !.status = c]
          ELSE IF B THEN NoGpt
          ELSE IF Listed(h) = {} THEN [NoGpt EXCEPT !.status = EXIT_UNSUPPORTED]
          ELSE good
  BY Zenon DEF read_and_check_gpt, Listed
<1>2. NoGpt.status = 0 /\ \A x : [NoGpt EXCEPT !.status = x].status = x
  BY DEF NoGpt
<1>3. good.status = 1
  OBVIOUS
<1>4. c \in {0, 1, EXIT_TRUNCATED} /\ (c = EXIT_TRUNCATED => h.AlternateLBA >= Sectors(s))
  BY CheckCases
<1>5. ~A => h.t = "hdr"
  BY Zenon
<1> HIDE DEF A, B, c, g, good, array
<1>6. /\ g.status \in {0, 1, EXIT_UNSUPPORTED, EXIT_TRUNCATED}
      /\ g.status = EXIT_TRUNCATED => ~A /\ c = EXIT_TRUNCATED
  <2>1. EXIT_TRUNCATED = 8 /\ EXIT_UNSUPPORTED = 3
    BY DEF EXIT_TRUNCATED, EXIT_UNSUPPORTED
  <2>2. CASE A
    BY <1>1, <1>2, <2>1, <2>2
  <2>3. CASE ~A /\ c # 1
    BY <1>1, <1>2, <1>4, <2>1, <2>3
  <2>4. CASE ~A /\ c = 1 /\ B
    BY <1>1, <1>2, <2>1, <2>4
  <2>5. CASE ~A /\ c = 1 /\ ~B
    BY <1>1, <1>2, <1>3, <2>1, <2>5
  <2> QED
    BY <2>2, <2>3, <2>4, <2>5
<1>7. ASSUME st = EXIT_TRUNCATED PROVE layout.cut # 0
  <2>1. h.t = "hdr" /\ h.AlternateLBA >= Sectors(s)
    BY <1>4, <1>5, <1>6, <1>7 DEF g
  <2>2. GoodHeader(h, offset * s, s)
    BY <2>1, HeaderUnitFacts DEF HeadersInv
  <2>3. h.AlternateLBA \in Nat /\ Sectors(s) \in Nat /\ (layout.cut = 0 => h.AlternateLBA < Sectors(s))
    BY <2>2, SizeFacts DEF GoodHeader
  <2> HIDE DEF h
  <2> QED
    BY <2>1, <2>3
<1> QED
  BY <1>6, <1>7 DEF g

(* The four places where main() looks are all there are.                   *)
LEMMA PlaceFacts ==
    ASSUME dev \in SectorSizes
    PROVE  /\ \A place \in Places : /\ SizeAt(place) \in SectorSizes
                                    /\ OffsetAt(place) \in {1, Sectors(SizeAt(place)) - 1}
           /\ \A s \in SectorSizes : \A offset \in {1, Sectors(s) - 1} :
                 \E place \in Places : OffsetAt(place) = offset /\ SizeAt(place) = s
<1>1. Other \in SectorSizes /\ SectorSizes = {dev, Other}
  BY SizesDiffer
<1>2. ASSUME NEW place \in Places
      PROVE  /\ SizeAt(place) \in SectorSizes
             /\ OffsetAt(place) \in {1, Sectors(SizeAt(place)) - 1}
  BY <1>1, <1>2 DEF SizeAt, OffsetAt, Places
<1>3. /\ SizeAt("new_primary") = dev /\ OffsetAt("new_primary") = 1
      /\ SizeAt("new_backup") = dev /\ OffsetAt("new_backup") = Sectors(dev) - 1
      /\ SizeAt("old_primary") = Other /\ OffsetAt("old_primary") = 1
      /\ SizeAt("old_backup") = Other /\ OffsetAt("old_backup") = Sectors(Other) - 1
  BY DEF SizeAt, OffsetAt
<1>4. /\ "new_primary" \in Places /\ "new_backup" \in Places
      /\ "old_primary" \in Places /\ "old_backup" \in Places
  BY DEF Places
<1>5. ASSUME NEW s \in SectorSizes, NEW offset \in {1, Sectors(s) - 1}
      PROVE  \E place \in Places : OffsetAt(place) = offset /\ SizeAt(place) = s
  <2>1. CASE s = dev
    BY <1>3, <1>4, <1>5, <2>1
  <2>2. CASE s = Other
    BY <1>3, <1>4, <1>5, <2>2
  <2> QED
    BY <1>1, <2>1, <2>2
<1> QED
  BY <1>2, <1>5

(* A search that ends with a status for a bare disk has looked at one.     *)
LEMMA ReadKeepsExit ==
    ASSUME GptFixInv, ExitInv, NEW place \in Places, Read(place)
    PROVE  ExitInv'
<1> DEFINE g == read_and_check_gpt(disk, OffsetAt(place), SizeAt(place))
           N == {EXIT_NOT_PARTITIONED, EXIT_INVALID_GPT, EXIT_TRUNCATED}
<1>0. /\ layout' = layout /\ dev' = dev /\ disk' = disk /\ dev \in SectorSizes /\ pc = place
      /\ LayoutInv /\ HeadersInv /\ disk[0].t = "mbr"
  BY DEF Read, diskVars, GptFixInv, LayoutInv, DiskInv, ExitInv
<1>1. /\ SizeAt(place) \in SectorSizes
      /\ OffsetAt(place) \in {1, Sectors(SizeAt(place)) - 1}
  BY <1>0, PlaceFacts
<1>2. /\ g.status \in {0, 1, EXIT_UNSUPPORTED, EXIT_TRUNCATED}
      /\ g.status = EXIT_TRUNCATED => layout.cut # 0
  BY <1>0, <1>1, ReadStatus
<1>3. Bare => Bare'
  BY <1>0 DEF Bare
<1>4. \A p \in Before(place) : read_and_check_gpt(disk, OffsetAt(p), SizeAt(p)).status = 0
  BY <1>0 DEF ExitInv
<1>5. ASSUME g.status = 0, place = "old_backup" PROVE layout.cut # 0
  <2>1. ASSUME NEW p \in Places
        PROVE  read_and_check_gpt(disk, OffsetAt(p), SizeAt(p)).status = 0
    <3>1. p \in Before(place) \/ p = place
      BY <1>5 DEF Places, Before
    <3> QED
      BY <1>4, <1>5, <3>1
  <2>2. ASSUME NEW s \in SectorSizes, NEW offset \in {1, Sectors(s) - 1}
        PROVE  read_and_check_gpt(disk, offset, s).status = 0
    BY <1>0, <2>1, <2>2, PlaceFacts
  <2> QED
    BY <2>2 DEF GptFixInv, FoundInv, EXIT_UNSUPPORTED
<1> HIDE DEF g
<1>6. CASE g.status = 0 /\ place # "old_backup"
  <2>1. pc' = NextPlace(place)
    BY <1>6, <1>2 DEF Read, Goto, Exit, g
  <2>2. pc' \in Places /\ Before(pc') = Before(place) \cup {place}
    BY <1>6, <2>1 DEF NextPlace, Places, Before
  <2>3. pc' # "idle"
    BY <2>2 DEF Places
  <2>4. ASSUME NEW p \in Before(place) \cup {place}
        PROVE  read_and_check_gpt(disk', OffsetAt(p)', SizeAt(p)').status = 0
    <3>1. OffsetAt(p)' = OffsetAt(p) /\ SizeAt(p)' = SizeAt(p)
      BY <1>0 DEF OffsetAt, SizeAt, Other
    <3> QED
      BY <1>0, <1>4, <1>6, <2>4, <3>1 DEF g
  <2> QED
    BY <1>0, <2>2, <2>3, <2>4 DEF ExitInv
<1>7. CASE ~(g.status = 0 /\ place # "old_backup")
  <2>1. pc' \notin Places
    BY <1>7 DEF Read, Exit, Places, g
  <2>2. ASSUME pc' = "idle", code' \in N PROVE Bare
    <3>1. \/ g.status = 0 /\ place = "old_backup"
          \/ g.status > 1 /\ code' = g.status
          \/ code' = 0 \/ code' = EXIT_NEEDS_FIX
      BY <1>7, <2>2 DEF Read, Exit, g
    <3>2. code' # 0 /\ code' # EXIT_NEEDS_FIX /\ code' # EXIT_UNSUPPORTED /\ code' # 1
      BY <2>2 DEF EXIT_NOT_PARTITIONED, EXIT_INVALID_GPT, EXIT_TRUNCATED,
                  EXIT_NEEDS_FIX, EXIT_UNSUPPORTED
    <3>3. layout.cut # 0
      BY <1>2, <1>5, <3>1, <3>2
    <3> QED
      BY <3>3 DEF Bare
  <2> QED
    BY <1>0, <1>3, <2>1, <2>2 DEF ExitInv
<1> QED
  BY <1>6, <1>7

(* An end of the program that says nothing about the disk, or no end       *)
LEMMA OtherKeepsExit ==
    ASSUME ExitInv, UNCHANGED <<layout, disk>>, pc' \notin Places,
           pc' = "idle" => code' \notin {EXIT_NOT_PARTITIONED, EXIT_INVALID_GPT, EXIT_TRUNCATED}
    PROVE  ExitInv'
  BY DEF ExitInv

(* A protective MBR that is refused gives its exit status (gpt.c: main). *)
LEMMA CheckMbrKeepsExit ==
    ASSUME GptFixInv, ExitInv, CheckMbr
    PROVE  ExitInv'
<1>0. disk' = disk /\ layout' = layout /\ disk[0].t = "mbr"
  BY DEF CheckMbr, diskVars, ExitInv
<1>1. CASE MbrStatus(disk[0]) # 0
  <2>1. pc' = "idle"
    BY <1>1 DEF CheckMbr, Exit
  <2>2. disk[0].kind # "protective"
    BY <1>0, <1>1 DEF MbrStatus
  <2> QED
    BY <1>0, <2>1, <2>2 DEF ExitInv, Bare, Places
<1>2. CASE MbrStatus(disk[0]) = 0
  <2>1. pc' = "new_primary"
    BY <1>2 DEF CheckMbr, Goto
  <2> QED
    BY <1>0, <2>1 DEF ExitInv, Before
<1> QED
  BY <1>1, <1>2

(* Writing a sector does not decide about the exit status. *)
LEMMA WriteKeepsExit ==
    ASSUME GptFixInv, ExitInv, NEW i \in pend, WriteSector(i)
    PROVE  ExitInv'
<1>1. disk'[0] = disk[0] \/ disk'[0] = Mbr("protective", Sectors(dev) - 1)
  BY WriteKeepsMbr
<1>2. disk'[0].t = "mbr"
  BY <1>1, ContentFacts DEF ExitInv
<1>3. pc' \in {"write", "reload"}
  BY DEF WriteSector
<1> QED
  BY <1>2, <1>3 DEF ExitInv, Places

-----------------------------------------------------------------------------
(* gptfix as a whole *)

(* Every step of gptfix, of whoever starts it and of a power failure keeps *)
(* the invariant.                                                          *)
LEMMA GptFixKeeps ==
    ASSUME GptFixInv, ExitInv, Next
    PROVE  GptFixInv' /\ ExitInv'
<1> USE DEF diskVars, Exit, Running, EXIT_NOT_PARTITIONED, EXIT_INVALID_GPT, EXIT_TRUNCATED
<1>0. dev \in SectorSizes
  BY DEF GptFixInv, LayoutInv
<1>1. ASSUME NEW s \in SectorSizes, Attach(s) PROVE GptFixInv' /\ ExitInv'
  <2>1. /\ UNCHANGED <<layout, disk>> /\ dev' \in SectorSizes /\ pc' = "idle" /\ code' = Running
    BY <1>1 DEF Attach
  <2> QED
    BY <2>1, IdleKeeps, OtherKeepsExit DEF Places
<1>2. ASSUME NEW m \in {"check", "fix"}, Run(m) PROVE GptFixInv' /\ ExitInv'
  <2>1. /\ UNCHANGED <<layout, disk>> /\ dev' = dev /\ pc' = "mbr"
    BY <1>2 DEF Run
  <2> QED
    BY <1>0, <2>1, IdleKeeps, OtherKeepsExit DEF Places
<1>3. CASE CheckMbr
  <2>1. /\ UNCHANGED <<layout, disk>> /\ dev' = dev /\ pc' \in {"idle", "new_primary"}
    BY <1>3 DEF CheckMbr, Goto
  <2> QED
    BY <1>0, <1>3, <2>1, IdleKeeps, CheckMbrKeepsExit
<1>4. ASSUME NEW place \in Places, Read(place) PROVE GptFixInv' /\ ExitInv'
  BY <1>4, ReadKeeps, ReadKeepsExit
<1>5. CASE SetupError
  <2>1. /\ UNCHANGED <<layout, disk>> /\ dev' = dev /\ pc' = "idle" /\ code' = EXIT_FAILURE
    BY <1>5 DEF SetupError
  <2> QED
    BY <1>0, <2>1, IdleKeeps, OtherKeepsExit DEF Places, EXIT_FAILURE
<1>6. CASE HeaderReadError
  <2>1. /\ UNCHANGED <<layout, disk>> /\ dev' = dev /\ pc' = "idle" /\ code' = EXIT_IO
    BY <1>6 DEF HeaderReadError
  <2> QED
    BY <1>0, <2>1, IdleKeeps, OtherKeepsExit DEF Places, EXIT_IO
<1>7. CASE EntriesReadError
  <2>1. /\ UNCHANGED <<layout, disk>> /\ dev' = dev /\ pc' = "idle" /\ code' = 0
    BY <1>7 DEF EntriesReadError
  <2> QED
    BY <1>0, <2>1, IdleKeeps, OtherKeepsExit DEF Places
<1>8. CASE Adjust
  <2>1. /\ UNCHANGED <<layout, disk>>
        /\ \/ pc' = "idle" /\ code' = EXIT_CONSTRAINT
           \/ pc' = "write"
    BY <1>8 DEF Adjust
  <2>2. ExitInv'
    BY <2>1, OtherKeepsExit DEF Places, EXIT_CONSTRAINT
  <2> QED
    BY <1>8, <2>2, AdjustKeeps
<1>9. ASSUME NEW i \in pend, WriteSector(i) PROVE GptFixInv' /\ ExitInv'
  BY <1>9, WriteKeeps, WriteKeepsExit
<1>10. CASE WriteError
  <2>1. /\ UNCHANGED <<layout, disk>> /\ dev' = dev /\ pc' = "idle" /\ code' = EXIT_IO
    BY <1>10 DEF WriteError
  <2> QED
    BY <1>0, <2>1, IdleKeeps, OtherKeepsExit DEF Places, EXIT_IO
<1>11. CASE Reload
  <2>1. /\ UNCHANGED <<layout, disk>> /\ dev' = dev /\ pc' = "idle" /\ code' = 0
    BY <1>11 DEF Reload
  <2> QED
    BY <1>0, <2>1, IdleKeeps, OtherKeepsExit DEF Places
<1>12. CASE Crash
  <2>1. /\ UNCHANGED <<layout, disk>> /\ dev' = dev /\ pc' = "idle" /\ code' = Running
    BY <1>12 DEF Crash
  <2> QED
    BY <1>0, <2>1, IdleKeeps, OtherKeepsExit DEF Places
<1> QED
  BY <1>1, <1>2, <1>3, <1>4, <1>5, <1>6, <1>7, <1>8, <1>9, <1>10, <1>11, <1>12 DEF Next

(* The boot goes on while gptfix does nothing. *)
LEMMA GptFixStutters ==
    ASSUME GptFixInv, ExitInv, UNCHANGED vars
    PROVE  GptFixInv' /\ ExitInv'
<1>0. /\ layout' = layout /\ dev' = dev /\ disk' = disk /\ pc' = pc /\ gpt' = gpt
      /\ used_primary' = used_primary /\ queue' = queue /\ pend' = pend /\ code' = code
  BY DEF vars, diskVars, runVars, writeVars
<1>1. LayoutInv' /\ DiskInv' /\ FoundInv'
  BY <1>0, ZenonT(60) DEF GptFixInv, LayoutInv, DiskInv, HeadersInv, DataKept, GoodHeader, EntriesFor,
              Aligned, FoundInv
<1>2. /\ Other' = Other /\ FirstOffset' = FirstOffset /\ SecondOffset' = SecondOffset
  BY <1>0 DEF Other, FirstOffset, SecondOffset
<1>3. UsedOffset' = UsedOffset /\ SecondHalf' = SecondHalf /\ All' = All
  BY <1>0, <1>2 DEF UsedOffset, SecondHalf, All
<1>4. GptInv'
  BY <1>0, <1>2 DEF GptFixInv, GptInv, GoodGpt, GoodHeader, EntriesFor, Aligned
<1>5. QueueInv'
  BY <1>0, <1>2, <1>3 DEF GptFixInv, QueueInv
<1>6. (UsedIntact => UsedIntact') /\ (MbrOnDisk => MbrOnDisk')
  BY <1>0, <1>2, <1>3 DEF UsedIntact, MbrOnDisk
<1>7. ProgressInv'
  BY <1>0, <1>2, <1>3, <1>6, Zenon DEF GptFixInv, ProgressInv
<1>8. ExitInv'
  BY <1>0 DEF ExitInv, OffsetAt, SizeAt, Other, Bare
<1> QED
  BY <1>1, <1>4, <1>5, <1>7, <1>8 DEF GptFixInv

(* What can be read of a disk with the invariant                           *)
LEMMA TablesAreGood ==
    ASSUME GptFixInv, NEW g \in Tables
    PROVE  \E s \in SectorSizes : \E offset \in {1, Sectors(s) - 1} :
              g = read_and_check_gpt(disk, offset, s) /\ GoodGpt(g, s)
<1>1. PICK primary \in BOOLEAN, s \in SectorSizes :
         /\ g = read_and_check_gpt(disk, IF primary THEN 1 ELSE Sectors(s) - 1, s)
         /\ g.status = 1
  BY DEF Tables
<1>2. PICK offset \in {1, Sectors(s) - 1} : offset = IF primary THEN 1 ELSE Sectors(s) - 1
  OBVIOUS
<1>3. GoodGpt(g, s)
  BY <1>1, <1>2, ReadFacts DEF GptFixInv, DiskInv
<1> QED
  BY <1>1, <1>2, <1>3

(* The invariant excludes a table that reads as good and is wrong. *)
LEMMA NoWrong ==
    ASSUME GptFixInv
    PROVE  NoWrongGpt
<1>1. ASSUME NEW g \in Tables PROVE Extents(g) = layout.parts
  BY TablesAreGood, GoodGptIsRight DEF GptFixInv
<1> QED
  BY <1>1 DEF NoWrongGpt

(* The invariant leaves a good table at every moment. *)
LEMMA OneGood ==
    ASSUME GptFixInv
    PROVE  OneGoodGpt
<1>1. ASSUME layout.cut = 0, layout.parts # {} PROVE \E g \in Tables : Extents(g) = layout.parts
  <2>0. PICK s \in SectorSizes : \E offset \in {1, Sectors(s) - 1} :
           read_and_check_gpt(disk, offset, s).status = 1
    BY <1>1 DEF GptFixInv, FoundInv
  <2>1. PICK offset \in {1, Sectors(s) - 1} : read_and_check_gpt(disk, offset, s).status = 1
    BY <2>0
  <2>2. PICK primary \in BOOLEAN : offset = IF primary THEN 1 ELSE Sectors(s) - 1
    <3>1. offset = IF (offset = 1) THEN 1 ELSE Sectors(s) - 1
      OBVIOUS
    <3> QED
      BY <3>1
  <2>3. read_and_check_gpt(disk, offset, s) \in Tables
    BY <2>1, <2>2 DEF Tables
  <2> QED
    BY <2>3, NoWrong DEF NoWrongGpt
<1> QED
  BY <1>1 DEF OneGoodGpt

(* The assertions of gpt.c hold. *)
LEMMA Asserts ==
    ASSUME GptFixInv
    PROVE  AssertsHold
<1>1. SUFFICES ASSUME pc = "adjust"
               PROVE  /\ FirstStart(gpt) < LastEnd(gpt)
                      /\ Units >= LastEnd(gpt)
                      /\ ~Constraint(gpt, dev) =>
                           /\ max_partition_entries(gpt, dev) >= used_entries(gpt)
                           /\ \A offset \in {1, Sectors(dev) - 1} :
                                check_gpt_header(new_header(gpt, dev, offset), offset, dev) = 1
  BY DEF AssertsHold
<1>2. LayoutInv /\ dev \in SectorSizes /\ Other \in SectorSizes /\ GoodGpt(gpt, Other)
  BY <1>1, SizesDiffer DEF GptFixInv, LayoutInv, GptInv
<1>3. FirstStart(gpt) < LastEnd(gpt) /\ LastEnd(gpt) <= Units /\ LastEnd(gpt) \in Nat
  BY <1>2, SideFacts
<1>4. Units \in Nat
  BY GptFixAssumption
<1>5. ASSUME ~Constraint(gpt, dev)
      PROVE  max_partition_entries(gpt, dev) >= used_entries(gpt)
  BY <1>2, <1>5, NewEntriesFacts
<1>6. ASSUME ~Constraint(gpt, dev), NEW offset \in {1, Sectors(dev) - 1}
      PROVE  check_gpt_header(new_header(gpt, dev, offset), offset, dev) = 1
  BY <1>2, <1>6, NewHeaderFacts
<1> QED
  BY <1>3, <1>4, <1>5, <1>6

(* After a repair both tables are good. *)
LEMMA RepairComplete ==
    ASSUME GptFixInv
    PROVE  RepairIsComplete
<1> DEFINE p == read_and_check_gpt(disk, 1, dev)
           o == Sectors(dev) - 1
           b == read_and_check_gpt(disk, o, dev)
           hp == new_header(gpt, dev, 1)
           hb == new_header(gpt, dev, o)
           T == RequiredUnits(new_entries(gpt, dev), dev)
<1>1. SUFFICES ASSUME pc = "reload"
               PROVE  /\ p.status = 1 /\ b.status = 1
                      /\ p.header.AlternateLBA = b.header.MyLBA
                      /\ b.header.AlternateLBA = p.header.MyLBA
                      /\ p.header.crc = b.header.crc
                      /\ p.header.LastUsableLBA < b.header.PartitionEntryLBA
                      /\ disk[0].size = Sectors(dev) - 1
  BY Zenon DEF RepairIsComplete
<1>2. LayoutInv /\ dev \in SectorSizes /\ Other \in SectorSizes /\ GoodGpt(gpt, Other)
      /\ dev # Other
  BY <1>1, SizesDiffer DEF GptFixInv, LayoutInv, GptInv
<1>3. /\ ~Constraint(gpt, dev) /\ MbrOnDisk
      /\ \A offset \in {1, Sectors(dev) - 1} :
              OnDisk(disk, TableWrite(gpt, dev, offset)) /\ OnDisk(disk, HeaderWrite(gpt, dev, offset))
  BY <1>1 DEF GptFixInv, ProgressInv
<1>4. 1 \in {1, Sectors(dev) - 1} /\ o \in {1, Sectors(dev) - 1} /\ o # 1
  BY <1>2, OffsetFacts
<1>5. p = [status |-> 1, sector_size |-> dev, header |-> hp, entries |-> EntriesFor(dev)]
  BY <1>2, <1>3, <1>4, ReadsNew
<1>6. b = [status |-> 1, sector_size |-> dev, header |-> hb, entries |-> EntriesFor(dev)]
  BY <1>2, <1>3, <1>4, ReadsNew
<1>7. p.status = 1 /\ b.status = 1 /\ p.header = hp /\ b.header = hb
  BY <1>5, <1>6
<1>8. /\ hp.MyLBA = 1 /\ hp.AlternateLBA = Sectors(dev) - 1
      /\ hp.crc = EntryArray(new_array(gpt, dev), new_entries(gpt, dev))
      /\ hp.LastUsableLBA \in Int /\ (hp.LastUsableLBA + 1) * dev <= Units - dev - T
  BY <1>2, <1>3, <1>4, NewHeaderFields
<1>9. /\ hb.MyLBA = o /\ hb.AlternateLBA = 1
      /\ hb.crc = EntryArray(new_array(gpt, dev), new_entries(gpt, dev))
      /\ hb.PartitionEntryLBA \in Nat /\ hb.PartitionEntryLBA * dev = Units - dev - T
  BY <1>2, <1>3, <1>4, NewHeaderFields
<1>10. disk[0].size = Sectors(dev) - 1
  BY <1>3, ContentFacts DEF MbrOnDisk
<1>11. T \in Nat /\ Units \in Nat /\ dev \in {1, 8}
  BY <1>2, <1>3, NewEntriesFacts, GptFixAssumption DEF SectorSizes, Small, Big
<1> HIDE DEF p, b, hp, hb, T
<1>12. hp.LastUsableLBA < hb.PartitionEntryLBA
  BY <1>8, <1>9, <1>11
<1> QED
  BY <1>7, <1>8, <1>9, <1>10, <1>12

-----------------------------------------------------------------------------
(* The scripts and the kernel *)

BootInv == GptFixInv /\ ExitInv /\ ScriptInv

(* The kernel finds the partitions of the image or nothing.                *)
LEMMA KernelFacts ==
    ASSUME GptFixInv
    PROVE  KernelTable(disk, dev) \subseteq layout.parts
<1> DEFINE g == read_and_check_gpt(disk, 1, dev)
<1>0. LayoutInv /\ HeadersInv /\ dev \in SectorSizes
  BY DEF GptFixInv, LayoutInv, DiskInv
<1>1. ASSUME g.status = 1 PROVE {Extent(p, dev) : p \in g.entries} = layout.parts
  <2>1. GoodGpt(g, dev)
    BY <1>0, <1>1, ReadFacts
  <2>2. Extents(g) = layout.parts /\ g.sector_size = dev
    BY <1>0, <2>1, GoodGptIsRight DEF GoodGpt
  <2> QED
    BY <2>2 DEF Extents
<1>2. KernelTable(disk, dev) = IF disk[0].kind = "protective" /\ g.status = 1
                               THEN {Extent(p, dev) : p \in g.entries} ELSE {}
  BY DEF KernelTable
<1> HIDE DEF g
<1> QED
  BY <1>1, <1>2

(* gptfix runs only while the script waits for it, or while the qube is    *)
(* off.                                                                    *)
LEMMA ScriptFrame ==
    ASSUME ScriptInv, UNCHANGED bootVars, layout' = layout, bpc \in {"off", "gptfix"},
           bpc = "off" => pc' = "idle" \/ (mode' = "check" /\ pc' \in Places \cup {"mbr"})
    PROVE  ScriptInv'
<1>1. /\ bpc' = bpc /\ ROOT_DEV' = ROOT_DEV /\ nodes' = nodes /\ scan' = scan
      /\ script' = script /\ ro' = ro /\ setup' = setup
  BY DEF bootVars
<1>2. ROOT_DEV # Whole
  BY DEF ScriptInv
<1>3. OffInv'
  BY <1>1 DEF ScriptInv, OffInv, Places
<1> QED
  BY <1>1, <1>2, <1>3 DEF ScriptInv, CowIfReadOnly

(* gptfix runs only while the script waits for it. *)
LEMMA Busy ==
    ASSUME ScriptInv, pc # "idle"
    PROVE  bpc \in {"off", "gptfix"}
  BY DEF ScriptInv

(* Every step of the boot keeps the invariant.                             *)
LEMMA BootKeeps ==
    ASSUME BootInv, BootNext
    PROVE  BootInv'
<1> USE DEF BootInv
<1>0. dev \in SectorSizes
  BY DEF GptFixInv, LayoutInv
<1>1. ASSUME NEW s \in SectorSizes, PowerOn(s) PROVE BootInv'
  <2>1. /\ UNCHANGED <<layout, disk>> /\ dev' = s /\ pc' = "idle" /\ code' = Running
        /\ bpc = "off" /\ bpc' = "xvda" /\ scan' = TRUE
        /\ ROOT_DEV' = ROOT_DEV /\ nodes' = nodes /\ script' = script /\ ro' = ro
        /\ setup' = setup
    BY <1>1 DEF PowerOn
  <2>2. GptFixInv' /\ ExitInv'
    BY <2>1, IdleKeeps, OtherKeepsExit DEF Places, Running, EXIT_NOT_PARTITIONED,
       EXIT_INVALID_GPT, EXIT_TRUNCATED
  <2>3. ScriptInv'
    BY <2>1 DEF ScriptInv, CowIfReadOnly, OffInv
  <2> QED
    BY <2>2, <2>3
<1>2. CASE PowerOff
  <2>1. UNCHANGED vars \/ Crash
    BY <1>2 DEF PowerOff
  <2>2. GptFixInv' /\ ExitInv'
    BY <2>1, GptFixStutters, GptFixKeeps DEF Next
  <2>3. /\ bpc' = "off" /\ nodes' = {} /\ ROOT_DEV' = NoSlot /\ script' = "either"
        /\ setup' = "none" /\ scan' = FALSE /\ pc' = "idle"
    BY <1>2 DEF PowerOff, Off, Crash, Exit, vars
  <2>4. ScriptInv'
    BY <2>3 DEF ScriptInv, OffInv, CowIfReadOnly, NoSlot, Whole
  <2> QED
    BY <2>2, <2>4
<1>3. CASE KernelScan
  <2>1. /\ UNCHANGED vars /\ scan /\ scan' = FALSE /\ nodes' = KernelTable(disk, dev)
        /\ bpc' = bpc /\ script' = script /\ ROOT_DEV' = ROOT_DEV /\ ro' = ro /\ setup' = setup
    BY <1>3 DEF KernelScan
  <2>2. GptFixInv' /\ ExitInv'
    BY <2>1, GptFixStutters
  <2>3. nodes' \subseteq layout.parts
    BY <2>1, KernelFacts
  <2>4. layout' = layout /\ disk' = disk /\ pc' = pc
    BY <2>1 DEF vars, diskVars
  <2>5. nodes = {}
    BY <2>1 DEF ScriptInv
  <2>6. RootExists => RootExists'
    BY <2>1, <2>5 DEF RootExists, Slots
  <2>7. ScriptInv'
    BY <2>1, <2>3, <2>4, <2>6 DEF ScriptInv, OffInv, CowIfReadOnly, Bare
  <2> QED
    BY <2>2, <2>7
<1>4. CASE CheckByHand
  <2>1. /\ Next /\ bpc = "off" /\ UNCHANGED bootVars
    BY <1>4 DEF CheckByHand, Next
  <2>2. layout' = layout
    BY <1>4 DEF CheckByHand, Attach, Run, diskVars
  <2>3. pc' = "idle" \/ (mode' = "check" /\ pc' = "mbr")
    BY <1>4 DEF CheckByHand, Attach, Run
  <2> QED
    BY <2>1, <2>2, <2>3, GptFixKeeps, ScriptFrame
<1>5. CASE GptfixRuns
  <2>1. Next /\ UNCHANGED bootVars
    BY <1>5 DEF GptfixRuns, Next
  <2>2. pc # "idle" /\ layout' = layout
    BY <1>5 DEF GptfixRuns, CheckMbr, Read, Adjust, WriteSector, diskVars, Places
  <2>3. ASSUME bpc = "off"
        PROVE  pc' = "idle" \/ (mode' = "check" /\ pc' \in Places \cup {"mbr"})
    <3>1. mode = "check" /\ pc \in Places \cup {"mbr"}
      BY <2>2, <2>3 DEF ScriptInv, OffInv
    <3>2. CASE CheckMbr
      BY <3>1, <3>2 DEF CheckMbr, Exit, Goto, Places
    <3>3. ASSUME NEW place \in Places, Read(place)
          PROVE  pc' = "idle" \/ (mode' = "check" /\ pc' \in Places \cup {"mbr"})
      BY <3>1, <3>3 DEF Read, Exit, Goto, NextPlace, Places
    <3> QED
      BY <1>5, <3>1, <3>2, <3>3 DEF GptfixRuns, Adjust, WriteSector, Places
  <2> QED
    BY <2>1, <2>2, <2>3, GptFixKeeps, ScriptFrame, Busy
<1>6. CASE GptfixFails
  <2>1. Next /\ UNCHANGED bootVars
    BY <1>6 DEF GptfixFails, Next
  <2>2. pc # "idle" /\ layout' = layout /\ pc' = "idle"
    BY <1>6 DEF GptfixFails, SetupError, HeaderReadError, EntriesReadError, WriteError,
                diskVars, Places, Exit
  <2> QED
    BY <2>1, <2>2, GptFixKeeps, ScriptFrame, Busy
<1>7. CASE GptfixReload
  <2>1. /\ Next /\ scan' = FALSE /\ nodes' = KernelTable(disk, dev)
        /\ bpc' = bpc /\ script' = script /\ ROOT_DEV' = ROOT_DEV /\ ro' = ro /\ setup' = setup
    BY <1>7 DEF GptfixReload, Next
  <2>2. pc = "reload" /\ layout' = layout /\ pc' = "idle"
    BY <1>7 DEF GptfixReload, Reload, diskVars, Exit
  <2>3. bpc = "gptfix"
    BY <2>2, Busy DEF ScriptInv, OffInv, Places
  <2>4. nodes' \subseteq layout.parts
    BY <2>1, KernelFacts
  <2>5. ROOT_DEV # Whole
    BY <2>3 DEF ScriptInv
  <2>6. ScriptInv'
    BY <2>1, <2>2, <2>3, <2>4, <2>5 DEF ScriptInv, OffInv, CowIfReadOnly
  <2> QED
    BY <2>1, <2>6, GptFixKeeps
<1>8. CASE StartGptfix
  <2>1. /\ Next /\ bpc = "xvda" /\ bpc' = "gptfix" /\ layout' = layout
        /\ UNCHANGED <<script, nodes, scan, ROOT_DEV, ro, setup>>
    BY <1>8 DEF StartGptfix, Next, Run, diskVars
  <2>2. ScriptInv'
    BY <2>1 DEF ScriptInv, OffInv, CowIfReadOnly
  <2> QED
    BY <2>1, <2>2, GptFixKeeps
<1>9. ASSUME UNCHANGED vars, ScriptInv' PROVE BootInv'
  BY <1>9, GptFixStutters
<1>v. ASSUME UNCHANGED vars PROVE layout' = layout /\ disk' = disk /\ pc' = pc
  BY <1>v DEF vars, diskVars
<1>10. CASE Status
  <2>1. /\ UNCHANGED vars /\ UNCHANGED <<nodes, scan, ro, setup>>
        /\ bpc = "gptfix" /\ pc = "idle"
        /\ \/ bpc' = "part1" /\ ROOT_DEV' = ROOT_DEV
           \/ /\ code \in {EXIT_NOT_PARTITIONED, EXIT_INVALID_GPT, EXIT_TRUNCATED}
              /\ bpc' = "setup" /\ ROOT_DEV' = Whole
           \/ bpc' = "died" /\ ROOT_DEV' = ROOT_DEV
    BY <1>10 DEF Status
  <2>2. ROOT_DEV # Whole /\ setup = "none"
    BY <2>1 DEF ScriptInv
  <2>3. ROOT_DEV' = Whole => bpc' = "setup" /\ Bare
    BY <2>1, <2>2 DEF ExitInv
  <2>4. bpc' = "setup" => RootExists'
    BY <2>1 DEF RootExists
  <2>5. ScriptInv'
    BY <1>v, <2>1, <2>2, <2>3, <2>4 DEF ScriptInv, OffInv, CowIfReadOnly, Bare
  <2> QED
    BY <1>9, <2>1, <2>5
<1>11. CASE ChooseRoot
  <2>1. /\ UNCHANGED vars /\ UNCHANGED <<script, nodes, scan, ro, setup>>
        /\ bpc = "part1" /\ bpc' = "rootdev" /\ ROOT_DEV' \in FoundRoot
    BY <1>11 DEF ChooseRoot
  <2>2. ASSUME NEW slot \in Slots(nodes) PROVE slot \in Nat
    BY LayoutFacts DEF Slots, ScriptInv, GptFixInv
  <2>3. ASSUME NEW slot \in Slots(nodes) PROVE FirstDigit(slot) # Whole
    BY <2>2 DEF FirstDigit, Whole
  <2>4. ASSUME NEW slot \in Slots(nodes) PROVE slot # Whole
    BY <2>2 DEF Whole
  <2>5. ROOT_DEV' # Whole
    <3>1. Fallback # Whole
      BY DEF Fallback, Whole
    <3>2. \/ ROOT_DEV' = Fallback
          \/ \E slot \in Slots(nodes) : ROOT_DEV' = slot \/ ROOT_DEV' = FirstDigit(slot)
      BY <2>1 DEF FoundRoot
    <3> QED
      BY <2>3, <2>4, <3>1, <3>2
  <2>6. ScriptInv'
    BY <1>v, <2>1, <2>5 DEF ScriptInv, OffInv, CowIfReadOnly
  <2> QED
    BY <1>9, <2>1, <2>6
<1>12. CASE WaitRoot
  <2>1. /\ UNCHANGED vars /\ UNCHANGED <<script, nodes, scan, ROOT_DEV, ro, setup>>
        /\ bpc = "rootdev" /\ bpc' = "setup"
        /\ script = "simple" => ROOT_DEV \in Slots(nodes)
    BY <1>12 DEF WaitRoot, Waited
  <2>2. ROOT_DEV # Whole
    BY <2>1 DEF ScriptInv
  <2>3. script = "simple" => RootExists'
    BY <2>1 DEF RootExists, Slots
  <2>4. ScriptInv'
    BY <1>v, <2>1, <2>2, <2>3 DEF ScriptInv, OffInv, CowIfReadOnly
  <2> QED
    BY <1>9, <2>1, <2>4
<1>13. ASSUME NEW r \in BOOLEAN, SetUp(r) PROVE BootInv'
  <2>1. /\ UNCHANGED vars /\ UNCHANGED <<script, nodes, scan, ROOT_DEV>>
        /\ bpc = "setup" /\ bpc' = "booted" /\ ro' = r
        /\ setup' = IF RootExists /\ r THEN "cow" ELSE "rw"
    BY <1>13 DEF SetUp
  <2>2. script = "simple" => RootExists
    BY <2>1 DEF ScriptInv
  <2>3. CowIfReadOnly'
    BY <2>1, <2>2 DEF CowIfReadOnly
  <2>4. ScriptInv'
    BY <1>v, <2>1, <2>3 DEF ScriptInv, OffInv, Bare
  <2> QED
    BY <1>9, <2>1, <2>4
<1>14. CASE SetUpFails
  <2>1. /\ UNCHANGED vars /\ UNCHANGED <<script, nodes, scan, ROOT_DEV, ro, setup>>
        /\ bpc = "setup" /\ bpc' = "died"
    BY <1>14 DEF SetUpFails
  <2>2. ScriptInv'
    BY <1>v, <2>1 DEF ScriptInv, OffInv, CowIfReadOnly, Bare
  <2> QED
    BY <1>9, <2>1, <2>2
<1> QED
  BY <1>1, <1>2, <1>3, <1>4, <1>5, <1>6, <1>7, <1>8, <1>10, <1>11, <1>12, <1>13, <1>14
  DEF BootNext, ScriptStep

(* The power comes on for the first time. *)
LEMMA BootInitKeeps ==
    ASSUME BootInit
    PROVE  BootInv
<1>1. GptFixInv /\ ExitInv
  BY InitKeeps DEF BootInit
<1>2. pc = "idle" /\ bpc = "off" /\ script = "either" /\ nodes = {} /\ scan = FALSE
      /\ ROOT_DEV = NoSlot /\ setup = "none"
  BY DEF BootInit, Init
<1>3. ScriptInv
  BY <1>2 DEF ScriptInv, OffInv, CowIfReadOnly, NoSlot, Whole
<1> QED
  BY <1>1, <1>3 DEF BootInv

(* Nothing happens. *)
LEMMA BootStutters ==
    ASSUME BootInv, UNCHANGED allVars
    PROVE  BootInv'
<1>1. UNCHANGED vars /\ UNCHANGED <<bpc, script, nodes, scan, ROOT_DEV, ro, setup>>
  BY DEF allVars, bootVars
<1>2. layout' = layout /\ disk' = disk /\ pc' = pc /\ mode' = mode
  BY <1>1 DEF vars, diskVars, runVars
<1>3. RootExists => RootExists'
  BY <1>1 DEF RootExists, Slots
<1>4. ScriptInv'
  BY <1>1, <1>2, <1>3 DEF BootInv, ScriptInv, OffInv, CowIfReadOnly, Bare
<1> QED
  BY <1>1, <1>4, GptFixStutters DEF BootInv

(* gptfix run by anybody on a disk with the sector size of the moment: its *)
(* invariant holds after every sector and every power failure.             *)
THEOREM GptFix_Invariant == Spec => [](GptFixInv /\ ExitInv)
<1>1. Init => GptFixInv /\ ExitInv
  BY InitKeeps
<1>2. GptFixInv /\ ExitInv /\ [Next]_vars => (GptFixInv /\ ExitInv)'
  BY GptFixKeeps, GptFixStutters
<1> QED
  BY <1>1, <1>2, PTL DEF Spec

(* The same during boots: gptfix, the kernel and the scripts, with power   *)
(* failures and changes of the sector size in between.                     *)
THEOREM Boot_Invariant == BootSpec => []BootInv
<1>1. BootInit => BootInv
  BY BootInitKeeps
<1>2. BootInv /\ [BootNext]_allVars => BootInv'
  BY BootKeeps, BootStutters
<1> QED
  BY <1>1, <1>2, PTL DEF BootSpec

(* No GPT that can be read from the disk ever describes other partitions   *)
(* than the image had (gpt.c gpt_adjust_sectors), for every layout and     *)
(* every disk size.                                                        *)
THEOREM NoWrongGpt_Safe == BootSpec => []NoWrongGpt
<1>1. BootInv => NoWrongGpt
  BY NoWrong DEF BootInv
<1> QED
  BY <1>1, Boot_Invariant, PTL

(* There is always at least one good GPT (gpt.c:1042), wherever the power  *)
(* fails.                                                                  *)
THEOREM OneGoodGpt_Safe == BootSpec => []OneGoodGpt
<1>1. BootInv => OneGoodGpt
  BY OneGood DEF BootInv
<1> QED
  BY <1>1, Boot_Invariant, PTL

(* The partitions keep their content (gpt.c:805).                          *)
THEOREM DataKept_Safe == BootSpec => []DataKept
<1>1. BootInv => DataKept
  BY DEF BootInv, GptFixInv, DiskInv
<1> QED
  BY <1>1, Boot_Invariant, PTL

(* The assertions of gpt_adjust_sectors() and create_new_gpt() hold        *)
(* (gpt.c:363, 375, 411, 789).                                             *)
THEOREM AssertsHold_Safe == BootSpec => []AssertsHold
<1>1. BootInv => AssertsHold
  BY Asserts DEF BootInv
<1> QED
  BY <1>1, Boot_Invariant, PTL

(* A repair that ran to its end leaves two matching GPTs and a protective  *)
(* MBR (gpt.c create_new_gpt).                                             *)
THEOREM RepairIsComplete_Safe == BootSpec => []RepairIsComplete
<1>1. BootInv => RepairIsComplete
  BY RepairComplete DEF BootInv
<1> QED
  BY <1>1, Boot_Invariant, PTL

(* Only a disk without a usable table is used as a whole (init.sh:50).     *)
THEOREM WholeOnlyIfBare_Safe == BootSpec => []WholeOnlyIfBare
<1>1. BootInv => WholeOnlyIfBare
  BY DEF BootInv, ScriptInv, WholeOnlyIfBare, Bare
<1> QED
  BY <1>1, Boot_Invariant, PTL

(* The kernel's device nodes are partitions of the image (init.sh:33-45).  *)
THEOREM NodesAreRight_Safe == BootSpec => []NodesAreRight
<1>1. BootInv => NodesAreRight
  BY DEF BootInv, ScriptInv, NodesAreRight
<1> QED
  BY <1>1, Boot_Invariant, PTL

(* init.sh gives a read-only root device a snapshot (init.sh:63).          *)
THEOREM CowIfReadOnly_Safe == BootSpec => []CowIfReadOnly
<1>1. BootInv => CowIfReadOnly
  BY DEF BootInv, ScriptInv
<1> QED
  BY <1>1, Boot_Invariant, PTL

=============================================================================
