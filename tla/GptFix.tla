------------------------------- MODULE GptFix -------------------------------
(***************************************************************************)
(* gptfixer/gpt.c: a disk image whose GUID partition table was written for *)
(* another sector size than the block device now has is given a table for  *)
(* the new size, without moving a partition.  The writes reach the disk    *)
(* sector by sector in any order within one pwrite(); power can fail       *)
(* between any two sectors, and the next boot runs the program again,      *)
(* perhaps on a device with yet another sector size.                       *)
(*                                                                         *)
(* Lengths are in units of 512 bytes.  The disk is a function from units   *)
(* to contents.  A checksum is the thing it is computed over: the entry    *)
(* array in a header stands for PartitionEntryArrayCRC32, and a header,    *)
(* which is one sector and written atomically, needs none.                 *)
(***************************************************************************)
EXTENDS Integers, Sequences, FiniteSets, FiniteSetsExt

CONSTANTS
    Units,     \* size of the disk, a multiple of 4096 bytes
    Layouts,   \* partition tables the disk may start with
    Lost,      \* which GPT of the two may be unreadable at the start
    Mbrs,      \* what sector 0 may hold
    MaxRuns    \* bound on the runs of the program

ASSUME GptFixAssumption ==
    /\ Units \in Nat /\ Units % 8 = 0 /\ Units >= 48
    /\ Lost \subseteq {{}, {"primary"}, {"backup"}}
    /\ Mbrs \subseteq {"protective", "none", "other", "offset", "bpb"}
    /\ MaxRuns \in Nat
    /\ \A l \in Layouts :
          /\ l.n \in Nat \ {0} /\ l.cut \in Nat /\ l.cut % 8 = 0
          /\ l.parts \subseteq [slot : 0..(l.n - 1), from : Nat, to : Nat]
          /\ \A e \in l.parts : e.from < e.to

VARIABLES
    layout,   \* the partitions, from the first table on
    disk,
    dev,      \* sector size of the block device, 1 or 8 units
    pc,       \* where the program is; "idle" while it does not run
    mode,     \* "check" or "fix"
    gpt,      \* the table that was read, or NoGpt
    used_primary,
    queue,    \* pwrite() calls still to make, the current one first
    pend,     \* sectors of the current one that are not on the disk yet
    code,     \* exit status of the last run, Running before that
    failed,   \* history: an I/O call of this run failed
    runs

diskVars == <<layout, dev>>
runVars == <<mode, gpt, used_primary>>
writeVars == <<queue, pend>>
vars == <<diskVars, disk, pc, runVars, writeVars, code, failed, runs>>

Small == 1
Big == 8
SectorSizes == {Small, Big}
PerUnit == 4       \* entries of 128 bytes in a unit

EXIT_FAILURE == 1
EXIT_IO == 2
EXIT_UNSUPPORTED == 3
EXIT_NOT_PARTITIONED == 4
EXIT_INVALID_GPT == 5
EXIT_CONSTRAINT == 6
EXIT_NEEDS_FIX == 7
EXIT_TRUNCATED == 8
Running == -1

-----------------------------------------------------------------------------
(* Contents of a unit.  Entries that are not used are zero bytes.          *)

Ent(ps) == [t |-> "ent", ps |-> ps]
Zero == Ent({})
Data == [t |-> "data"]
Mbr(kind, size) == [t |-> "mbr", kind |-> kind, size |-> size]

GPTHeader(my, alt, first, last, ptr, n, crc) ==
    [t |-> "hdr", MyLBA |-> my, AlternateLBA |-> alt,
     FirstUsableLBA |-> first, LastUsableLBA |-> last, PartitionEntryLBA |-> ptr,
     NumberOfPartitionEntries |-> n, crc |-> crc]

Sectors(s) == Units \div s

(* round_to_next_sector() *)
RoundUp(v, s) == ((v + s - 1) \div s) * s

UnitsFor(n) == RoundUp(n, PerUnit) \div PerUnit

(* gpt_partition_table_required_bytes() *)
RequiredUnits(n, s) == RoundUp(UnitsFor(n), s)

(* Unit i of an entry array, and the array itself *)
Chunk(ps, i) == Ent({p \in ps : p.slot \div PerUnit = i})
EntryArray(ps, n) == [i \in 0..(UnitsFor(n) - 1) |-> Chunk(ps, i)]

(* A partition takes the units from Start to End - 1, whatever the sector  *)
(* size its table is written for.                                          *)
Start(p, s) == p.StartingLBA * s
End(p, s) == (p.EndingLBA + 1) * s
Extent(p, s) == [slot |-> p.slot, from |-> Start(p, s), to |-> End(p, s)]
Entry(e, s) == [slot |-> e.slot, StartingLBA |-> e.from \div s,
                EndingLBA |-> e.to \div s - 1]

-----------------------------------------------------------------------------
(* Reading *)

(* check_gpt_header() on a header found at sector `offset': 0 for a header *)
(* to ignore, 1 for a good one, or the code the program exits with.  Only  *)
(* a warning is given when MyLBA is not that sector.                       *)
check_gpt_header(h, offset, s) ==
    LET table == IF offset # 1 THEN h.MyLBA - h.PartitionEntryLBA
                 ELSE h.FirstUsableLBA - h.PartitionEntryLBA
        misplaced == IF offset # 1
                     THEN \/ h.AlternateLBA # 1
                          \/ h.LastUsableLBA >= h.PartitionEntryLBA
                          \/ h.PartitionEntryLBA >= h.MyLBA
                     ELSE \/ h.PartitionEntryLBA # 2
                          \/ h.LastUsableLBA >= h.AlternateLBA
    IN  IF \/ h.FirstUsableLBA < 3
           \/ h.LastUsableLBA < h.FirstUsableLBA
           \/ misplaced
        THEN 0
        ELSE IF offset = 1 /\ h.AlternateLBA >= Sectors(s) THEN EXIT_TRUNCATED
        ELSE IF \/ h.NumberOfPartitionEntries < 1
                \/ table * s * PerUnit < h.NumberOfPartitionEntries
        THEN 0 ELSE 1

NoGpt == [status |-> 0, sector_size |-> 0, header |-> Zero, entries |-> {}]

(* read_and_check_gpt() *)
read_and_check_gpt(d, offset, s) ==
    LET h == d[offset * s]
        check == check_gpt_header(h, offset, s)
        array == [i \in DOMAIN h.crc |-> d[h.PartitionEntryLBA * s + i]]
        ps == UNION {h.crc[i].ps : i \in DOMAIN h.crc}
    IN  IF \/ offset >= Sectors(s)
           \/ offset # 1 /\ offset < 5
           \/ h.t # "hdr"
        THEN NoGpt
        ELSE IF check # 1 THEN [NoGpt EXCEPT !.status = check]
        ELSE IF \/ array # h.crc
                \/ \E p \in ps : \/ p.StartingLBA < h.FirstUsableLBA
                                 \/ p.EndingLBA > h.LastUsableLBA
        THEN NoGpt
        ELSE IF ps = {} THEN [NoGpt EXCEPT !.status = EXIT_UNSUPPORTED]
        ELSE [status |-> 1, sector_size |-> s, header |-> h, entries |-> ps]

-----------------------------------------------------------------------------
(* Computing the new table: gpt_adjust_sectors() for sector size s *)

FirstStart(g) == Min({Start(p, g.sector_size) : p \in g.entries})
LastEnd(g) == Max({End(p, g.sector_size) : p \in g.entries})
used_entries(g) == Max({p.slot : p \in g.entries}) + 1

(* Mutant: the room in front of the first partition is not checked. *)
Constraint_OnlyEnd(g, s) ==
    \/ \E p \in g.entries : \/ Start(p, g.sector_size) % s # 0
                            \/ End(p, g.sector_size) % s # 0
    \/ Units - LastEnd(g) < RequiredUnits(used_entries(g), s) + s

(* The new table cannot be written without moving a partition. *)
Constraint(g, s) ==
    \/ \E p \in g.entries : \/ Start(p, g.sector_size) % s # 0
                            \/ End(p, g.sector_size) % s # 0
    \/ Units - LastEnd(g) < RequiredUnits(used_entries(g), s) + s
    \/ RequiredUnits(used_entries(g), s) + 2 * s > FirstStart(g)

(* Mutant: the sector of the primary header is not set aside. *)
max_partition_entries_OneMore(g, s) ==
    Min({Units - s - LastEnd(g), FirstStart(g) - s}) * PerUnit

max_partition_entries(g, s) ==
    Min({Units - s - LastEnd(g), FirstStart(g) - 2 * s}) * PerUnit

new_entries(g, s) ==
    Min({max_partition_entries(g, s), g.header.NumberOfPartitionEntries})

(* Mutant: EndingLBA is taken for an exclusive bound. *)
new_array_Exclusive(g, s) ==
    {[Entry(Extent(p, g.sector_size), s) EXCEPT !.EndingLBA = @ + 1] :
        p \in {q \in g.entries : q.slot < new_entries(g, s)}}

(* Every entry that is kept, with its sector numbers for the new size. *)
new_array(g, s) ==
    {Entry(Extent(p, g.sector_size), s) :
        p \in {q \in g.entries : q.slot < new_entries(g, s)}}

new_header(g, s, offset) ==
    LET n == new_entries(g, s)
        table == RequiredUnits(n, s)
        first_usable == Max({g.header.FirstUsableLBA * g.sector_size, table + 2 * s})
        first_unusable == Min({(g.header.LastUsableLBA + 1) * g.sector_size,
                               Units - (table + s)})
        primary == offset = 1
    IN  GPTHeader(offset,
                  IF primary THEN Sectors(s) - 1 ELSE 1,
                  RoundUp(first_usable, s) \div s,
                  first_unusable \div s - 1,
                  IF primary THEN 2 ELSE Sectors(s) - 1 - table \div s,
                  n,
                  EntryArray(new_array(g, s), n))

-----------------------------------------------------------------------------
(* Writing: the calls of sync_pwrite() that create_new_gpt() makes *)

Pwrite(at, data) == [at |-> at, data |-> data]

(* A sector that begins with `content' and is zero after it *)
SectorWith(content, s) == [i \in 0..(s - 1) |-> IF i = 0 THEN content ELSE Zero]

ClearUnits(at, len) == Pwrite(at, [i \in 0..(len - 1) |-> Zero])

(* Mutant: the protective partition is one sector too long. *)
WriteMbr_TooLong(s) == Pwrite(0, SectorWith(Mbr("protective", Sectors(s)), s))

(* The protective MBR, with the size check_mbr() put into it, and zeros up *)
(* to the end of the sector *)
WriteMbr(s) == Pwrite(0, SectorWith(Mbr("protective", Sectors(s) - 1), s))

create_new_gpt(g, s, offset) ==
    LET h == new_header(g, s, offset)
        table == [i \in 0..(RequiredUnits(h.NumberOfPartitionEntries, s) - 1) |->
                     Chunk(new_array(g, s), i)]
        clear == IF offset # 1 THEN <<ClearUnits(Units - Big, Big)>>
                 ELSE IF s = Big THEN <<WriteMbr(s)>>
                 ELSE <<WriteMbr(s), ClearUnits(1, 1), ClearUnits(Big, Big)>>
    IN  clear \o <<Pwrite(h.PartitionEntryLBA * s, table),
                   Pwrite(offset * s, SectorWith(h, s))>>

(* Mutant: the GPT that was used goes first. *)
AllWrites_UsedFirst(g, s, from_primary) ==
    LET primary == create_new_gpt(g, s, 1)
        backup == create_new_gpt(g, s, Sectors(s) - 1)
    IN  IF from_primary THEN primary \o backup ELSE backup \o primary

(* "First, do no harm": the GPT that was not used goes first. *)
AllWrites(g, s, from_primary) ==
    LET primary == create_new_gpt(g, s, 1)
        backup == create_new_gpt(g, s, Sectors(s) - 1)
    IN  IF from_primary THEN backup \o primary ELSE primary \o backup

SectorsOf(w, s) == 0..(Cardinality(DOMAIN w.data) \div s - 1)
Put(d, w, s, i) ==
    [u \in DOMAIN d |->
        IF (u - w.at) \div s = i /\ u >= w.at THEN w.data[u - w.at] ELSE d[u]]

-----------------------------------------------------------------------------
(* The disk at the start: a table for sector size s as a partitioning tool *)
(* writes it, and the two GPTs or what is left of them.  A layout has the  *)
(* extents, the number of entries, and how much of the end of the disk has *)
(* been cut off.                                                           *)
Formatted(l, s, lost, mbr) ==
    LET sectors == (Units + l.cut) \div s
        table == RequiredUnits(l.n, s)
        ps == {Entry(e, s) : e \in l.parts}
        h(my, alt, ptr) ==
            GPTHeader(my, alt, 2 + table \div s, sectors - 2 - table \div s, ptr,
                      l.n, EntryArray(ps, l.n))
        last == sectors - 1
        bptr == last - table \div s
    IN  [u \in 0..(Units - 1) |->
            IF u = 0 THEN Mbr(mbr, sectors - 1)
            ELSE IF u = s /\ "primary" \notin lost THEN h(1, last, 2)
            ELSE IF u \in 2*s..(2*s + UnitsFor(l.n) - 1) THEN Chunk(ps, u - 2*s)
            ELSE IF u = last * s /\ "backup" \notin lost THEN h(last, 1, bptr)
            ELSE IF u \in bptr*s..(bptr*s + UnitsFor(l.n) - 1) THEN Chunk(ps, u - bptr*s)
            ELSE IF \E e \in l.parts : u \in e.from..(e.to - 1) THEN Data
            ELSE Zero]

(* The tool finds room for the partitions of l between the two tables, or  *)
(* at least for a sector. *)
CanFormat(l, s) ==
    /\ 2 * RequiredUnits(l.n, s) + 4 * s <= Units + l.cut
    /\ \A e \in l.parts :
        /\ e.from % s = 0 /\ e.to % s = 0
        /\ e.from >= 2 * s + RequiredUnits(l.n, s)
        /\ e.to <= Units + l.cut - s - RequiredUnits(l.n, s)

Init ==
    /\ layout \in Layouts
    /\ dev \in SectorSizes
    /\ \E s \in SectorSizes, lost \in Lost, mbr \in Mbrs :
          /\ CanFormat(layout, s)
          /\ disk = Formatted(layout, s, lost, mbr)
    /\ pc = "idle"
    /\ mode = "check"
    /\ gpt = NoGpt
    /\ used_primary = FALSE
    /\ queue = <<>>
    /\ pend = {}
    /\ code = Running
    /\ failed = FALSE
    /\ runs = 0

-----------------------------------------------------------------------------
(* Between two runs *)

(* The image is attached as a device with another sector size. *)
Attach(s) ==
    /\ pc = "idle"
    /\ s # dev
    /\ dev' = s
    /\ code' = Running
    /\ UNCHANGED <<layout, disk, pc, runVars, writeVars, failed, runs>>

(* main() up to the read of the MBR *)
Run(m) ==
    /\ pc = "idle"
    /\ runs < MaxRuns
    /\ runs' = runs + 1
    /\ pc' = "mbr"
    /\ mode' = m
    /\ code' = Running
    /\ failed' = FALSE
    /\ UNCHANGED <<diskVars, disk, gpt, used_primary, writeVars>>

Exit(status) ==
    /\ pc' = "idle"
    /\ code' = status
    /\ gpt' = NoGpt
    /\ queue' = <<>>
    /\ pend' = {}

Goto(next) == pc' = next /\ UNCHANGED <<gpt, writeVars, code>>

(* check_mbr() *)
MbrStatus(m) ==
    IF m.t # "mbr" \/ m.kind = "none" THEN EXIT_NOT_PARTITIONED
    ELSE IF m.kind \in {"other", "bpb"} THEN EXIT_UNSUPPORTED
    ELSE IF m.kind = "offset" THEN EXIT_INVALID_GPT ELSE 0

CheckMbr ==
    /\ pc = "mbr"
    /\ IF MbrStatus(disk[0]) # 0 THEN Exit(MbrStatus(disk[0])) ELSE Goto("new_primary")
    /\ UNCHANGED <<diskVars, disk, mode, used_primary, failed, runs>>

-----------------------------------------------------------------------------
(* The four places where main() looks for a GPT, in order *)

Other == IF dev = Big THEN Small ELSE Big

Places == {"new_primary", "new_backup", "old_primary", "old_backup"}

SizeAt(place) == IF place \in {"new_primary", "new_backup"} THEN dev ELSE Other
OffsetAt(place) == IF place \in {"new_primary", "old_primary"} THEN 1
                   ELSE Sectors(SizeAt(place)) - 1

NextPlace(place) ==
    IF place = "new_primary" THEN "new_backup"
    ELSE IF place = "new_backup" THEN "old_primary" ELSE "old_backup"

(* A table for the device's own sector size needs no change; one for the   *)
(* other size is changed in mode "fix".                                    *)
Read(place) ==
    LET g == read_and_check_gpt(disk, OffsetAt(place), SizeAt(place))
    IN  /\ pc = place
        /\ \/ /\ g.status = 0 /\ place # "old_backup"
              /\ Goto(NextPlace(place))
           \/ /\ g.status = 0 /\ place = "old_backup"
              /\ Exit(EXIT_INVALID_GPT)
           \/ /\ g.status > 1
              /\ Exit(g.status)
           \/ /\ g.status = 1 /\ SizeAt(place) = dev
              /\ Exit(0)
           \/ /\ g.status = 1 /\ SizeAt(place) # dev /\ mode = "check"
              /\ Exit(EXIT_NEEDS_FIX)
           \/ /\ g.status = 1 /\ SizeAt(place) # dev /\ mode = "fix"
              /\ gpt' = g
              /\ pc' = "adjust"
              /\ UNCHANGED <<writeVars, code>>
        /\ used_primary' = (place = "old_primary")
        /\ UNCHANGED <<diskVars, disk, mode, failed, runs>>

(* The device cannot be opened, locked or measured, or, when there is a    *)
(* table to change, cannot be reopened for writing (O_EXCL).               *)
SetupError ==
    /\ pc \in {"mbr", "adjust"}
    /\ Exit(EXIT_FAILURE)
    /\ UNCHANGED <<diskVars, disk, mode, used_primary, failed, runs>>

(* pread() of the MBR or of a header fails. *)
HeaderReadError ==
    /\ pc \in Places \cup {"mbr"}
    /\ failed' = TRUE
    /\ Exit(EXIT_IO)
    /\ UNCHANGED <<diskVars, disk, mode, used_primary, runs>>

(* pread() of the entries that a good header announces fails:
   err(EXIT_SUCCESS, ...), gpt.c:683. *)
EntriesReadError ==
    /\ pc \in Places
    /\ LET h == disk[OffsetAt(pc) * SizeAt(pc)]
       IN  h.t = "hdr" /\ check_gpt_header(h, OffsetAt(pc), SizeAt(pc)) = 1
    /\ failed' = TRUE
    /\ Exit(0)
    /\ UNCHANGED <<diskVars, disk, mode, used_primary, runs>>

-----------------------------------------------------------------------------
(* Changing the table *)

(* Both GPTs are computed from the one that was read; the second call of   *)
(* gpt_adjust_sectors() cannot find a constraint the first did not find.   *)
Adjust ==
    /\ pc = "adjust"
    /\ IF Constraint(gpt, dev) THEN Exit(EXIT_CONSTRAINT)
       ELSE /\ pc' = "write"
            /\ queue' = AllWrites(gpt, dev, used_primary)
            /\ pend' = SectorsOf(queue'[1], dev)
            /\ UNCHANGED <<gpt, code>>
    /\ UNCHANGED <<diskVars, disk, mode, used_primary, failed, runs>>

(* One sector of the current pwrite() reaches the disk; O_SYNC keeps the   *)
(* calls themselves in order. *)
WriteSector(i) ==
    /\ pc = "write"
    /\ disk' = Put(disk, queue[1], dev, i)
    /\ IF pend # {i}
       THEN pend' = pend \ {i} /\ UNCHANGED <<queue, pc>>
       ELSE /\ queue' = Tail(queue)
            /\ pend' = IF Len(queue) > 1 THEN SectorsOf(queue[2], dev) ELSE {}
            /\ pc' = IF Len(queue) > 1 THEN "write" ELSE "reload"
    /\ UNCHANGED <<diskVars, runVars, code, failed, runs>>

(* sync_pwrite() fails or is short, or BLKRRPART fails. *)
WriteError ==
    /\ pc \in {"write", "reload"}
    /\ failed' = TRUE
    /\ Exit(EXIT_IO)
    /\ UNCHANGED <<diskVars, disk, mode, used_primary, runs>>

Reload ==
    /\ pc = "reload"
    /\ Exit(0)
    /\ UNCHANGED <<diskVars, disk, mode, used_primary, failed, runs>>

(* The power fails, or the program is killed. *)
Crash ==
    /\ pc # "idle"
    /\ Exit(Running)
    /\ UNCHANGED <<diskVars, disk, mode, used_primary, failed, runs>>

Next ==
    \/ \E s \in SectorSizes : Attach(s)
    \/ \E m \in {"check", "fix"} : Run(m)
    \/ CheckMbr
    \/ \E place \in Places : Read(place)
    \/ SetupError
    \/ HeaderReadError
    \/ EntriesReadError
    \/ Adjust
    \/ \E i \in pend : WriteSector(i)
    \/ WriteError
    \/ Reload
    \/ Crash

Spec == Init /\ [][Next]_vars

-----------------------------------------------------------------------------

(* The GPTs that the program could read from the disk. *)
Tables ==
    {g \in {read_and_check_gpt(disk, IF primary THEN 1 ELSE Sectors(s) - 1, s) :
               primary \in BOOLEAN, s \in SectorSizes} : g.status = 1}

Extents(g) == {Extent(p, g.sector_size) : p \in g.entries}

(* gpt.c:1042 "always start by overwriting the GPT we did *not* use, so    *)
(* there is always at least one good GPT!": whenever the power fails, a    *)
(* GPT with all the partitions can be read; there is one at the start, of  *)
(* a disk that was not truncated and has partitions.                       *)
OneGoodGpt ==
    layout.cut = 0 /\ layout.parts # {} =>
        \E g \in Tables : Extents(g) = layout.parts

(* No GPT that can be read, old, new or a mixture of both, ever describes  *)
(* other partitions than the first one did (gpt.c gpt_adjust_sectors).     *)
NoWrongGpt == \A g \in Tables : Extents(g) = layout.parts

(* gpt.c:805 "gpt_adjust_sectors() checked that there is no user data in   *)
(* the area going to be overwritten": the partitions keep their content.   *)
DataKept ==
    \A e \in layout.parts : \A u \in e.from..(e.to - 1) :
        u \in DOMAIN disk => disk[u] = Data

(* The assertions of gpt_adjust_sectors() and create_new_gpt(): the disk   *)
(* is large enough, no used entry is dropped and the new headers pass the  *)
(* program's own check (gpt.c:363, 375, 411, 789).                         *)
AssertsHold ==
    pc = "adjust" =>
        /\ FirstStart(gpt) < LastEnd(gpt)
        /\ Units >= LastEnd(gpt)
        /\ ~Constraint(gpt, dev) =>
             /\ max_partition_entries(gpt, dev) >= used_entries(gpt)
             /\ \A offset \in {1, Sectors(dev) - 1} :
                  check_gpt_header(new_header(gpt, dev, offset), offset, dev) = 1

(* A repair that ran to its end leaves two GPTs for the device's sector    *)
(* size that point at one another, the same array in both, and a           *)
(* protective MBR that covers the disk (gpt.c create_new_gpt).             *)
RepairIsComplete ==
    pc = "reload" =>
        LET p == read_and_check_gpt(disk, 1, dev)
            b == read_and_check_gpt(disk, Sectors(dev) - 1, dev)
        IN  /\ p.status = 1 /\ b.status = 1
            /\ p.header.AlternateLBA = b.header.MyLBA
            /\ b.header.AlternateLBA = p.header.MyLBA
            /\ p.header.crc = b.header.crc
            /\ p.header.LastUsableLBA < b.header.PartitionEntryLBA
            /\ disk[0].size = Sectors(dev) - 1

(* gpt.c:44 "0: everything OK": after a successful run of "fix" the        *)
(* primary GPT, the one that the kernel reads, is good.                    *)
OkMeansPrimary ==
    pc = "idle" /\ code = 0 /\ mode = "fix" /\ ~failed =>
        read_and_check_gpt(disk, 1, dev).status = 1
=============================================================================
