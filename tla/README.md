# A TLA+ verification of qubes-linux-utils

This directory models the programs of the repository that hold protocol,
recovery or validation logic, checks the models with TLC on small instances,
and proves most of their safety properties with TLAPS for all instances.
`PROJECT.json` has the same information in tabular form: components, runs,
the source lines behind every definition, findings, hazards and theorems.

## 1. The system

| part | source | state it keeps | operations | talks to |
|---|---|---|---|---|
| file copy, sending side | `qrexec-lib/pack.c`, `copy-file.c` | position in the directory walk, running CRC, blocking mode of the reply pipe | `do_fs_walk`, `single_file_processor`, `write_headers`, `notify_end_and_wait_for_result`, `wait_for_result` | the receiver, over stdout and stdin |
| file copy, receiving side | `qrexec-lib/unpack.c`, `copy-file.c` | running CRC, byte and file counters, the file being written, the incoming directory | `do_unpack_ext`, `process_one_file*`, `opendir_safe`, `fix_times_and_perms`, `send_status_and_crc`, `do_exit` | the sender; the file system; programs of the receiving qube that use the files |
| wire format, I/O helpers | `libqubes-rpc-filecopy.h`, `ioall.c`, `crc32.c` | none | `read_all`, `write_all`, `set_block`, `set_nonblock` | both sides |
| path and display validation | `unicode.c`, `pure.h` | none | `validate_path`, `qubes_pure_validate_*`, `qubes_pure_string_safe_for_display`, `qubes_pure_sanitize_string_safe_for_display` | called by the receiver and by other programs |
| GPT repair | `gptfixer/gpt.c` | the disk | `check`, `fix` | run by the initramfs on every boot |
| Xen block hotplug | `not-script/not-script.c` | loop devices, XenStore entries | `add`, `remove` | Xen toolstack, kernel, other instances of itself |
| memory reporting | `qmemman/meminfo-writer.c` | last reported value, the signal that starts it | `update`, `parse`, `send_to_qmemman` | balloon driver, XenStore, whoever sends SIGUSR1 |
| udev scripts | `udev/*` | QubesDB entries of block and USB devices, a cache of device-mapper slaves | add, change, remove events | one another, through QubesDB, sysfs and nested runs |
| initramfs scripts | `dracut/*` | mounts, device-mapper tables | boot | `gptfix` through its exit status |
| image converter | `imgconverter/` | none | parse and convert a stream | a sender in another qube |
| kernel image tools | `kernel-modules/genfs.c`, `qubes-prepare-vm-kernel` | labels and flags of the inodes of an image | one pass over the inodes, one walk from the root | libext2fs |
| qube names, allowlist generator, packaging | `qube-name.c`, `unicode-generator.c`, ... | none | one-pass tools | - |

What is hard in it:

* **File copy.** Two processes and two bounded pipes. The receiver may give up
  at any moment while the sender is in the middle of an entry or blocked on a
  full pipe; the sender polls for the verdict after every entry and then waits
  for it. Streams are cut and garbled, disks fill up, processes are killed. A
  success must mean that both sides saw the same bytes; a failure must come
  with its reason; nothing that exists may be replaced; nobody may wait for ever.
* **Confinement.** The stream comes from another qube and is arbitrary. No
  combination of accepted entries may create a link that leads out of its
  top-level directory, or store anything through a link, while other programs
  resolve paths in the half-written tree.
* **Validation.** A single pass with look-ahead over a NUL-terminated string,
  in which "..", ".", "//", multi-byte characters and the end of the buffer
  meet one another.
* **GPT repair.** Two tables, two sector sizes, power failures between any two
  sectors, and a second run that finds whatever the first one left.
* **Hotplug.** Scripts for several virtual devices, the kernel's block backend
  and unrelated programs share the loop devices; a device that frees itself on
  its last close is reused under a number that somebody still remembers.
* **Boot.** The scripts trust the exit status of `gptfix`, wait without a
  timeout for device nodes that the kernel makes from whichever table it found,
  and may run after a boot that was cut short in the middle of a repair.
* **Memory reporting.** Two files that are read one after the other while the
  balloon driver moves, thresholds that may let the report drift, and a signal
  that may come at any point of the start.
* **udev.** Scripts for a partition run the one for its disk, scripts for a
  device-mapper device those for its slaves. udevd serialises the events of a
  device and its parent, but not those of two partitions or of a device-mapper
  device and its slave, and nothing keeps devices from being attached, mounted
  or removed while a script runs.
* **Kernel image.** Two passes over one image: what the first sets for every
  inode the second changes for some, through directories in any order and files
  with several names.

## 2. Modules

```
PathRules ─┬─ IncomingTree ─┬─ Confinement ─── ConfinementProofs
           │                └─ QfileUnpack ─┐
           │  QfileWire ──────┬─────────────┼─ FileCopy ─── FileCopyProofs
           │                  └─ QfilePack ─┘
           └─ PathValidate ── Utf8 ── Sanitize
                        MCUnicode ── UnicodeProofs

FileCopy ── CopyService (abstract)      GptFix ── Boot ── BootProofs
NotScript ── NotScriptProofs            MeminfoWriter ── MeminfoProofs
Genfs ── GenfsProofs                    UdevBlock ── UdevBlockProofs
```

`MC*.tla` hold the trees, layouts and strings that the instances use; one
`.cfg` per run.

**PathRules** says what `unicode.c` accepts in terms of path *components*
(names, `..`, `.`, root). It is what the models of the file copy use.
**PathValidate** runs `validate_path` one loop iteration per step on bytes and
is compared with PathRules, so that the abstraction is itself checked.
**Utf8** has `validate_utf8_char_*` and a reference decoder taken from RFC
3629; **Sanitize** runs the display sanitizer byte by byte. MCUnicode has the
behaviours of both.

**IncomingTree** is the receiving directory: a function from paths to nodes
(kind, permissions, announced size, content, target), `opendir_safe`, and the
errors of the creating calls. Permissions are `none` (mode 0, being written),
`rwx` (a new directory) and `final`.

**QfileWire** has the two pipes (`fwd`, `rev`), the headers, EOF and broken
pipes. **QfilePack** and **QfileUnpack** are the two programs, with one action
per call that can block or fail. `spc`/`rpc` say where each program is;
`stack` and `cont` are the recursion of `do_fs_walk` and what follows the
current wait. The CRC is modelled as the sequence of items it covers, a chunk
is what one `read()` returns. **FileCopy** joins them and adds the faults.

Any item in flight may be garbled, a header to another type, other lengths, a bad
time stamp or the end marker (`Garbled`). The receiver does what `unpack.c` does
with such a header: it takes the bytes that the header asks for from the pipe
(`Receive`). If they are the item at the head of the pipe (`Placed`), that item is
read. If not, the receiver has lost its place: a read then gives any `Garbage`
that has the form and the length asked for, file data taken for a header
included, and ends inside the item at the head or uses it up (`ReadPart` for one
that needs more than that). `slip` is 0 while the receiver has its place. From
then on the two checksums differ for good.

**CopyService** is what the user of a copy is promised, in three actions: items
arrive in any order, and the copy then ends in success, with all of them there,
or in failure. `ImplementsService` states that FileCopy implements it, with
`Arrived` (the source paths that the receiving directory holds in full) and
`Verdict` (how the sender exited) as the refinement mapping.

**Confinement** replaces the sender by an arbitrary stream and adds the
kernel's path resolution, one component per step, interleaved with unpacking.

**GptFix** is `gpt.c` on a disk of 512-byte units, with a write split into
sectors. A checksum is the array it is computed over.

**NotScript** is `not-script.c` for any number of virtual devices at once.
`loops` and `refs` are the kernel's loop devices and who has them open, `xs`
the XenStore entries, `pc` and `local` the scripts. The block backend, the
toolstack and other programs that use loop devices are external actors.

**Boot** runs `dracut/simple/init.sh` and `dracut/full-dmroot/qubes_cow_setup.sh`
over GptFix: the script starts `gptfix` as a child, acts on its exit status and
looks for the root partition among the device nodes that the kernel made when
the disk appeared or when `gptfix` asked for it. The power can fail at any step.

**MeminfoWriter** is `meminfo-writer.c` with one action per `pread()`, XenStore
write or signal call. `current`, `usage` and `swap` are what the kernel would
say at this moment; `buf`, `buf2` and `meminfo` are what the daemon has read.
`torn` remembers how often the balloon moved between the two reads of
`current_kb` that were found equal.

**UdevBlock** is `udev-block-add-change` and `udev-block-remove` for a disk,
its partitions and a device-mapper device on one of them. `handler` holds for
each device the stack of scripts that its event runs; `queue` the events that
wait; `listed` the entries in QubesDB. `last` is a history variable: whether
the last script for a device had it for itself ("clean"), overlapped with another
("company"), or found its device to be a partition of an attached disk
("skipped").

**Genfs** is `genfs.c` on an image that is a set of directory entries and a
kind for each inode. `stack` holds the running iterations over directories,
each with the entries that it has still to see, in any order.

### How state and actions correspond to the code

| module | actions | code |
|---|---|---|
| QfilePack | `WalkEnter`, `WalkLeave`, `WalkEnd` | the recursion of `do_fs_walk`; a directory header is sent on entry and again after its content |
| | `SendHeader`, `SendName`, `SendChunk`, `SendTarget` | `write_headers`, `copy_file`, the link branch of `single_file_processor`; a failing write goes to the wait for the result, as `write_all_with_crc` does |
| | `NoResultYet`, `ResultEof`, `ReadResult`, `ReadExt`, `Judge` | `wait_for_result`, non-blocking or blocking |
| | `NotifyEnd` | `notify_end_and_wait_for_result` |
| QfileUnpack | `ReadHeader*`, `ReadName`, `ReadEof`, `ReadError` | `do_unpack_ext`, `process_one_file`, `read_all_with_crc` |
| | `Receive`, `ReadPart` | how much of the stream a read takes (`read_all`, `copy_file`) |
| | `OpenReg`, `CheckQuota`, `WaitSpace`, `CopyChunk`, `LinkTmpfile`, `FixReg` | `process_one_file_reg` in order; `OpenReg` chooses O_TMPFILE or O_EXCL |
| | `MakeDir`; `LinkQuota`, `MakeLink` | `process_one_file_dir`; `process_one_file_link` |
| | `Sync`, `SendResult`, `SendExt` | the end of `do_unpack_ext`, `send_status_and_crc` |
| GptFix | `CheckMbr`, `Read` (four places), `Adjust`, `WriteSector`, `Reload` | `main` in order |
| Boot | `StartGptfix`, `Status`, `ChooseRoot`, `WaitRoot`, `SetUp` | `init.sh:29-101` and `qubes_cow_setup.sh:55-130` in order; `script` tells them apart where they differ |
| | `KernelScan`, `GptfixReload` | the kernel's partition scan, by itself and for BLKRRPART |
| MeminfoWriter | `BlockUsr1` ... `usr1_handler`, `WritePidfile` | `main:189-226`, child and parent |
| | `FirstCurrent` ... `Current`, `Parse`, `SendMem`, `SendSwap`, `Sleep` | `update`, `parse`, `send_to_qmemman` |
| UdevBlock | `RefreshParent`, `SkipIfParentAttached`, `RefreshSlaves`, `CheckSelf`, `CheckParts`, `Write` | `udev-block-add-change` in order, one partition per `CheckParts` step |
| | `KeepAttached`, `RemoveEntry`; `RemoveGone`, `TriggerSlaves` | `xs_remove`; `udev-block-remove` |
| NotScript | `AddOpen` ... `WaitOpened` | `main` for "add", `setup_loop`, `process_blk_dev`; one action per ioctl, open or XenStore access that others can interleave with |
| | `RemovePhys` ... `ClearLoop` | `remove_device` in order |
| Genfs | `ScanInode`, `ScanEnds` | the loop of `real_main` over the inodes, and the start of the walk |
| | `root_iterate_callback`, `dir_iterate_callback`, `recursive_relabel`, `IterateEnds` | one entry of the innermost iteration; its end |

`WalkEnter` pushes the frame of a directory before its header has been sent;
nothing looks at the frame until the header is out.

## 3. Runs

| run | what it shows | states |
|---|---|---|
| `faults` | a directory, a two-chunk file and a link, with any two faults, garbled lengths and types included, into a directory in which none or some of the names are taken: success is complete and agreed, no readable half-written file, nothing replaced, failures are explained, the place in the stream is lost through garbled headers only, both programs end unless such a header starves them; FileCopy implements CopyService | 660 000 |
| `limits` | limits on size and number that the tree exceeds, quota errors ignored, pipes of one item: the limits hold, a receiver that gives up early blocks nobody | 790 |
| `confinement` | arbitrary entries, interleaved with lookups | 73 000 |
| `unicode` | `validate_path` equals PathRules; the sanitizer's output is safe, without an overrun and with nothing lost before the cut | 1 140 000 |
| `hotplug` | two virtual devices added and removed concurrently, with and without autoclear, one dying script, one loop device taken by another program: no leak, nothing detached by mistake, the backend opens the right image | 620 000 |
| `boot` | nine layouts, five MBRs, three boots cut short anywhere: one good table, no wrong one, complete repairs, the assertions hold, data is kept; the right root device, set up the right way, and every boot ends | 150 000 |
| `meminfo` | the report is a consistent reading and stays close; the signal is not lost | 1 000 000 |
| `udev` | any four changes of a disk, two partitions and a device-mapper device: the list is right when all events are handled, with the exceptions that section 6 names | 2 600 000 |
| `genfs` | labels and immutable flags are right for every order of the directories, with hard links | 1 255 000 |
| `hotplug_alias`, `gpt_resumed`, `udev_attached` | violations, see section 6 | |

### Bounds, and why they are enough

* *File copy.* Two faults, because one fault can mask another (a garbled item
  and a kill); a two-chunk file so that a file can be cut in the middle; both
  directory headers; a link so that the other branch of the reader is taken.
  The receiving directory is empty, or has `d` with a file for the link and a
  link for the file in it, or has a file for `d`.
  Pipes of two items let each side be ahead of, level with or blocked by the
  other. `RevCap = 2` is what the code relies on: a reply is 16 + 4 bytes and a
  name below 16 KiB and always fits a pipe of 64 KiB. `limits` uses 1 on
  purpose: there the reply does not fit and only `close(0)` in `do_exit` keeps
  both sides from waiting for one another. (With `RevCap = 1`, and a receiver
  that gives up on a read error, which does not close stdin, both would block;
  no pipe is that small.) Its tree has three files and a link, with
  `files_limit` and `bytes_limit` 3, so that either limit is the one that is
  hit. The code tests `filelen > bytes_limit` before it subtracts
  (`unpack.c:223`), so that the unsigned difference cannot wrap; natural numbers
  are enough.
* *Garbling.* `InPlace` are headers that are refused for their type, length or
  time stamp or that end the copy, and other names, data and targets.
  `OutOfPlace` are a file that is longer than what follows, so that the rest of
  the stream is taken for its data and may not be enough, and a link in the place
  of a file with two chunks, so that a read ends inside the first and the rest is
  taken for headers. One such header makes everything that follows arbitrary;
  `MaxReads` = 1 lets one read end inside each item. The proofs are about any
  `Garbage` and any `MaxReads`. A name that arrives garbled is a path; other
  shapes of names are the subject of `confinement`.
* *Confinement.* Two names, three levels, four objects, targets of up to three
  components with every kind of component. A shortest escape needs two levels,
  a link and a lookup; the theorem covers all other sizes.
* *Scanner.* All paths of up to seven bytes over `a . /` and up to five bytes
  with a two-byte character and its parts added, three flags in all
  combinations, budgets 0 to 2: enough for two components behind two `..`.
* *Sanitizer.* All strings of up to five bytes over two alphabets (ASCII,
  control, two- and three-byte characters, overlong and surrogate lead bytes)
  and all buffers of 0 to 7 bytes. `SafeCodePoints` stands for the generated
  allowlist.
* *GPT and boot.* A disk of 64 units; sectors of 1 and 8 units (512 and 4096 bytes);
  layouts chosen at the boundaries: exactly enough room on both sides, one
  sector too little on either, unaligned, more entries than fit, a used entry
  beyond what fits, a truncated disk. Three boots allow a repair, a repair of a
  cut repair, and a third on the other sector size.
  `gptfixer/test.sh` attaches one image with both sizes in turn.

* *Hotplug.* Two virtual devices are enough for one to reuse the loop device
  of the other; three loop devices, one retry and one outsider let a candidate
  be taken between any two calls and the search fail. `retry_limit` is 5 in the
  code and 1 in the instance, so that it is reached.

* *Memory reporting.* Sizes and uses at, below and above the threshold and half
  of it, near the point where little memory is left; a size smaller than the
  use cannot occur. Two moves of the balloon between two reads are told apart
  from one; more do not differ from two.
* *udev.* Two partitions, because the events of siblings are not serialised; a
  device-mapper device on the first. Four changes are enough for a mapping to
  come and go around two changes of other devices. It starts with the
  disk listed and no event waiting, which is the state after it was plugged in.
* *Kernel image.* Nine inodes: each place that the code treats specially and a
  file below it, so that every branch of the callbacks is taken. One choice of
  a second name, of an inode of an unusual kind, and of a root entry whose name
  is a prefix of an expected one; the order of each directory is free.

Deadlock is checked wherever the system may not stop. It is switched off for
`confinement` (a bounded tree fills up), for `unicode` and `genfs` (programs
that end), for the udev runs (devices may rest), and for `faults`, where
the two programs may be left waiting for one another or for disk space;
`Terminates` says when, and is checked there.

### Fairness

Only weak fairness of each program's own steps: a process that can run is
scheduled. No fault ever has to happen and nothing ever frees disk space. So
`Terminates` excludes two waits that the code itself leaves open:
`wait_for_space()` with its "TODO: timeout?" (`unpack.c:85`), and `Starved`, a
receiver that waits for bytes which only a garbled header has announced while the
sender, with all sent, waits for the result; no read has a timeout. `BootEnds`
excludes the waits of `init.sh:33` and `:45` when the primary table does not
have the partition; `SignalStartsWork` excludes a balloon that never rests.
The balloon, the programs, the power and the sender of the signal are never
made to act.

## 4. Proofs

Every safety property of the table is a theorem of the module's specification
for every value of its constants; the runs of section 3 check the same
definitions on an instance. Each proof has an inductive invariant, which TLC
checked on the instance before it was proved, one lemma per action or group of
actions, and a last step that combines them.

| module | invariant | properties |
|---|---|---|
| `ConfinementProofs` | `ConfinementInvariant` | `Confined`, `ParentsAreDirs` |
| `FileCopyProofs` | `AgreementInvariant`, `StreamInvariant` | `SuccessIsAgreed`, `TypeOK`, `NoPartialFile`, `InSync`, `NothingReplaced` |
| | `CompleteInvariant` | `SuccessIsComplete`, `ImplementsService`, `FailureIsExplained` |
| | `LimitInv` (in `Limits_Safe`) | `LimitsHold` |
| `NotScriptProofs` | `OwnInvariant` | `DetachesOnlyOwn`, `BackendGetsTheImage`, `NoLeak` |
| `BootProofs` | `GptFix_Invariant`, `Boot_Invariant` | `NoWrongGpt`, `OneGoodGpt`, `DataKept`, `AssertsHold`, `RepairIsComplete`, `WholeOnlyIfBare`, `NodesAreRight`, `CowIfReadOnly` |
| `MeminfoProofs` | `MeminfoInvariant` | `TypeOK`, `StableReading`, `ReportIsClose` |
| `GenfsProofs` | `Genfs_Invariant`, `Labels_Invariant` | `ImmutableIsRight`, `LabelsAreRight` |
| `UdevBlockProofs` | `UdevInvariant`, `SkipInvariant` | `ListedIsFree`, `FreeIsListed` |
| `UnicodeProofs` | `UnicodeInvariant` | `InBuffers`, `ResultIsSafe`, `Faithful` |
| | `PathInv` (in `PathMatchesRules_Safe`) | `PathMatchesRules` |

**Confinement** (`ConfinementProofs`): for every set of names, depth, set of
targets and number of links followed, a lookup that starts in a top-level
entry never leaves it (`Confinement_Safe`), and objects are stored only below
real directories (`Parents_Safe`).
*Assumptions*: `ConfinementAssumption`. The flags are without
`UNSAFE_SYMLINKS`, which switches the check off; a root component comes only
first; targets are finite sequences of components.
*Argument*: `Confined` is not inductive, because a lookup in the right place
may still have components ahead of it that lead out. `ConfinementInv` adds
that every stored link at path `p` is `Bounded` by `Len(p) - 2` (no root, every
`..` before every name, at most that many of them), that the rest of a running
lookup is bounded by its own depth less one, and that no top-level entry is a
link. Consuming a component keeps the bound (`BoundedPop`, `BoundedTail`),
following a link puts a bounded target in front of a rest that was bounded and
has had a name in front of it, and so has no `..` (`BoundedPush`), and
`validate_path` accepts only bounded targets (`AcceptedTargetBounded`,
`StoredLinkBounded`).

**File copy** (`FileCopyProofs`). *Assumptions*: those about constants. The
source is a tree (every proper prefix of a path is a directory of it), its
nodes and those of the receiving directory are `WellFormed` (only a file has
content, only a link a target, the size is that of either), and a pipe holds an
item at least. No link target is longer than a file may be (`MAX_PATH_LENGTH` is
16384 and `LLONG_MAX` is 2^63 - 1 in C); only the limits need that. The CRC is taken to be injective, since it is modelled by what
it covers.

*Agreement*: a sender that exits 0 on a result of 0 agrees
with the receiver about every item, and the receiver saw the end marker
(`Success_Safe`). The property is about the moment of exit, so `AgreementInv`
follows the verdict from where it is made: a code of 0 about to be sent follows
the marker (`CodeIsHonest`), the reply pipe never holds anything but that
verdict and its extension (`ReplyIsVerdict`), the last wait blocks, so that "no
result yet" cannot be taken for success (`LastWaitBlocks`). The lemmas on codes
show that no error becomes 0 when it is cut to 32 bits, the negative one of
section 6 included.

*The stream*: the types (`FileCopy_Types`), `InSync_Safe`,
`NoPartial_Safe` and `NothingReplaced_Safe`. None of them is inductive: what the
receiver finds next was decided when the sender was at another place.
`StreamInv` says that there is a tag for each item that was ever sent, naming
the entry and the position in it, so that tags follow one another as
`single_file_processor` sends them, and that each program is at the position its
program counter implies, the receiver only as long as every header it has read is
the one that was sent (`Steady`): behind a garbled header it may be anywhere.
`PipeInv` says that the pipe, until the receiver has lost its place, is what lies
between the two, each item as it was sent or garbled. A step of the sender adds a
tag (the witness of the quantifier), a step of the receiver none. So `InSync_Safe`
says that nothing but a garbled header makes the receiver lose its place: not a
garbled name, chunk or target, and no failure halfway through an entry, whatever
the garbled bytes look like. What the other theorems claim holds behind a
garbled header too, since `EntryInv` and `FileInv` do not depend on the place in
the stream. `FileInv` says
what the receiving directory holds of the file being written: nothing until
`linkat()`, or a file without permissions.

*Completeness*: `Complete_Safe` has two halves that
meet in the checksum. `WalkInv`: an entry of the source is still to be walked,
being sent, or in what was sent, a directory twice. `CleanInv` and `StoredInv`:
as long as nothing that was read had been garbled (`Clean`: what the receiver's
checksum covers is the beginning of what the sender's covers), the receiver works
on the entry itself, and each entry it has read and is not working on is in its
place.
Success means that both checksums are equal, so that all is sent, received and
in its place. `Service_Implemented` is the refinement: what has arrived stays,
one entry arrives at a time (`ArrivalSteps`), a verdict is given once and
nothing is stored after success (`VerdictOnce`). `Explained_Safe` adds
`ExplainInv`: a status that was sent is in the pipe until it is read, and a
result of 0 is read only at the end of the walk.

*The limits*: `Limits_Safe`, for any limits and whatever is garbled. That what
is stored stays below them is not inductive: a chunk is written without looking
at a limit. `LimitInv` says that what is stored is at most `total_bytes`, and
that while an entry is being unpacked the *other* entries and the length its
header announced are together at most `total_bytes`, and at most the limit
since `OverQuota` found them to be; the number of entries goes the same way
with `total_files`. A chunk then stays inside what its header announced
(`EntryInv`), and the target of a link is no longer than was announced and
counted, whatever a garbled header announces, because `read_all()` fills no more
than that (`LinkKeepsLimits`). The sum over a set
of files is the fold of the community modules, a recursive function that takes
one element after another: it exists for every finite set (`SumsExist`), gives
the same in whatever order (`SumAnyOrder`, at a smallest set where it would
not), so that one entry can be taken out of it (`SumWithout`).

**Hotplug** (`NotScriptProofs`): for any number of virtual devices, loop devices,
retries, dying scripts and programs that grab loop devices.
*Assumptions*: `NotScriptAssumption`, and `NoAliases` as a hypothesis of each
theorem: no `params` is a link to a loop device. Without it `DetachesOnlyOwn` is
false, which is what the run `hotplug_alias` shows.
*Argument*: O_EXCL gives a loop device to one script at a time (`ClaimInv`), and
the one that "add" holds is its own until it publishes (`AddInv`); a diskseq is
never used again, so that the one "add" read names this configuration for ever
(`SeqInv`); what "remove" finds in XenStore is what "add" published
(`PublishedInv`). `BackendGetsTheImage` needs besides that the device the
backend has yet to open is held by the script or configured to stay
(`ImageInv`), `NoLeak` that a script or XenStore knows every configured device
(`TrackInv`). The invariant is one formula per virtual device; `StepOf` says
once what a step of one actor can do to the state of the others, so that each
action is looked at for its own device only.

**GPT repair and boot** (`BootProofs`): for every layout, size of the disk, both
sector sizes and any number of boots, with a power failure between any two
sectors.
*Assumptions*: `GptFixAssumption`: whole sectors of the larger size and at least
six of them, extents that are not empty and in slots that the table has, and at
most one of the two tables lost. A disk starts as a partitioning tool that had
room for the table and a sector of data would leave it (`CanFormat`).
*Argument*: three layers. What is in one of the four units that can hold a
header is a header that lists the partitions for the sector size of that unit
(`GoodHeader`), whatever was cut short; what `gptfix` has read is such a header
(`GptInv`), so that nothing wrong can be read (`NoWrongGpt`); and all writes are
confined to the sides of the partitions (`Confined`, `DataKept`). For
`OneGoodGpt` the order of the writes matters: `QueueInv` says that what is still
to write is the end of what `create_new_gpt` asked for, `ProgressInv` that the
table which was read is intact during the first half and the first new one is
complete during the second. `FoundInv` carries this over a power failure to the
next run, and `ExitInv` an exit status to the script; `ScriptInv` follows the
scripts and the device nodes. The greatest and least elements that `gpt.c`
computes in loops exist because the naturals are well-founded (`LeastNat`).

**Memory reporting** (`MeminfoProofs`): for all sizes of the qube, uses of memory
and swap, and thresholds, the types are kept (`Meminfo_Types`), an accepted
reading is what was in use unless the balloon moved twice between two reads
(`Meminfo_Stable`), and the report is as close to the measured use as the
thresholds promise (`Meminfo_Close`).
*Assumptions*: `MeminfoAssumption`: sizes and the threshold are positive, as
`main` checks for the threshold.
*Argument*: both properties speak of one point of the loop, so `MeminfoInv` says
what is known at the others. `Readings`: the buffer read last equals the size if
the balloon has not moved since, and differs from it if it has moved once; and
meminfo was read under that size if it has not moved at all. `Reported` and
`Results`: XenStore holds `prev_used_mem` once something was sent, or is about
to, so that comparing with `prev_used_mem` is comparing with XenStore.

**Kernel image** (`GenfsProofs`): in every finished image exactly the wanted
inodes are immutable and every inode has the label of a place that has a name
for it, for every image, any number of names per file and any order of the
directories.
*Assumptions*: `GenfsAssumption`: only directories have entries, a directory has
one name besides the dots (the root none, lost+found one in the root), and no
name is taken both for firmware and for the version of the kernel, which begins
with a digit.
*Argument*: the walk only takes flags away, and only from `build`, which has
none, and from modules.* files (`WalkInv`). That it misses none of these is
`PendingInv`: until the flag is gone, the name of the file is in front of a
running iteration over the kernel's directory, or the name of that directory is
in front of the one over the root. When the stack is empty nothing can be.
*The labels*: no label is wrong where it is put (`FitInv`, `FramesInv`), and an
inode that has lost the label of the modules does not get it back unless the
root has a name for it (`Settled`). That none is missed is `SettledInv`: the
names of firmware, build and modules.* wait as above, and all that is in a
directory that was reached is settled or in front of the iteration over it.
`Below` is the least set that has a directory and, with each directory, what is
in it; at the end the settled inodes are such a set, without those directories
that the root has a name for and which therefore have no other.

**udev block scripts** (`UdevBlockProofs`): for any number of partitions and of
changes, whatever order events, nested scripts and changes come in, what is
listed is free (`Listed_Safe`) and what is free is listed (`Free_Safe`) when
all events are handled, with the exceptions that the properties name.
*Assumptions*: `UdevAssumption`: the disk, its partitions and the device-mapper
device are different, there are finitely many partitions, and the slave is one
of them.
*Exceptions*: a device for which two scripts overlapped, and a slave whose
device-mapper device was gone before it was cached; for `Listed_Safe` a partition
that no script has found to be part of an attached disk, for `Free_Safe` one that
its last script has.
*Argument*: both properties speak of a quiet moment, at which the list was
decided by scripts that read the state one piece at a time. So `UdevInv` says for
every other moment who will still look. A script that is not marked "company" is
the only one for its device (`AloneInv`), so that what it has read can be
followed until it writes. The last event that is queued for a device says
whether the device exists (`OrderInv`), and a script that is at odds with that
has an event behind it (`FollowInv`). For each reason not to list a device,
either it does not hold, or an event is queued or a script runs that will read
it (`Seen`, `ListInv`); a reason to list it again that arises in another device
is passed on by the partition's script to the disk, or by the removal of the
device-mapper device to what it finds in the cache (`Comes`, `FreeInv`), which
is there when it is needed (`CacheInv`). The steps are of few kinds, one lemma
each: a script goes on (`ChangeKeeps`), ends (`PopKeeps`) or runs another
(`PushKeeps`), udevd starts one (`StartKeeps`), the removal is passed on
(`ClearKeeps`), and the kernel changes something and announces it
(`KernelKeeps`). `QuietFacts` says that at a quiet moment nobody is left to look,
so that no reason is either. `SkipInv` is a second invariant: a script that finds
its device to be a partition of an attached disk removes the entry, and the
partition stays off the list until another script for it starts, unless it is
attached itself (`SkipOk`, `SkipInvariant`). `Listed_Safe` needs it for those
partitions, about which `UdevInv`, whose reasons not to list a device come with
events for that device, says nothing.

**Scanning strings** (`UnicodeProofs`): for every path, text, set of safe code
points and size of the buffer, the sanitizer stays within its buffer
(`InBuffers_Safe`), the check of the same file accepts what it returns
(`Result_Safe`), and nothing is lost before the cut (`Faithful_Safe`).
*Assumptions*: `Utf8Assumption` and `MCUnicodeAssumption`. C strings have no NUL
inside; safe code points are neither control characters nor surrogates and at
most U+10FFFF.
*Argument*: `SafeCharacters` compares the two ways to say what a character is.
`validate_utf8_char_and_return_len` computes a code point from the bytes, the
reference bytes from a code point; `Form` and `Code` say which bytes are
well-formed and what they decode to, `Digits` that dividing by 64 undoes it. A
string is safe if places can be marked in it that lead from the start to the
end by whole characters (`Marks`), so that a character can be added without
looking at the others (`AppendMarks`); what is expected of the sanitizer is
followed along the places it has read in the same way (`Trail`). The definitions
of both properties are recursive functions; that they have a solution, and that
the marks decide it, is shown at the least or the greatest place where something
fails.

**Scanning paths** (`UnicodeProofs`): for every path, budget and set of flags,
`validate_path` returns what the rules of `PathRules` say of the path's
components: the number of names, or the error of the first component refused
(`PathMatchesRules_Safe`). The models of the file copy use these rules.
*Assumptions*: those above, `PathRulesAssumption` and `PathValidateAssumption`:
only the class `"odd"` stands for names with bytes that are refused.
*Argument*: the rules number the components, the scan knows only where it is.
A component's number is the `Rank` of its start among all starts (`Numbering`),
and counting numbers is counting starts (`CountRanks`), so the verdict on a
component can be given at its start (`ErrAt`, `ErrorOf`). `PathInv` follows the
scan: none of the starts passed is refused, the budget and the depth are the
counts of the starts passed, and every byte passed is printable or in a safe
character that was passed as a whole (`Progress`). So a component that has been
passed is refused for no byte (`TiledIsPlain`), and a refused byte, to which no
character before it can reach, makes its component the first one that the rules
refuse (`RefusedIsOdd`, `StopAtChar`).

**Only model-checked**: `Terminates`, `BootEnds` and `SignalStartsWork`. They are
liveness, and fairness and ENABLED are out of the prover's reach.

## 5. What the properties say about the code

`SuccessIsComplete` is the user's view (the files are there), `SuccessIsAgreed`
the protocol's. `FailureIsExplained` has one exception that the code makes:
with `ignore_quota_error` the sender keeps walking after an ignored EDQUOT. If
the result is read by the final wait, it exits 0; if it was read by a poll, the
receiver is gone, the next write fails and the sender ends with status 1 and no
message.

`NoPartialFile` allows a partial file that cannot be opened (mode 0): without
O_TMPFILE a kill leaves one.

`OneGoodGpt` and `NoWrongGpt` together are the promise of `gpt.c:1042`; the
mutant of the write order shows how it depends on writing the unused table
first.

`NoLeak` has two exceptions that the code makes: a script that dies between
LOOP_CONFIGURE and the XenStore transaction leaves a loop device that nothing
records, and a "remove" with a stale number holds the device of another
virtual device with O_EXCL for a moment, during which that device's own
"remove" fails with EBUSY, its XenStore entries already deleted. No line of the
repository promises otherwise, so that there is nothing to violate; both are
listed as hazards without a property (`not-script.c:99` and `:331`).

`BootEnds` says nothing of a boot whose primary table does not show the root
partition: `init.sh` waits for it without a timeout, and may wait for ever
(`init.sh:33`). What it does cover is the race of the kernel's own scan with the
repair: the nodes are made in the end because `gptfix` has the kernel look again
after its last write (`gpt.c:1063`).

`ListedIsFree` and `FreeIsListed` say that the list is right up to what the
scripts do not see. `PartsAreHidden` states what the script's comments promise of
the partitions of an attached disk, without that exception, and fails (section 6).
A device for which two scripts overlapped is left out of both: nothing in the
scripts keeps the one that read first from writing last.

## 6. Findings

* **`hotplug_alias`** (`not-script.c:322`): "remove" takes a loop device that
  somebody else set up for its own, and detaches it, when `params` names it by
  a link: `physical-device-path` was rewritten to `/dev/loopN`.
* **`gpt_resumed`** (`gpt.c:1003`): after an interrupted repair the next run
  finds the new backup table good, exits 0 and never writes the primary.
* **`udev_attached`** (`udev-block-add-change:73`): after the whole disk is
  attached only the script for the disk runs, so that its partitions stay on
  offer, against the comments in lines 72 and 105.

Seen while modelling, and not given a run:

* `pure.h:99` documents `qubes_pure_validate_file_name` as equivalent to
  passing flags 0 to the newer function, but `unicode.c:266` passes
  `QUBES_PURE_ALLOW_TRAILING_SLASH`, so that `a/` is accepted by the one and
  refused by the other.
* `unpack.c:264`: the status of a refused *directory* name is sent negated (files
  and links: `-ret`); the sender does not recognize it and reports an unknown
  error instead of "Forbidden character". `do_exit` and `Judge` model it.
* `unicode.c:355` cuts a multi-byte character that fits the buffer exactly.
* `gpt.c:683`: when the partition entries cannot be read, `gptfix` exits with
  status 0, documented as "everything OK", and the boot goes on, where `init.sh:48`
  wants an I/O error to be fatal. `EntriesReadError` models it.
* `init.sh:39` keeps one digit of the number of the root partition, so that it
  looks for `xvda1` when it is `xvda12`; `FirstDigit` models it.
* `init.sh:55` says that a truncated disk is fatal; its status, 8, is in the
  list of line 50, and the disk is used as a whole.
* `qubes_cow_setup.sh:87`: `udevadm settle` may return before the root
  partition is there; a read-only root device would then be set up for
  writing. `CowIfReadOnly` therefore speaks of `init.sh` only.
* `meminfo-writer.c:100`: `prev_used_swap` is never assigned, so that swap is
  written at every update. A SIGUSR1 between `fork()` and `sigprocmask()` kills
  the child. A balloon that returns to the same size between two reads is not
  noticed (`torn = 2`).
* `udev-block-add-change:86`: if the device-mapper device is gone before its
  last event is handled, the cache is written empty and the slave stays hidden
  until its next event.
* `udev-block-add-change:107`: two scripts for the disk, run by the events of two
  partitions or of a device-mapper device, may overlap; the one that read first
  may write last, and then lists a disk whose partition is used or attached,
  which the comment in line 104 wants to prevent. `last` = "company" marks it.
* `genfs.c:120`, `:128` and `:131` compare with the length of the entry's name,
  so that a root entry whose name is a prefix of an expected one (`firm`) is
  treated as that one, and not refused as unexpected. `Matches` models it. A
  file with names in two places gets the label of the one that is walked last.
* `udev-block-add-change:73`: nothing runs the script for a partition when its
  disk is detached, so that a partition which was found hidden stays hidden until
  its next event.

## 7. Not modelled, and the plan

Left out of the modelled parts: wording of messages, `mode` and the text of
numbers in `not-script.c`, `sanitize_remote_filename`
in `pack.c`, exact modes and times, CRC arithmetic, argument parsing, the size
checks of `gpt.c`'s `main` (assumed by `GptFixAssumption`),
`--unsafe-skip-bpb-check`, partition entries of other sizes than 128 bytes.
The caller of the packing functions is not in this repository and is modelled
as walking each top-level entry and then notifying the end.

Not in the model of the boot: what is mounted once the root device is found,
the modules image (`mount_modules.sh`), page scrubbing, the layout of the
volatile volume. In UdevBlock, a change of the use of a device is followed by an
event for that device, which is what the scripts rely on; devices that the
rules or the device-mapper flags exclude are not there, and a nested script for
a device that is gone before udevadm looks at it, which writes an entry without
a name, does nothing. `meminfo-writer.c:43-71`, which looks for the fields in
the text of `/proc/meminfo`, is abstracted to the values it finds.

Not in Genfs: owners, times, modes and the superblock, which get the same
values everywhere; the use without a kernel version, which only sets the
superblock; and `qubes-prepare-vm-kernel`, a straight-line script.

Not modelled: the qube name check and the allowlist generator (no state), the
USB scripts (one write per event of a device, serialised by udevd), the image
converter (parsing of one header, then arithmetic on pixels), packaging.
