-------------------------------- MODULE Boot --------------------------------
(***************************************************************************)
(* The initramfs scripts dracut/simple/init.sh and                         *)
(* dracut/full-dmroot/qubes_cow_setup.sh, which find the root device of a  *)
(* qube, composed with gptfix (GptFix), which they run, and with the       *)
(* kernel, which looks for partitions when the disk appears and when       *)
(* gptfix asks it to.  Power can fail at any point; the next boot may find *)
(* the image on a device with the other sector size.                       *)
(*                                                                         *)
(* The volatile volume xvdc is there and keeps to what sfdisk wrote; what  *)
(* is mounted after the root device was found is left to the caller.       *)
(***************************************************************************)
EXTENDS GptFix

VARIABLES
    bpc,      \* where the script is; "off", "booted" and "died" are its ends
    script,   \* "simple" (init.sh) or "full" (qubes_cow_setup.sh), "either"
              \* as long as both do the same
    nodes,    \* partitions of xvda that the kernel has device nodes for
    scan,     \* the kernel has not looked for partitions yet
    ROOT_DEV, \* slot of the partition, Whole for xvda itself, or NoSlot
    ro,       \* the root device is read-only
    setup     \* "cow" or "rw" once dmroot exists

bootVars == <<bpc, script, nodes, scan, ROOT_DEV, ro, setup>>
allVars == <<vars, bootVars>>

NoSlot == -1
Whole == -2
Fallback == 2     \* xvda3

Off == /\ bpc' = "off"
       /\ nodes' = {}
       /\ scan' = FALSE
       /\ ROOT_DEV' = NoSlot
       /\ ro' = FALSE
       /\ setup' = "none"
       /\ script' = "either"

BootInit ==
    /\ Init
    /\ bpc = "off"
    /\ script = "either"
    /\ nodes = {}
    /\ scan = FALSE
    /\ ROOT_DEV = NoSlot
    /\ ro = FALSE
    /\ setup = "none"

-----------------------------------------------------------------------------
(* The machine and the kernel *)

(* The kernel reads the primary GPT only, behind a protective MBR. *)
KernelTable(d, s) ==
    LET g == read_and_check_gpt(d, 1, s)
    IN  IF d[0].kind = "protective" /\ g.status = 1
        THEN {Extent(p, s) : p \in g.entries} ELSE {}

Slots(es) == {e.slot : e \in es}

PowerOn(s) ==
    /\ bpc = "off" /\ pc = "idle"
    /\ runs < MaxRuns
    /\ dev' = s
    /\ code' = Running
    /\ bpc' = "xvda"
    /\ scan' = TRUE
    /\ UNCHANGED <<layout, disk, pc, runVars, writeVars, failed, runs,
                   script, nodes, ROOT_DEV, ro, setup>>

PowerOff ==
    /\ bpc # "off"
    /\ Off
    /\ IF pc = "idle" THEN UNCHANGED vars ELSE Crash

(* xvda is there before its partitions are. *)
KernelScan ==
    /\ scan
    /\ scan' = FALSE
    /\ nodes' = KernelTable(disk, dev)
    /\ UNCHANGED <<vars, bpc, script, ROOT_DEV, ro, setup>>

(* Somebody runs "gptfix check" on the image while the qube is off. *)
CheckByHand ==
    /\ bpc = "off"
    /\ (\E s \in SectorSizes : Attach(s)) \/ Run("check")
    /\ UNCHANGED bootVars

-----------------------------------------------------------------------------
(* gptfix, as a child of the script *)

GptfixRuns ==
    /\ \/ CheckMbr
       \/ \E place \in Places : Read(place)
       \/ Adjust
       \/ \E i \in pend : WriteSector(i)
    /\ UNCHANGED bootVars

GptfixFails ==
    /\ SetupError \/ HeaderReadError \/ EntriesReadError \/ WriteError
    /\ UNCHANGED bootVars

(* Mutant: the kernel is not asked. *)
GptfixReload_Not == Reload /\ UNCHANGED bootVars

(* BLKRRPART *)
GptfixReload ==
    /\ Reload
    /\ nodes' = KernelTable(disk, dev)
    /\ scan' = FALSE
    /\ UNCHANGED <<bpc, script, ROOT_DEV, ro, setup>>

-----------------------------------------------------------------------------
(* The scripts *)

StartGptfix ==
    /\ bpc = "xvda"
    /\ Run("fix")
    /\ bpc' = "gptfix"
    /\ UNCHANGED <<script, nodes, scan, ROOT_DEV, ro, setup>>

(* The exit status of gptfix *)
Status ==
    /\ bpc = "gptfix" /\ pc = "idle"
    /\ \/ code = 0 /\ bpc' = "part1" /\ UNCHANGED ROOT_DEV
       \/ code \in {EXIT_NOT_PARTITIONED, EXIT_INVALID_GPT, EXIT_TRUNCATED}
          /\ bpc' = "setup" /\ ROOT_DEV' = Whole
       \/ code \in {EXIT_FAILURE, EXIT_IO, EXIT_UNSUPPORTED, EXIT_CONSTRAINT}
          /\ bpc' = "died" /\ UNCHANGED ROOT_DEV
    /\ script' \in {"simple", "full"}
    /\ UNCHANGED <<vars, nodes, scan, ro, setup>>

(* What grep -o "xvda[0-9]" makes of the number of a partition. *)
FirstDigit(slot) == IF slot + 1 < 10 THEN slot ELSE (slot + 1) \div 10 - 1

(* The partition named "Root filesystem", any one or none, if the kernel   *)
(* has it.  init.sh has no udev and greps the uevent files;                *)
(* qubes_cow_setup.sh uses the link that udev makes, if it is there yet.   *)
FoundRoot ==
    {Fallback} \cup
    (IF script = "simple" THEN {FirstDigit(slot) : slot \in Slots(nodes)}
     ELSE Slots(nodes))

(* The script is past its wait for the node of a partition: a loop without *)
(* a timeout, or "udevadm settle", which returns when there is no event.   *)
Waited(slot) == slot \in Slots(nodes) \/ script = "full"

ChooseRoot ==
    /\ bpc = "part1"
    /\ Waited(0)
    /\ ROOT_DEV' \in FoundRoot
    /\ bpc' = "rootdev"
    /\ UNCHANGED <<vars, script, nodes, scan, ro, setup>>

(* Mutant: only the first partition is waited for. *)
WaitRoot_Not ==
    /\ bpc = "rootdev"
    /\ bpc' = "setup"
    /\ UNCHANGED <<vars, script, nodes, scan, ROOT_DEV, ro, setup>>

WaitRoot ==
    /\ bpc = "rootdev"
    /\ Waited(ROOT_DEV)
    /\ bpc' = "setup"
    /\ UNCHANGED <<vars, script, nodes, scan, ROOT_DEV, ro, setup>>

RootExists == ROOT_DEV = Whole \/ ROOT_DEV \in Slots(nodes)

(* A snapshot for a read-only root device, else a link to it.  Without the *)
(* device `cat .../ro' prints nothing and the test fails.                  *)
SetUp(r) ==
    /\ bpc = "setup"
    /\ ro' = r
    /\ setup' = IF RootExists /\ r THEN "cow" ELSE "rw"
    /\ bpc' = "booted"
    /\ UNCHANGED <<vars, script, nodes, scan, ROOT_DEV>>

(* xvdc is too small, or sfdisk or dmsetup fails. *)
SetUpFails ==
    /\ bpc = "setup"
    /\ bpc' = "died"
    /\ UNCHANGED <<vars, script, nodes, scan, ROOT_DEV, ro, setup>>

-----------------------------------------------------------------------------

ScriptStep ==
    StartGptfix \/ Status \/ ChooseRoot \/ WaitRoot \/ \E r \in BOOLEAN : SetUp(r)

BootNext ==
    \/ \E s \in SectorSizes : PowerOn(s)
    \/ PowerOff
    \/ KernelScan
    \/ CheckByHand
    \/ GptfixRuns \/ GptfixFails \/ GptfixReload
    \/ ScriptStep \/ SetUpFails

(* The script, its child and the kernel make progress while the power is   *)
(* on; nobody has to switch it on or off, and no fault has to happen.      *)
BootSpec ==
    /\ BootInit /\ [][BootNext]_allVars
    /\ WF_allVars(ScriptStep)
    /\ WF_allVars(KernelScan)
    /\ WF_allVars(GptfixRuns)
    /\ WF_allVars(GptfixReload)

-----------------------------------------------------------------------------

(* init.sh:50 "Bad or no partition table": only a disk without a usable    *)
(* table is used as a whole.  A power failure in the middle of a repair    *)
(* never makes a partitioned disk look like one, at this boot or a later   *)
(* one.                                                                    *)
WholeOnlyIfBare ==
    ROOT_DEV = Whole => disk[0].kind # "protective" \/ layout.cut # 0

(* The kernel's device nodes, read before, during or after a repair, cover *)
(* the partitions of the image and nothing else, so that a root partition  *)
(* is where the image has it (init.sh:33-45).                              *)
NodesAreRight == nodes \subseteq layout.parts

(* init.sh:63: a root device that is read-only gets a snapshot, never a    *)
(* direct link, however late the kernel finds it.  qubes_cow_setup.sh:87   *)
(* does not promise that: "settle" may return before there is a device.    *)
CowIfReadOnly == script = "simple" /\ setup = "rw" => ~ro

(* Every boot ends or dies with a message, whatever a previous boot was    *)
(* doing when the power failed, except that init.sh waits for ever for a   *)
(* partition that the primary GPT does not have (init.sh:33, 45).          *)
Missing(slot) == slot \notin Slots(KernelTable(disk, dev))
BootEnds ==
    bpc # "off" ~> \/ bpc \in {"off", "booted", "died"}
                   \/ script = "simple" /\ bpc = "part1" /\ Missing(0)
                   \/ script = "simple" /\ bpc = "rootdev" /\ Missing(ROOT_DEV)
=============================================================================
