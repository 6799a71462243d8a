--------------------------- MODULE MeminfoProofs ---------------------------
(***************************************************************************)
(* Proof that meminfo-writer reports a consistent reading and that the     *)
(* report stays within the thresholds, for all sizes of the qube, all uses *)
(* of memory and every threshold.                                          *)
(***************************************************************************)
EXTENDS MeminfoWriter, TLAPS

(***************************************************************************)
(* The inductive invariant                                                 *)
(***************************************************************************)

Reading == {"read", "meminfo", "current2", "again", "current"}
Starting == {"child", "handler", "test", "suspend", "suspended"}
Sending == {"send", "send_swap", "sleep"}

(* The types, those of the program counters and buffers included. *)
Types ==
    /\ TypeOK
    /\ pc \in Reading \cup Starting \cup Sending \cup {"parse", "dead"}
    /\ meminfo.avail \in Int /\ meminfo.swap \in Nat /\ meminfo.inUse \in Int
    /\ xs \in [mem : Nat \cup {None}, swap : Swap \cup {None}]
    /\ out.mem \in Nat \cup {None} /\ out.swap \in Swap \cup {None}

(* The size that meminfo was read under *)
TotalThen == meminfo.avail + meminfo.inUse - meminfo.swap

(* What the last read of current_kb gave is still true if the balloon has  *)
(* not moved, and cannot be if it has moved once.                          *)
LastRead(b) ==
    /\ b \in Sizes
    /\ moves = 0 => current = b
    /\ moves = 1 => current # b

(* Where update() is: which buffer was read last, and whether meminfo goes *)
(* with it.                                                                *)
Readings ==
    /\ pc \in {"meminfo", "current2"} => LastRead(buf)
    /\ pc \in {"again", "current"} => LastRead(buf2)
    /\ pc = "current2" /\ moves = 0 => TotalThen = buf
    /\ pc = "current" /\ moves = 0 => TotalThen = buf2
    /\ pc \in {"current2", "again", "current", "parse"} \cup Sending =>
           meminfo.swap \in Swap
    /\ pc \in {"parse"} \cup Sending =>
           buf \in Sizes /\ (torn = 2 \/ TotalThen = buf)

(* XenStore has what prev_used_mem says, or is about to. *)
Reported ==
    /\ pc \notin {"send", "dead"} /\ prev_used_mem # 0 => xs.mem = prev_used_mem
    /\ pc = "send" /\ prev_used_mem # 0 =>
           out.mem = prev_used_mem \/ (out.mem = None /\ xs.mem = prev_used_mem)

Close(prev) ==
    used_mem >= 0 =>
        /\ Abs(used_mem - prev) <= Threshold
        /\ Pressed(used_mem, prev, buf) => used_mem - prev <= Threshold \div 2

(* The result of parse(): close to what was sent before, or sent now. *)
Results ==
    /\ pc \in Sending => Close(prev_used_mem)
    /\ pc = "send" /\ used_mem >= 0 =>
           out.mem = prev_used_mem \/ (out.mem = None /\ xs.mem = prev_used_mem)
    /\ pc \in {"send_swap", "sleep"} /\ used_mem >= 0 => xs.mem = prev_used_mem
    /\ pc \in {"send", "send_swap"} => out.swap = meminfo.swap
    /\ pc = "sleep" => xs.swap = meminfo.swap

MeminfoInv == Types /\ Readings /\ Reported /\ Results

(* What moves on without reading, parsing or sending *)
Starts == BlockUsr1 \/ InstallHandler \/ TestReceived \/ Suspend \/ usr1_handler
Reads == FirstCurrent \/ Meminfo \/ Current2 \/ MeminfoAgain \/ Current

(***************************************************************************)
(* Arithmetic of parse()                                                   *)
(***************************************************************************)

(* A use that is sent is close to itself. *)
LEMMA SentIsClose ==
    ASSUME NEW u \in Nat, NEW total \in Nat
    PROVE  /\ Abs(u - u) <= Threshold
           /\ ~Pressed(u, u, total)
  BY MeminfoAssumption DEF Abs, Pressed

(* Half the threshold is a number. *)
LEMMA HalfThreshold == Threshold \div 2 \in Nat
  BY MeminfoAssumption

(***************************************************************************)
(* Initial states, and steps outside of update()                           *)
(***************************************************************************)

LEMMA InitInv == Init => MeminfoInv
<1> SUFFICES ASSUME Init PROVE MeminfoInv
  OBVIOUS
<1>1. TypeOK
  <2>1. sig \in [blocked : BOOLEAN, handled : BOOLEAN, pending : BOOLEAN]
    BY Zenon DEF Init
  <2>2. received \in BOOLEAN
    BY Zenon DEF Init
  <2> QED
    BY <2>1, <2>2, MeminfoAssumption DEF Init, NoLocals, TypeOK, None
<1>2. Types
  BY <1>1, MeminfoAssumption DEF Init, NoLocals, Types, Reading, Starting
<1>3. Readings /\ Reported /\ Results
  BY MeminfoAssumption DEF Init, Readings, Reported, Results, Sending
<1> QED
  BY <1>2, <1>3 DEF MeminfoInv

(* The balloon and the programs change nothing that was read. *)
LEMMA KernelKeepsInv == MeminfoInv /\ (Balloon \/ Programs) => MeminfoInv'
<1> SUFFICES ASSUME MeminfoInv, Balloon \/ Programs PROVE MeminfoInv'
  OBVIOUS
<1> USE DEF MeminfoInv, startVars, readVars, reportVars
<1>1. Types'
  BY MeminfoAssumption DEF Balloon, Programs, Types, TypeOK
<1>2. Readings'
  BY MeminfoAssumption DEF Balloon, Programs, Types, TypeOK, Readings, LastRead, TotalThen
<1>3. Reported' /\ Results'
  BY DEF Balloon, Programs, Reported, Results, Close, used_mem
<1> QED
  BY <1>1, <1>2, <1>3

(* The start of the daemon, its parent, the signal, and the failures touch *)
(* neither the buffers nor the report.                                     *)
LEMMA StartKeepsInv ==
    MeminfoInv /\ (Starts \/ WritePidfile \/ SendUsr1 \/ ReadFails \/ Dead) => MeminfoInv'
<1> SUFFICES ASSUME MeminfoInv, Starts \/ WritePidfile \/ SendUsr1 \/ ReadFails \/ Dead
             PROVE  MeminfoInv'
  OBVIOUS
<1> DEFINE keep == UNCHANGED <<kernelVars, readVars, reportVars>>
<1>1. keep
  BY DEF Starts, BlockUsr1, InstallHandler, TestReceived, Suspend, usr1_handler,
         WritePidfile, SendUsr1, ReadFails, Dead, vars, kernelVars, readVars, reportVars
<1>2. \/ pc' = pc
      \/ pc' = "dead"
      \/ pc \in Starting /\ pc' \in Starting \cup {"read"}
  BY DEF Starts, BlockUsr1, InstallHandler, TestReceived, Suspend, usr1_handler,
         WritePidfile, SendUsr1, ReadFails, Dead, vars, Goto, Starting
<1>3. /\ sig' \in [blocked : BOOLEAN, handled : BOOLEAN, pending : BOOLEAN]
      /\ received' \in BOOLEAN
      /\ sent' \in 0..MaxSignals
  <2> USE MeminfoAssumption DEF MeminfoInv, Types, TypeOK, vars, startVars
  <2>1. CASE BlockUsr1 \/ InstallHandler
    BY <2>1 DEF BlockUsr1, InstallHandler
  <2>2. CASE TestReceived
    BY <2>2 DEF TestReceived
  <2>3. CASE Suspend \/ usr1_handler
    BY <2>3 DEF Suspend, usr1_handler
  <2>4. CASE WritePidfile \/ ReadFails \/ Dead
    BY <2>4 DEF WritePidfile, ReadFails, Dead
  <2>5. CASE SendUsr1
    <3>1. \/ sig' = [sig EXCEPT !.pending = TRUE] /\ received' = received
          \/ sig' = sig /\ received' \in {received, TRUE}
      BY <2>5, Zenon DEF SendUsr1
    <3>2. sent' \in 0..MaxSignals
      BY <2>5 DEF SendUsr1
    <3> QED
      BY <3>1, <3>2
  <2> QED
    BY <2>1, <2>2, <2>3, <2>4, <2>5 DEF Starts
<1> USE DEF MeminfoInv, kernelVars, readVars, reportVars, Reading, Starting, Sending
<1>4. Types'
  BY <1>1, <1>2, <1>3 DEF Types, TypeOK
<1>5. Readings'
  BY <1>1, <1>2 DEF Readings, LastRead, TotalThen
<1>6. Reported' /\ Results'
  BY <1>1, <1>2 DEF Reported, Results, Close, used_mem
<1> QED
  BY <1>4, <1>5, <1>6

(***************************************************************************)
(* update()                                                                *)
(***************************************************************************)

(* A read gives what is true at this moment; a pair of readings of         *)
(* current_kb is accepted when they are equal.                             *)
LEMMA ReadsKeepInv == MeminfoInv /\ Reads => MeminfoInv'
<1> SUFFICES ASSUME MeminfoInv, Reads PROVE MeminfoInv'
  OBVIOUS
<1> USE DEF MeminfoInv, Reads, kernelVars, startVars, reportVars, Goto
<1>1. Types'
  BY MeminfoAssumption
  DEF Types, TypeOK, Reading, FirstCurrent, Meminfo, Current2, MeminfoAgain, Current,
      ReadCurrent, ReadMeminfo, Accept
<1>2. Readings'
  <2> USE MeminfoAssumption DEF Types, TypeOK, Readings, LastRead, Sending
  <2>1. CASE FirstCurrent
    BY <2>1 DEF FirstCurrent, ReadCurrent
  <2>2. CASE Meminfo
    BY <2>2 DEF Meminfo, ReadMeminfo, TotalThen
  <2>3. CASE Current2
    BY <2>3 DEF Current2, ReadCurrent, Accept, TotalThen
  <2>4. CASE MeminfoAgain
    BY <2>4 DEF MeminfoAgain, ReadMeminfo, TotalThen
  <2>5. CASE Current
    BY <2>5 DEF Current, ReadCurrent, Accept, TotalThen
  <2> QED
    BY <2>1, <2>2, <2>3, <2>4, <2>5
<1>3. Reported' /\ Results'
  BY DEF Reported, Results, Sending, FirstCurrent, Meminfo, Current2, MeminfoAgain,
         Current, Accept
<1> QED
  BY <1>1, <1>2, <1>3

(* parse() *)
LEMMA ParseKeepsInv == MeminfoInv /\ Parse => MeminfoInv'
<1> SUFFICES ASSUME MeminfoInv, Parse PROVE MeminfoInv'
  OBVIOUS
<1>1. /\ pc = "parse" /\ pc' = "send"
      /\ UNCHANGED <<kernelVars, startVars, readVars, prev_used_swap, xs>>
  BY DEF Parse, Goto
<1>2. /\ used_mem \in Int /\ used_mem' = used_mem
      /\ used_swap \in Swap /\ prev_used_swap = 0
      /\ buf \in Sizes /\ buf \in Nat /\ prev_used_mem \in Nat
  BY <1>1, MeminfoAssumption
  DEF MeminfoInv, Types, TypeOK, Readings, readVars, used_mem, used_swap, None
<1>3. /\ out'.swap = used_swap
      /\ mem_changed => out'.mem = used_mem /\ prev_used_mem' = used_mem
      /\ ~mem_changed => out'.mem = None /\ prev_used_mem' = prev_used_mem
  BY <1>2 DEF Parse, swap_changed
<1>4. mem_changed => used_mem \in Nat
  BY <1>2 DEF mem_changed
<1>5. ~mem_changed /\ used_mem >= 0 =>
        /\ prev_used_mem # 0
        /\ Abs(used_mem - prev_used_mem) <= Threshold
        /\ Pressed(used_mem, prev_used_mem, buf) => used_mem - prev_used_mem <= Threshold \div 2
  BY <1>2, HalfThreshold, MeminfoAssumption DEF mem_changed, Abs
<1>6. Types'
  BY <1>1, <1>2, <1>3, <1>4
  DEF MeminfoInv, Types, TypeOK, kernelVars, startVars, readVars, Sending, Parse
<1>7. Readings'
  BY <1>1 DEF MeminfoInv, Readings, readVars, TotalThen, Sending
<1>8. Reported'
  BY <1>1, <1>2, <1>3, <1>4 DEF MeminfoInv, Reported
<1>9. Close(prev_used_mem)'
  <2>1. CASE mem_changed
    BY <2>1, <1>1, <1>2, <1>3, <1>4, SentIsClose DEF Close, readVars
  <2>2. CASE ~mem_changed
    BY <2>2, <1>1, <1>2, <1>3, <1>5 DEF Close, readVars
  <2> QED
    BY <2>1, <2>2
<1>10. Results'
  BY <1>1, <1>2, <1>3, <1>5, <1>9 DEF MeminfoInv, Reported, Results, readVars, used_swap
<1> QED
  BY <1>6, <1>7, <1>8, <1>10 DEF MeminfoInv

(* The writes to XenStore *)
LEMMA SendKeepsInv == MeminfoInv /\ (SendMem \/ SendSwap) => MeminfoInv'
<1> SUFFICES ASSUME MeminfoInv, SendMem \/ SendSwap PROVE MeminfoInv'
  OBVIOUS
<1> USE DEF MeminfoInv, kernelVars, startVars, readVars, Goto, Sending
<1>1. Types'
  BY DEF Types, TypeOK, SendMem, SendSwap
<1>2. Readings'
  BY DEF Readings, TotalThen, SendMem, SendSwap
<1>3. Reported' /\ Results'
  <2>1. used_mem' = used_mem /\ (Close(prev_used_mem))' = Close(prev_used_mem)
    BY DEF SendMem, SendSwap, used_mem, Close
  <2>2. CASE SendMem
    BY <2>1, <2>2, MeminfoAssumption DEF SendMem, Types, TypeOK, Reported, Results, None
  <2>3. CASE SendSwap
    BY <2>1, <2>3, MeminfoAssumption DEF SendSwap, Types, TypeOK, Readings, Reported, Results, None
  <2> QED
    BY <2>2, <2>3
<1> QED
  BY <1>1, <1>2, <1>3

(* update() returns *)
LEMMA SleepKeepsInv == MeminfoInv /\ Sleep => MeminfoInv'
  BY DEF MeminfoInv, Sleep, NoLocals, Types, TypeOK, Readings, Reported, Results,
         kernelVars, startVars, Goto, Reading, Sending, None

(***************************************************************************)
(* The theorems                                                            *)
(***************************************************************************)

LEMMA StepKeepsInv == MeminfoInv /\ [Next]_vars => MeminfoInv'
<1> SUFFICES ASSUME MeminfoInv, [Next]_vars PROVE MeminfoInv'
  OBVIOUS
<1>1. CASE Next
  BY <1>1, KernelKeepsInv, StartKeepsInv, ReadsKeepInv, ParseKeepsInv, SendKeepsInv,
     SleepKeepsInv
  DEF Next, Daemon, Starts, Reads
<1>2. CASE UNCHANGED vars
  BY <1>2 DEF vars, kernelVars, startVars, readVars, reportVars, MeminfoInv, Types, TypeOK,
              Readings, LastRead, TotalThen, Reported, Results, Close, used_mem
<1> QED
  BY <1>1, <1>2

(* The invariant holds of every behaviour of the daemon                    *)
(* (meminfo-writer.c:26-261).                                              *)
THEOREM MeminfoInvariant == Spec => []MeminfoInv
  BY InitInv, StepKeepsInv, PTL DEF Spec

(* Every variable of meminfo-writer keeps its type; in particular no       *)
(* negative estimate is ever kept or sent (meminfo-writer.c:82).           *)
THEOREM Meminfo_Types == Spec => []TypeOK
<1>1. MeminfoInv => TypeOK
  BY DEF MeminfoInv, Types
<1> QED
  BY <1>1, MeminfoInvariant, PTL

(* For all sizes and uses: the stability loop accepts a reading that is    *)
(* not what was in use only if the balloon moved at least twice between    *)
(* two reads of current_kb (meminfo-writer.c:155-168).                     *)
THEOREM Meminfo_Stable == Spec => []StableReading
<1>1. MeminfoInv => StableReading
  BY MeminfoAssumption
  DEF MeminfoInv, Types, TypeOK, Readings, TotalThen, StableReading, used_mem, None
<1> QED
  BY <1>1, MeminfoInvariant, PTL

(* For every threshold: after an update XenStore is as close to the        *)
(* measured use as the thresholds promise (meminfo-writer.c:82-104).       *)
THEOREM Meminfo_Close == Spec => []ReportIsClose
<1>1. MeminfoInv => ReportIsClose
  BY MeminfoAssumption
  DEF MeminfoInv, Types, TypeOK, Readings, Results, Close, ReportIsClose, Sending, used_swap, Abs
<1> QED
  BY <1>1, MeminfoInvariant, PTL
=============================================================================
