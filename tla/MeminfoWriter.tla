--------------------------- MODULE MeminfoWriter ---------------------------
(***************************************************************************)
(* qmemman/meminfo-writer.c: a daemon that reports the memory in use to    *)
(* qmemman through XenStore, while the balloon driver changes the size of  *)
(* the qube and programs use more or less memory.                          *)
(*                                                                         *)
(* Without a pidfile it works at once; with one it forks, the parent       *)
(* writes the pidfile, and the child works only after a SIGUSR1.           *)
(***************************************************************************)
EXTENDS Integers

CONSTANTS
    Sizes,       \* values of current_kb, in kB
    Usage,       \* memory in use, without swap
    Swap,        \* swap in use
    Threshold,   \* used_mem_change_threshold, and the one for swap
    MaxSignals   \* bound on the signals sent

ASSUME MeminfoAssumption ==
    /\ Sizes \subseteq Nat \ {0} /\ Sizes # {}
    /\ Usage \subseteq Nat /\ Usage # {}
    /\ Swap \subseteq Nat /\ Swap # {}
    /\ Threshold \in Nat \ {0}
    /\ MaxSignals \in Nat

VARIABLES
    current, usage, swap,   \* the kernel's state
    moves,       \* history: changes of current since it was last read, up to 2
    pc, parent,  \* the program, and the parent after fork()
    sig,         \* SIGUSR1 of the child: [blocked, handled, pending]
    received,    \* usr1_received
    sent,        \* signals sent
    buf, buf2,   \* dom_current_buf and dom_current_buf2
    meminfo,     \* meminfo_buf: [avail, swap], and what was in use at that time
    torn,        \* history: moves when the reading was accepted
    prev_used_mem, prev_used_swap,
    out,         \* result of parse(): [mem, swap], None for NULL
    xs           \* memory/meminfo and memory/swapinfo in XenStore

kernelVars == <<current, usage, swap, moves>>
startVars == <<parent, sig, received, sent>>
readVars == <<buf, buf2, meminfo, torn>>
reportVars == <<prev_used_mem, prev_used_swap, out, xs>>
vars == <<kernelVars, pc, startVars, readVars, reportVars>>

None == -1

(* Before and after update() *)
NoLocals(b, b2, m, t, o) ==
    /\ b = None /\ b2 = None
    /\ m = [avail |-> 0, swap |-> 0, inUse |-> 0]
    /\ t = 0
    /\ o = [mem |-> None, swap |-> None]

(* argc: 4 with a pidfile, 3 without *)
Init ==
    /\ current \in Sizes /\ usage \in Usage /\ swap \in Swap /\ usage <= current
    /\ moves = 0
    /\ \/ pc = "child" /\ parent = "pidfile"
       \/ pc = "read" /\ parent = "none"
    /\ sig = [blocked |-> FALSE, handled |-> FALSE, pending |-> FALSE]
    /\ received = FALSE
    /\ sent = 0
    /\ NoLocals(buf, buf2, meminfo, torn, out)
    /\ prev_used_mem = 0 /\ prev_used_swap = 0
    /\ xs = [mem |-> None, swap |-> None]

Goto(next) == pc' = next

-----------------------------------------------------------------------------
(* The kernel: the balloon takes or gives memory that is not in use. *)

Balloon ==
    /\ \E c \in Sizes \ {current} : c >= usage /\ current' = c
    /\ moves' = IF moves = 2 THEN 2 ELSE moves + 1
    /\ UNCHANGED <<usage, swap, pc, startVars, readVars, reportVars>>

Programs ==
    /\ \/ \E u \in Usage \ {usage} : u <= current /\ usage' = u /\ UNCHANGED swap
       \/ \E s \in Swap \ {swap} : swap' = s /\ UNCHANGED usage
    /\ UNCHANGED <<current, moves, pc, startVars, readVars, reportVars>>

-----------------------------------------------------------------------------
(* Starting with a pidfile *)

(* The parent writes the pidfile and exits, or kills the child. *)
WritePidfile ==
    /\ parent = "pidfile"
    /\ \/ parent' = "exited" /\ UNCHANGED pc
       \/ parent' = "failed" /\ Goto("dead")
    /\ UNCHANGED <<kernelVars, sig, received, sent, readVars, reportVars>>

(* Whoever has read the pidfile sends SIGUSR1, which kills a process that  *)
(* has no handler for it.                                                  *)
SendUsr1 ==
    /\ parent = "exited"
    /\ pc # "dead"
    /\ sent < MaxSignals
    /\ sent' = sent + 1
    /\ IF sig.blocked \/ pc = "suspended"
       THEN sig' = [sig EXCEPT !.pending = TRUE] /\ UNCHANGED <<pc, received>>
       ELSE IF sig.handled
       THEN received' = TRUE /\ UNCHANGED <<pc, sig>>
       ELSE Goto("dead") /\ UNCHANGED <<sig, received>>
    /\ UNCHANGED <<kernelVars, parent, readVars, reportVars>>

(* Mutant: the signal is not blocked around the test of the flag. *)
BlockUsr1_Not ==
    /\ pc = "child"
    /\ received' = FALSE
    /\ Goto("handler")
    /\ UNCHANGED <<kernelVars, parent, sig, sent, readVars, reportVars>>

BlockUsr1 ==
    /\ pc = "child"
    /\ sig' = [sig EXCEPT !.blocked = TRUE]
    /\ received' = FALSE
    /\ Goto("handler")
    /\ UNCHANGED <<kernelVars, parent, sent, readVars, reportVars>>

InstallHandler ==
    /\ pc = "handler"
    /\ sig' = [sig EXCEPT !.handled = TRUE]
    /\ Goto("test")
    /\ UNCHANGED <<kernelVars, parent, received, sent, readVars, reportVars>>

(* The test of the while loop; SIGUSR1 is unblocked when it is over. *)
TestReceived ==
    /\ pc = "test"
    /\ IF received
       THEN Goto("read") /\ sig' = [sig EXCEPT !.blocked = FALSE, !.pending = FALSE]
       ELSE Goto("suspend") /\ UNCHANGED sig
    /\ UNCHANGED <<kernelVars, parent, received, sent, readVars, reportVars>>

(* sigsuspend() with the old mask, in which SIGUSR1 is not blocked: it     *)
(* returns after the handler has run, for a signal that is pending or for  *)
(* one that comes, and blocks the signal again.                            *)
Suspend ==
    /\ pc = "suspend"
    /\ Goto("suspended")
    /\ UNCHANGED <<kernelVars, startVars, readVars, reportVars>>

usr1_handler ==
    /\ pc = "suspended"
    /\ sig.pending
    /\ received' = TRUE
    /\ sig' = [sig EXCEPT !.pending = FALSE]
    /\ Goto("test")
    /\ UNCHANGED <<kernelVars, parent, sent, readVars, reportVars>>

-----------------------------------------------------------------------------
(* update() *)

(* pread0_string() of current_kb and of meminfo *)
ReadCurrent == moves' = 0 /\ UNCHANGED <<current, usage, swap>>
ReadMeminfo ==
    /\ meminfo' = [avail |-> current - usage, swap |-> swap, inUse |-> usage + swap]
    /\ UNCHANGED kernelVars

FirstCurrent ==
    /\ pc = "read"
    /\ ReadCurrent
    /\ buf' = current
    /\ Goto("meminfo")
    /\ UNCHANGED <<startVars, buf2, meminfo, torn, reportVars>>

Meminfo ==
    /\ pc = "meminfo"
    /\ ReadMeminfo
    /\ Goto("current2")
    /\ UNCHANGED <<startVars, buf, buf2, torn, reportVars>>

Accept(equal, next) ==
    IF equal THEN Goto("parse") /\ torn' = moves ELSE Goto(next) /\ UNCHANGED torn

Current2 ==
    /\ pc = "current2"
    /\ ReadCurrent
    /\ buf2' = current
    /\ Accept(buf2' = buf, "again")
    /\ UNCHANGED <<startVars, buf, meminfo, reportVars>>

(* Mutant: current_kb is read again and meminfo is not. *)
MeminfoAgain_Not ==
    /\ pc = "again"
    /\ Goto("current")
    /\ UNCHANGED <<kernelVars, startVars, readVars, reportVars>>

MeminfoAgain ==
    /\ pc = "again"
    /\ ReadMeminfo
    /\ Goto("current")
    /\ UNCHANGED <<startVars, buf, buf2, torn, reportVars>>

Current ==
    /\ pc = "current"
    /\ ReadCurrent
    /\ buf' = current
    /\ Accept(buf2 = buf', "meminfo")
    /\ UNCHANGED <<startVars, buf2, meminfo, reportVars>>

-----------------------------------------------------------------------------
(* parse(): current_kb takes the place of MemTotal *)

used_mem == buf - meminfo.avail + meminfo.swap
used_swap == meminfo.swap

Abs(n) == IF n < 0 THEN -n ELSE n

(* Little memory is left: half the threshold counts. *)
Pressed(used, prev, total) == used > prev /\ used \div 10 > (total + 12) \div 13

(* Mutant: a negative number is reported too. *)
mem_changed_Signed ==
    \/ Abs(used_mem - prev_used_mem) > Threshold
    \/ prev_used_mem = 0
    \/ /\ Pressed(used_mem, prev_used_mem, buf)
       /\ Abs(used_mem - prev_used_mem) > Threshold \div 2

(* An estimate below zero is dropped. *)
mem_changed ==
    /\ used_mem >= 0
    /\ \/ Abs(used_mem - prev_used_mem) > Threshold
       \/ prev_used_mem = 0
       \/ /\ Pressed(used_mem, prev_used_mem, buf)
          /\ Abs(used_mem - prev_used_mem) > Threshold \div 2

swap_changed ==
    \/ Abs(used_swap - prev_used_swap) > Threshold
    \/ prev_used_swap = 0

(* Mutant: what was measured is kept, also when it is not sent. *)
Parse_Keeps ==
    /\ pc = "parse"
    /\ out' = [mem |-> IF mem_changed THEN used_mem ELSE None,
               swap |-> IF swap_changed THEN used_swap ELSE None]
    /\ prev_used_mem' = IF used_mem >= 0 THEN used_mem ELSE prev_used_mem
    /\ Goto("send")
    /\ UNCHANGED <<kernelVars, startVars, readVars, prev_used_swap, xs>>

(* prev_used_swap is never assigned. *)
Parse ==
    /\ pc = "parse"
    /\ out' = [mem |-> IF mem_changed THEN used_mem ELSE None,
               swap |-> IF swap_changed THEN used_swap ELSE None]
    /\ prev_used_mem' = IF mem_changed THEN used_mem ELSE prev_used_mem
    /\ Goto("send")
    /\ UNCHANGED <<kernelVars, startVars, readVars, prev_used_swap, xs>>

(* send_to_qmemman(): two writes, each of which may fail and end it *)
SendMem ==
    /\ pc = "send"
    /\ \/ xs' = [xs EXCEPT !.mem = IF out.mem # None THEN out.mem ELSE @]
          /\ Goto("send_swap")
       \/ out.mem # None /\ Goto("dead") /\ UNCHANGED xs
    /\ UNCHANGED <<kernelVars, startVars, readVars, prev_used_mem, prev_used_swap, out>>

SendSwap ==
    /\ pc = "send_swap"
    /\ \/ xs' = [xs EXCEPT !.swap = IF out.swap # None THEN out.swap ELSE @]
          /\ Goto("sleep")
       \/ out.swap # None /\ Goto("dead") /\ UNCHANGED xs
    /\ UNCHANGED <<kernelVars, startVars, readVars, prev_used_mem, prev_used_swap, out>>

(* The locals of update() are gone.  usleep(), and fork() after the first  *)
(* update when there is no pidfile: the parent exits and the child goes on *)
(* with what it inherited.                                                 *)
Sleep ==
    /\ pc = "sleep"
    /\ Goto("read")
    /\ NoLocals(buf', buf2', meminfo', torn', out')
    /\ UNCHANGED <<kernelVars, startVars, prev_used_mem, prev_used_swap, xs>>

(* open(), xs_domain_open() or pread() fails. *)
ReadFails ==
    /\ pc \in {"read", "meminfo", "current2", "again", "current"}
    /\ Goto("dead")
    /\ UNCHANGED <<kernelVars, startVars, readVars, reportVars>>

Dead == pc = "dead" /\ UNCHANGED vars

Daemon ==
    \/ BlockUsr1 \/ InstallHandler \/ TestReceived \/ Suspend \/ usr1_handler
    \/ FirstCurrent \/ Meminfo \/ Current2 \/ MeminfoAgain \/ Current
    \/ Parse \/ SendMem \/ SendSwap \/ Sleep

Next == Daemon \/ ReadFails \/ WritePidfile \/ SendUsr1 \/ Balloon \/ Programs \/ Dead

(* The daemon and its parent are scheduled.  Nobody has to send a signal,  *)
(* and memory need not change.                                             *)
Spec == Init /\ [][Next]_vars /\ WF_vars(Daemon) /\ WF_vars(WritePidfile)

-----------------------------------------------------------------------------

(* Every variable has its type. *)
TypeOK ==
    /\ current \in Sizes /\ usage \in Usage /\ swap \in Swap /\ usage <= current
    /\ moves \in 0..2 /\ torn \in 0..2 /\ sent \in 0..MaxSignals
    /\ sig \in [blocked : BOOLEAN, handled : BOOLEAN, pending : BOOLEAN]
    /\ received \in BOOLEAN
    /\ buf \in Sizes \cup {None} /\ buf2 \in Sizes \cup {None}
    /\ prev_used_mem \in Nat /\ prev_used_swap = 0
    /\ xs.mem \in Nat \cup {None} /\ xs.swap \in Swap \cup {None}

(* meminfo-writer.c:155 "check until the dom current reading is stable to  *)
(* avoid races": what update() works with is what was in use when meminfo  *)
(* was read, unless the balloon left and came back to the same size        *)
(* between two readings of current_kb, which takes two changes.            *)
StableReading == pc = "parse" /\ used_mem # meminfo.inUse => torn = 2

(* After each update XenStore is as close to the measured use as the       *)
(* thresholds promise, in spite of the updates that wrote nothing: within  *)
(* Threshold, and within half of it for a rise when little memory is left  *)
(* (meminfo-writer.c:82-104).                                              *)
ReportIsClose ==
    pc = "sleep" =>
        /\ used_mem >= 0 =>
             /\ Abs(used_mem - xs.mem) <= Threshold
             /\ Pressed(used_mem, xs.mem, buf) => used_mem - xs.mem <= Threshold \div 2
        /\ Abs(used_swap - xs.swap) <= Threshold

(* A SIGUSR1 that does not find the child without a handler (between       *)
(* fork() and sigprocmask(), meminfo-writer.c:195-203) is never lost: the  *)
(* first report follows, unless the balloon never rests or the daemon      *)
(* fails to write.                                                         *)
SignalStartsWork ==
    \/ []<><<Balloon>>_vars
    \/ (sent > 0 ~> (xs.swap # None \/ pc = "dead"))
=============================================================================
