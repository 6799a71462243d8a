------------------------------ MODULE FileCopy ------------------------------
(***************************************************************************)
(* A file copy between two qubes: the packer and the unpacker joined by    *)
(* two bounded pipes, with faults.  Each step is a step of one program, or *)
(* a fault.                                                                *)
(***************************************************************************)
EXTENDS QfilePack, QfileUnpack, Functions

vars == <<wireVars, packVars, unpackVars>>

Init ==
    /\ fwd = <<>>
    /\ rev = <<>>
    /\ faults = 0
    /\ PackInit
    /\ UnpackInit

Pack   == PackStep /\ UNCHANGED unpackVars
Unpack == UnpackStep /\ UNCHANGED packVars

PackFault   == (LocalError \/ KillPacker) /\ UNCHANGED unpackVars
UnpackFault == /\ \/ ReadHeaderError
                  \/ ReadError
                  \/ SpaceUnknown
                  \/ LinkFails
                  \/ FileSystemError
                  \/ KillUnpacker
                  \/ DiskFills
                  \/ DiskFrees
               /\ UNCHANGED packVars
WireFault   == /\ \E i \in 1..Len(fwd) : Garble(i)
               /\ UNCHANGED <<packVars, unpackVars>>

(* Both programs have ended. *)
Done == spc = "exit" /\ rpc = "exit" /\ UNCHANGED vars

Next == Pack \/ Unpack \/ PackFault \/ UnpackFault \/ WireFault \/ Done

Spec == Init /\ [][Next]_vars

(* A program that can take a step is scheduled eventually.  Nothing makes  *)
(* room on the disk and no fault has to happen.                            *)
Fairness == WF_vars(Pack) /\ WF_vars(Unpack)

FairSpec == Spec /\ Fairness

-----------------------------------------------------------------------------

(* Every variable has its type: pipes hold stream items and replies within *)
(* their capacities, the tree is a tree of nodes.                          *)
TypeOK ==
    /\ fwd \in Seq(Items) /\ Len(fwd) <= FwdCap
    /\ rev \in Seq(Replies) /\ Len(rev) <= RevCap
    /\ faults \in 0..MaxFaults
    /\ PackTypeOK
    /\ UnpackTypeOK

(* What do_fs_walk() has to deliver. *)
ToCopy == {p \in DOMAIN SrcTree : ~(SrcTree[p].kind = "link" /\ IgnoreSymlinks)}

(* The packer exits 0 on a result of 0 (pack.c wait_for_result) only when  *)
(* every entry of the source is in the receiving directory with its data,  *)
(* target and final permissions, whatever was garbled, killed or full.     *)
SuccessIsComplete ==
    sExit = 0 /\ sRes.code = 0 => \A p \in ToCopy : dst[p] = SrcTree[p]

-----------------------------------------------------------------------------
(* The copy as its caller sees it: an entry has arrived when it is in its  *)
(* final form, and the verdict is the sender's exit status (pack.c,        *)
(* wait_for_result).                                                       *)
Arrived == {p \in ToCopy : dst[p] = SrcTree[p]}

Verdict ==
    IF sExit = -1 THEN "none"
    ELSE IF sExit = 1 THEN "failure"
    ELSE IF sRes.code = 0 THEN "success" ELSE "cut"

Service == INSTANCE CopyService WITH
    Goods <- ToCopy, arrived <- Arrived, verdict <- Verdict

(* Every behaviour of the two programs, with whatever faults, is one of    *)
(* the copy service: entries arrive one at a time and are never taken back *)
(* or changed, one verdict is given, a success only with everything in     *)
(* place, and the receiver (unpack.c do_unpack_ext) touches nothing after. *)
ImplementsService == Service!Spec

-----------------------------------------------------------------------------
(* The protocol part of SuccessIsComplete: success means that the unpacker *)
(* saw the end marker, reported no error and consumed exactly what was     *)
(* sent (unpack.c do_unpack_ext, pack.c:132).                              *)
SuccessIsAgreed ==
    sExit = 0 /\ sRes.code = 0 => marker /\ rCode = 0 /\ crcR = crcS

(* unpack.c:205 "make the file inaccessible until fully written": a file   *)
(* that can be opened has all the data its header announced.               *)
NoPartialFile ==
    \A p \in Paths : dst[p].kind = "reg" /\ dst[p].perm # "none" =>
        Len(dst[p].content) = dst[p].size

(* Nothing that exists is replaced: an object keeps its kind, a file or a  *)
(* link keeps its content, except the file that is being written           *)
(* (O_EXCL, linkat, mkdirat, symlinkat in unpack.c).                       *)
NothingReplaced ==
    [][\A p \in Paths : Exists(dst, p) =>
          /\ dst'[p].kind = dst[p].kind
          /\ dst'[p].target = dst[p].target
          /\ dst'[p].content # dst[p].content =>
                rpc = "data" /\ p = name /\ dst[p].perm = "none"]_vars

(* The two programs agree about where items end: the unpacker loses its    *)
(* place in the stream only after it has read a header that was garbled,   *)
(* whatever else is garbled and wherever an entry fails (pack.c            *)
(* single_file_processor and copy_file, unpack.c process_one_file).        *)
InSync ==
    slip # 0 => \E i \in 1..Len(crcR) : crcR[i].t = "hdr" /\ crcR[i] # crcS[i]

(* The reason for a failure reaches the packer.  It ends on EOF or without *)
(* a message only if the unpacker died without a status, or if it went on  *)
(* after an ignored quota error (pack.c wait_for_result, unpack.c do_exit).*)
FailureIsExplained ==
    /\ report = "eof" =>
         ~replied \/ (IgnoreQuotaError /\ sRes.code = EDQUOT)
    /\ report = "refused" => IgnoreQuotaError /\ sRes.code = EDQUOT
    /\ report = "checksum" => \E i \in 1..Len(crcS) : i > Len(crcR) \/ crcR[i] # crcS[i]

(* Files and links this transfer has put into the receiving directory, and *)
(* the data they take.                                                     *)
New == {p \in Paths : /\ dst[p].kind \in {"reg", "link"}
                      /\ \A t \in InitDsts : ~Exists(t, p)}

Stored == [p \in Paths |-> IF dst[p].kind = "reg" THEN Len(dst[p].content)
                           ELSE dst[p].size]

(* set_size_limit(): the data written to disk and the number of objects    *)
(* created never pass the limits, in spite of directories being counted    *)
(* only after the fact (unpack.c:223-231, 282, 304, 379).                  *)
LimitsHold ==
    /\ bytes_limit # 0 => SumFunctionOnSet(Stored, New) <= bytes_limit
    /\ files_limit # 0 => Cardinality(New) <= files_limit

(* The unpacker waits for bytes that a garbled header has announced, the   *)
(* packer has sent all it has and waits for the result.                    *)
Starved ==
    /\ Reading /\ rIn /\ fwd = <<>>
    /\ spc = "wait" /\ sBlock /\ rev = <<>>
    /\ \E i \in 1..Len(crcR) : crcR[i].t = "hdr" /\ crcR[i] # crcS[i]

(* Both programs end, unless the unpacker waits for space that never       *)
(* comes (unpack.c:85 "TODO: timeout?"), or a garbled header makes each    *)
(* wait for the other (no read of unpack.c or pack.c has a timeout).       *)
Terminates ==
    \/ <>(spc = "exit" /\ rpc = "exit")
    \/ <>[](rpc = "space" /\ full)
    \/ <>[]Starved

-----------------------------------------------------------------------------
(* The inductive strengthening of SuccessIsAgreed. *)

(* The unpacker has sent its verdict, which is 0 only after the marker, and *)
(* is past the point where the verdict or its checksum could change.       *)
VerdictGiven == rpc \in {"ext", "exit"} /\ (rCode = 0 => marker)

TheResult == Result(rCode, crcR)

(* A code of 0 that is about to be sent stands for a complete stream.      *)
CodeIsHonest == rpc \in {"sync", "result", "ext"} /\ rCode = 0 => marker

(* What the reply pipe can hold while the packer may still read it: at     *)
(* most one result, which is the verdict, and its extension.               *)
ReplyIsVerdict ==
    /\ spc \notin {"ext", "exit"} =>
         \/ rev = <<>> /\ rpc # "ext"
         \/ rev = <<TheResult>> /\ VerdictGiven
         \/ rev = <<TheResult, Ext>> /\ VerdictGiven /\ rpc = "exit"
    /\ spc = "ext" =>
         /\ sRes = TheResult /\ VerdictGiven
         /\ rev = <<>> \/ (rev = <<Ext>> /\ rpc = "exit")

(* The packer polls only while it still walks. *)
LastWaitBlocks == cont = "exit0" => sBlock

SuccessIsVerdict ==
    sExit = 0 => /\ spc = "exit"
                 /\ sRes.code = 0 =>
                      VerdictGiven /\ sRes = TheResult /\ crcR = crcS

AgreementInv ==
    /\ CodeIsHonest
    /\ ReplyIsVerdict
    /\ LastWaitBlocks
    /\ SuccessIsVerdict
=============================================================================
