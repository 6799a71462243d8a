--------------------------- MODULE FileCopyProofs ---------------------------
(***************************************************************************)
(* Proofs about FileCopy, for every source tree, receiving directory, pipe *)
(* size and set of limits, and whatever was garbled, killed or full on the *)
(* way.                                                                    *)
(*                                                                         *)
(* The first part is about the verdict: a packer that exits 0 agrees with  *)
(* the unpacker about every item of the stream.  The unpacker saw the end  *)
(* marker, had no error, and its checksum covers exactly what was sent.    *)
(*                                                                         *)
(* The second part is about the stream: a file that can be opened is       *)
(* complete, nothing that exists is replaced, and reads end where writes   *)
(* did until a garbled header was read.  crcS, all that was sent, splits   *)
(* into entries (StreamInv: a tag for each item says which item of which   *)
(* entry it is).  The packer is at its end.  As long as every header that  *)
(* was read is the one that was sent (Steady), the unpacker is somewhere   *)
(* in it, at Len(crcR), at the place in an entry that its program counter  *)
(* implies (ReaderAt), and the pipe holds what is between them, each item  *)
(* garbled perhaps but as long as it was (PipeInv).  After that nothing is *)
(* known of what it reads, and what it does with it must be safe without.  *)
(*                                                                         *)
(* The third part is about completeness: a copy that is reported as a      *)
(* success has every entry in its place, and the two programs implement    *)
(* the copy service.  The argument has two halves that meet in the         *)
(* checksum.  The packer: an entry of the source is still to be walked,    *)
(* being sent, or in crcS, a directory twice (WalkInv).  The unpacker: as  *)
(* long as crcR is a prefix of crcS, what it works on is the entry itself  *)
(* (CleanEntry, CleanInv), and each entry of crcR that it is not working   *)
(* on is in its place (StoredInv).  Success means crcR = crcS, so all is   *)
(* sent, received and in its place.                                        *)
(*                                                                         *)
(* The fourth part is about the limits: what a transfer stores is at most  *)
(* what it has counted, and was compared with the limits before it was     *)
(* stored (LimitInv).  It needs that sums over finite sets can be taken in *)
(* any order.                                                              *)
(***************************************************************************)
EXTENDS FileCopy, SequenceTheorems, FiniteSetTheorems, WellFoundedInduction, TLAPS

(***************************************************************************)
(* The codes that do_exit() is given are never 0                           *)
(***************************************************************************)

(* None of the errors of the name checks vanishes when it is sent.         *)
LEMMA ErrorCodes ==
    ASSUME NEW tree, NEW p, NEW flags
    PROVE  /\ RegError(tree, p, flags) \in {0, 2, 20, 84}
           /\ DirError(tree, p, flags) \in {0, 2, 20, -84}
           /\ CreateError(tree, p) \in {0, 17}
<1> DEFINE rc == ValidateFileName(p, flags)
           od == OpendirSafe(tree, p)
<1>1. rc = 0 \/ rc = -84
  BY DEF ValidateFileName, EILSEQ
<1>2. od = 0 \/ od = 2 \/ od = 20
  BY DEF OpendirSafe, ENOENT, ENOTDIR
<1>3. /\ RegError(tree, p, flags) = IF rc # 0 THEN -rc ELSE od
      /\ DirError(tree, p, flags) = IF rc # 0 THEN rc
                                    ELSE IF od # 0 THEN od
                                    ELSE IF tree[p].kind \in {"none", "dir"} THEN 0 ELSE 20
  BY Zenon DEF RegError, DirError, ENOTDIR
<1> HIDE DEF rc, od
<1>4. RegError(tree, p, flags) \in {0, 2, 20, 84}
  BY <1>1, <1>2, <1>3
<1>5. DirError(tree, p, flags) \in {0, 2, 20, -84}
  BY <1>1, <1>2, <1>3
<1>6. CreateError(tree, p) \in {0, 17}
  BY DEF CreateError, EEXIST
<1> QED
  BY <1>4, <1>5, <1>6

(* The same for the checks of a link and of its target (unicode.c:270).    *)
LEMMA LinkErrorCodes ==
    ASSUME NEW tree, NEW p, NEW target, NEW flags
    PROVE  LinkError(tree, p, target, flags) \in {0, 2, 17, 20, 67, 84}
<1> DEFINE rc == ValidateSymbolicLink(p, target, flags)
           od == OpendirSafe(tree, p)
           ce == CreateError(tree, p)
<1>1. rc \in {0, -67, -84}
  BY DEF ValidateSymbolicLink, EILSEQ, ENOLINK
<1>2. od = 0 \/ od = 2 \/ od = 20
  BY DEF OpendirSafe, ENOENT, ENOTDIR
<1>3. ce \in {0, 17}
  BY DEF CreateError, EEXIST
<1>4. LinkError(tree, p, target, flags) =
        IF rc # 0 THEN -rc ELSE IF od # 0 THEN od
        ELSE IF target = <<>> THEN 2 ELSE ce
  BY Zenon DEF LinkError, ENOENT
<1> HIDE DEF rc, od, ce
<1> QED
  BY <1>1, <1>2, <1>3, <1>4

(* A code that do_exit() is given never reads as 0 on the wire.            *)
LEMMA CodeOnWire ==
    ASSUME NEW code \in 1..122 \cup {-84}
    PROVE  U32(code) # 0
  BY SMT DEF U32, U32Modulus

(* The errors the unpacker itself ends with (unpack.c) survive the cast.   *)
LEMMA ErrnoOnWire ==
    /\ U32(EIO) # 0 /\ U32(EINVAL) # 0 /\ U32(ENOSPC) # 0
    /\ U32(ENAMETOOLONG) # 0 /\ U32(EDQUOT) # 0
    /\ U32(LEGAL_EOF) # 0
<1>1. U32(LEGAL_EOF) # 0
  BY SMT DEF U32, U32Modulus, LEGAL_EOF
<1> QED
  BY <1>1, SMT, CodeOnWire DEF EIO, EINVAL, ENOSPC, ENAMETOOLONG, EDQUOT

(* So do those of the name checks, negative or not (unpack.c:200, 264).    *)
LEMMA CheckOnWire ==
    ASSUME NEW tree, NEW p, NEW target, NEW flags
    PROVE  /\ RegError(tree, p, flags) # 0 => U32(RegError(tree, p, flags)) # 0
           /\ DirError(tree, p, flags) # 0 => U32(DirError(tree, p, flags)) # 0
           /\ CreateError(tree, p) # 0 => U32(CreateError(tree, p)) # 0
           /\ LinkError(tree, p, target, flags) # 0 =>
                U32(LinkError(tree, p, target, flags)) # 0
  BY SMT, ErrorCodes, LinkErrorCodes, CodeOnWire

(***************************************************************************)
(* Steps that leave the verdict alone                                      *)
(***************************************************************************)

(* Nothing that AgreementInv speaks of changes. *)
Aside == UNCHANGED <<rev, spc, rpc, marker, rCode, crcR, packVars>>

(* A step of an unpacker that has not begun to reply. *)
Unpacking ==
    /\ rpc \notin {"result", "ext", "exit"}
    /\ UNCHANGED <<rev, spc, packVars>>
    /\ rpc' # "ext"
    /\ rpc' \in {"sync", "result"} /\ rCode' = 0 => marker'

(* A step of a packer that is not reading a reply. *)
Packing ==
    /\ spc \notin {"wait", "ext", "exit"}
    /\ UNCHANGED <<rev, rpc, unpackVars>>
    /\ spc' # "ext" /\ spc' # "exit"
    /\ UNCHANGED sExit
    /\ cont' = "exit0" => sBlock'

(* A step that touches neither verdict nor pipes keeps the agreement.      *)
LEMMA AsideKeepsAgreement ==
    ASSUME AgreementInv, Aside
    PROVE  AgreementInv'
  BY DEF AgreementInv, Aside, packVars, CodeIsHonest, ReplyIsVerdict,
         LastWaitBlocks, SuccessIsVerdict, VerdictGiven, TheResult, Result, Ext

(* So does a step of the unpacker before its verdict (unpack.c:189-356).   *)
LEMMA UnpackingKeepsAgreement ==
    ASSUME AgreementInv, Unpacking
    PROVE  AgreementInv'
<1>1. CodeIsHonest'
  BY DEF Unpacking, CodeIsHonest
<1>2. ~VerdictGiven
  BY DEF Unpacking, VerdictGiven
<1>3. ReplyIsVerdict'
  BY <1>2 DEF AgreementInv, ReplyIsVerdict, Unpacking
<1>4. LastWaitBlocks'
  BY DEF AgreementInv, LastWaitBlocks, Unpacking, packVars
<1>5. SuccessIsVerdict'
  BY <1>2 DEF AgreementInv, SuccessIsVerdict, Unpacking, packVars
<1> QED
  BY <1>1, <1>3, <1>4, <1>5 DEF AgreementInv

(* So does a step of the packer that reads no reply (pack.c:151-239).      *)
LEMMA PackingKeepsAgreement ==
    ASSUME AgreementInv, Packing
    PROVE  AgreementInv'
<1> USE DEF Packing, unpackVars, replyVars
<1>1. CodeIsHonest'
  BY DEF AgreementInv, CodeIsHonest
<1>2. ReplyIsVerdict'
  BY DEF AgreementInv, ReplyIsVerdict, VerdictGiven, TheResult
<1>3. LastWaitBlocks'
  BY DEF LastWaitBlocks
<1>4. SuccessIsVerdict'
  BY DEF AgreementInv, SuccessIsVerdict
<1> QED
  BY <1>1, <1>2, <1>3, <1>4 DEF AgreementInv

(* The reply pipe as a sequence *)
LEMMA ReplyPipe ==
    ASSUME NEW x, NEW y
    PROVE  /\ Append(<<>>, x) = <<x>>
           /\ Append(<<x>>, y) = <<x, y>>
           /\ <<x>> # <<>> /\ <<x, y>> # <<>>
           /\ Head(<<x>>) = x /\ Tail(<<x>>) = <<>>
           /\ Head(<<x, y>>) = x /\ Tail(<<x, y>>) = <<y>>
<1>1. <<x>> \in Seq({x, y}) /\ <<x, y>> \in Seq({x, y})
  OBVIOUS
<1>2. Append(<<>>, x) = <<x>>
  BY <1>1, <<>> \in Seq({x, y}), x \in {x, y}
<1>4. Append(<<x>>, y) = <<x, y>>
  <2> DEFINE s == <<x>>
  <2>1. s \in Seq({x, y}) /\ Len(s) = 1 /\ s[1] = x /\ y \in {x, y}
    BY <1>1
  <2>2. Len(Append(s, y)) = 2 /\ Append(s, y)[1] = x /\ Append(s, y)[2] = y /\ Append(s, y) \in Seq({x, y})
    BY <2>1
  <2>3. <<x, y>> \in Seq({x, y}) /\ Len(<<x, y>>) = 2 /\ <<x, y>>[1] = x /\ <<x, y>>[2] = y
    BY <1>1
  <2>4. \A i \in 1..2 : Append(s, y)[i] = <<x, y>>[i]
    BY <2>2, <2>3
  <2> QED
    BY <2>2, <2>3, <2>4, SeqEqual
<1>3. Tail(<<x>>) = <<>> /\ Tail(<<x, y>>) = <<y>>
  BY <1>1
<1> QED
  BY <1>2, <1>3, <1>4

(***************************************************************************)
(* The actions of the unpacker                                             *)
(***************************************************************************)

(* Reading a header or a name fixes no verdict but an error.               *)
LEMMA HeaderStepsAreUnpacking ==
    ASSUME UNCHANGED packVars,
           \/ ReadHeader \/ ReadHeaderEof \/ ReadHeaderError
           \/ ReadName \/ ReadEof \/ ReadError \/ ReadPart
    PROVE  Unpacking
<1>1. CASE ReadHeader
  <2>1. do_exit(EDQUOT, TRUE) => Unpacking
    BY <1>1, ErrnoOnWire DEF do_exit, ReadHeader, Unpacking
  <2>2. do_exit(ENAMETOOLONG, FALSE) => Unpacking
    BY <1>1, ErrnoOnWire DEF do_exit, ReadHeader, Unpacking
  <2> QED
    BY <1>1, <2>1, <2>2 DEF ReadHeader, Unpacking, GoOn
<1>2. CASE ReadHeaderEof \/ ReadHeaderError
  BY <1>2 DEF ReadHeaderEof, ReadHeaderError, Unpacking, EREMOTEIO, EIO
<1>3. CASE ReadName
  <2>1. do_exit(EINVAL, TRUE) => Unpacking
    BY <1>3, ErrnoOnWire DEF do_exit, ReadName, Unpacking
  <2> QED
    BY <1>3, <2>1 DEF ReadName, Dispatch, Unpacking, GoOn
<1>4. CASE ReadEof \/ ReadError
  BY <1>4, ErrnoOnWire DEF ReadEof, ReadError, Reading, do_exit, Unpacking
<1>5. CASE ReadPart
  BY <1>5 DEF ReadPart, Reading, replyVars, Unpacking
<1> QED
  BY <1>1, <1>2, <1>3, <1>4, <1>5

(* Nor does a step of process_one_file_reg() (unpack.c:189).               *)
LEMMA RegStepsAreUnpacking ==
    ASSUME UNCHANGED packVars,
           \/ OpenReg \/ CheckQuota \/ WaitSpace \/ SpaceUnknown \/ CopyChunk
           \/ CopyNoSpace \/ LinkTmpfile \/ FixReg
    PROVE  Unpacking
<1>1. CASE OpenReg
  <2>1. ASSUME RegError(dst, name, validate_flags) # 0 PROVE Unpacking
    BY <1>1, <2>1, CheckOnWire DEF do_exit, OpenReg, Unpacking
  <2>2. ASSUME CreateExclusive(name) PROVE Unpacking
    <3>1. rpc' = "quota" \/ (rpc' = "result" /\ rCode' # 0)
      BY <2>2, CheckOnWire DEF do_exit, CreateExclusive, GoOn
    <3> QED
      BY <1>1, <3>1 DEF OpenReg, Unpacking
  <2>3. ASSUME CreateTmpfile PROVE Unpacking
    BY <1>1, <2>3 DEF OpenReg, CreateTmpfile, GoOn, Unpacking
  <2> QED
    BY <1>1, <2>1, <2>2, <2>3 DEF OpenReg
<1>2. CASE CheckQuota
  BY <1>2, ErrnoOnWire DEF do_exit, CheckQuota, GoOn, Unpacking
<1>3. CASE WaitSpace \/ SpaceUnknown
  BY <1>3 DEF WaitSpace, SpaceUnknown, LeaveSpaceCheck, GoOn, AfterData, Unpacking
<1>4. CASE CopyChunk
  BY <1>4 DEF CopyChunk, GoOn, AfterData, Unpacking
<1>5. CASE CopyNoSpace
  BY <1>5, ErrnoOnWire DEF do_exit, CopyNoSpace, Unpacking
<1>6. CASE LinkTmpfile
  <2>1. rpc' = "fix" \/ (rpc' = "result" /\ rCode' # 0)
    BY <1>6, CheckOnWire DEF do_exit, LinkTmpfile, GoOn
  <2> QED
    BY <1>6, <2>1 DEF LinkTmpfile, Unpacking
<1>7. CASE FixReg
  BY <1>7 DEF FixReg, fix_times_and_perms, errx, GoOn, Unpacking
<1> QED
  BY <1>1, <1>2, <1>3, <1>4, <1>5, <1>6, <1>7

(* Nor one of process_one_file_dir() and _link() (unpack.c:255-330).       *)
LEMMA DirAndLinkStepsAreUnpacking ==
    ASSUME UNCHANGED packVars,
           MakeDir \/ LinkQuota \/ MakeLink \/ LinkFails \/ FileSystemError
    PROVE  Unpacking
<1>1. CASE MakeDir
  <2>1. rpc' \in {"hdr", "exit"} \/ (rpc' = "result" /\ rCode' # 0)
    BY <1>1, CheckOnWire DEF do_exit, MakeDir, GoOn, fix_times_and_perms, errx
  <2> QED
    BY <1>1, <2>1 DEF MakeDir, Unpacking
<1>2. CASE LinkQuota
  <2>1. rpc' = "target" \/ (rpc' = "result" /\ rCode' # 0)
    BY <1>2, ErrnoOnWire DEF do_exit, LinkQuota, GoOn
  <2> QED
    BY <1>2, <2>1 DEF LinkQuota, Unpacking
<1>3. CASE MakeLink
  <2>1. ASSUME NEW target, StoreLink(target)
        PROVE  rpc' = "hdr" \/ (rpc' = "result" /\ rCode' # 0)
    BY <2>1, CheckOnWire DEF do_exit, StoreLink, GoOn
  <2>2. PICK target : StoreLink(target)
    BY <1>3 DEF MakeLink
  <2> QED
    BY <1>3, <2>1, <2>2 DEF MakeLink, Unpacking
<1>4. CASE LinkFails \/ FileSystemError
  BY <1>4, ErrnoOnWire DEF do_exit, LinkFails, FileSystemError, Unpacking
<1> QED
  BY <1>1, <1>2, <1>3, <1>4

(* The verdict itself: Sync fixes it, SendResult and SendExt send it.      *)
LEMMA ReplyKeepsAgreement ==
    ASSUME AgreementInv, UNCHANGED packVars,
           Sync \/ SendResult \/ SendExt \/ KillUnpacker
    PROVE  AgreementInv'
<1>1. CASE Sync
  <2>1. Unpacking
    BY <1>1 DEF Sync, Unpacking, AgreementInv, CodeIsHonest, EIO
  <2> QED
    BY <2>1, UnpackingKeepsAgreement
<1>2. CASE SendResult
  <2> USE <1>2 DEF SendResult, Reply, PackerGone, Quiet
  <2>1. CodeIsHonest'
    BY DEF AgreementInv, CodeIsHonest
  <2>2. VerdictGiven' /\ UNCHANGED <<TheResult, spc>>
    BY DEF AgreementInv, CodeIsHonest, VerdictGiven, TheResult
  <2>3. ReplyIsVerdict'
    <3>1. spc # "ext"
      BY DEF AgreementInv, ReplyIsVerdict, VerdictGiven
    <3>2. spc # "exit" => rev = <<>>
      BY <3>1 DEF AgreementInv, ReplyIsVerdict, VerdictGiven
    <3>3. spc # "exit" => rev' = <<TheResult>>
      BY <3>2, ReplyPipe DEF TheResult
    <3> QED
      BY <2>2, <3>1, <3>3 DEF ReplyIsVerdict
  <2>4. LastWaitBlocks' /\ SuccessIsVerdict'
    BY DEF AgreementInv, LastWaitBlocks, SuccessIsVerdict, VerdictGiven, packVars
  <2> QED
    BY <2>1, <2>3, <2>4 DEF AgreementInv
<1>3. CASE SendExt
  <2> USE <1>3 DEF SendExt, Reply, PackerGone, Quiet, replyVars
  <2>1. CodeIsHonest'
    BY DEF AgreementInv, CodeIsHonest
  <2>2. VerdictGiven' /\ UNCHANGED <<TheResult, spc>>
    BY DEF AgreementInv, CodeIsHonest, VerdictGiven, TheResult
  <2>3. ReplyIsVerdict'
    <3>1. spc \notin {"ext", "exit"} => rev' = <<TheResult, Ext>>
      <4>1. spc \notin {"ext", "exit"} => rev = <<TheResult>>
        BY DEF AgreementInv, ReplyIsVerdict
      <4> QED
        BY <4>1, ReplyPipe
    <3>2. spc = "ext" => rev' = <<Ext>>
      <4>1. spc = "ext" => rev = <<>>
        BY DEF AgreementInv, ReplyIsVerdict
      <4> QED
        BY <4>1, ReplyPipe
    <3> QED
      BY <2>2, <3>1, <3>2 DEF ReplyIsVerdict, packVars, AgreementInv
  <2>4. LastWaitBlocks' /\ SuccessIsVerdict'
    BY <2>2 DEF AgreementInv, LastWaitBlocks, SuccessIsVerdict, packVars
  <2> QED
    BY <2>1, <2>3, <2>4 DEF AgreementInv
<1>4. CASE KillUnpacker
  <2> USE <1>4 DEF KillUnpacker, Quiet, replyVars
  <2>1. CodeIsHonest'
    BY DEF CodeIsHonest
  <2>2. (VerdictGiven => VerdictGiven') /\ UNCHANGED <<TheResult, spc, rev>>
    BY DEF VerdictGiven, TheResult
  <2>3. ReplyIsVerdict'
    BY <2>2 DEF AgreementInv, ReplyIsVerdict, packVars
  <2>4. LastWaitBlocks' /\ SuccessIsVerdict'
    BY <2>2 DEF AgreementInv, LastWaitBlocks, SuccessIsVerdict, packVars
  <2> QED
    BY <2>1, <2>3, <2>4 DEF AgreementInv
<1> QED
  BY <1>1, <1>2, <1>3, <1>4

(***************************************************************************)
(* The actions of the packer                                               *)
(***************************************************************************)

(* exit(1) of a packer, wherever it is. *)
LEMMA GivingUpKeepsAgreement ==
    ASSUME AgreementInv, UNCHANGED <<rpc, unpackVars, sBlock, cont>>, NEW why, Exit(1, why)
    PROVE  AgreementInv'
  BY DEF Exit, AgreementInv, CodeIsHonest, ReplyIsVerdict, LastWaitBlocks,
         SuccessIsVerdict, unpackVars, replyVars

(* write_all_with_crc() (pack.c:35) reads no reply by itself.              *)
LEMMA WritesArePacking ==
    ASSUME AgreementInv, UNCHANGED <<rev, rpc, unpackVars>>,
           spc \notin {"wait", "ext", "exit"},
           NEW item, NEW next \in {"name", "data", "wait"},
           write_all_with_crc(item, next)
    PROVE  Packing
  BY DEF write_all_with_crc, Goto, Packing, AgreementInv, LastWaitBlocks

(* Nor do the steps of single_file_processor() and do_fs_walk().           *)
LEMMA SendStepsArePacking ==
    ASSUME AgreementInv, UNCHANGED unpackVars,
           \/ \E n \in Names : WalkEnter(n)
           \/ WalkLeave \/ WalkEnd
           \/ SendHeader \/ SendName \/ SendChunk \/ SendTarget \/ NotifyEnd
    PROVE  Packing
<1>1. CASE \E n \in Names : WalkEnter(n)
  <2> PICK n \in Names : WalkEnter(n)
    BY <1>1
  <2> QED
    BY DEF WalkEnter, Packing, AgreementInv, LastWaitBlocks
<1>2. CASE WalkLeave
  BY <1>2 DEF WalkLeave, Packing, AgreementInv, LastWaitBlocks
<1>3. CASE WalkEnd
  BY <1>3 DEF WalkEnd, Packing, AgreementInv, LastWaitBlocks, packVars
<1>4. CASE SendHeader
  BY <1>4, WritesArePacking DEF SendHeader
<1>5. CASE SendName
  BY <1>5, WritesArePacking DEF SendName, AfterName
<1>6. CASE SendChunk
  BY <1>6, WritesArePacking DEF SendChunk
<1>7. CASE SendTarget
  BY <1>7, WritesArePacking DEF SendTarget
<1>8. CASE NotifyEnd
  BY <1>8 DEF NotifyEnd, Goto, Packing
<1> QED
  BY <1>1, <1>2, <1>3, <1>4, <1>5, <1>6, <1>7, <1>8

(* wait_for_result(): only ReadExt can end in exit(0), and only with a     *)
(* result of 0 and a checksum that was compared, or an ignored quota.      *)
LEMMA WaitKeepsAgreement ==
    ASSUME AgreementInv, UNCHANGED unpackVars,
           NoResultYet \/ ResultEof \/ ReadResult \/ ReadExt
    PROVE  AgreementInv'
<1> USE DEF unpackVars, replyVars
<1>1. CASE NoResultYet
  <2>1. CASE cont = "exit1" /\ Exit(1, "refused")
    BY <1>1, <2>1, GivingUpKeepsAgreement DEF NoResultYet
  <2>2. CASE cont = "walk" /\ Goto("walk")
    <3>1. CodeIsHonest' /\ LastWaitBlocks' /\ SuccessIsVerdict'
      BY <1>1, <2>2 DEF NoResultYet, Goto, AgreementInv, CodeIsHonest,
                        LastWaitBlocks, SuccessIsVerdict
    <3>2. ReplyIsVerdict'
      BY <1>1, <2>2 DEF NoResultYet, Goto, AgreementInv, ReplyIsVerdict,
                        VerdictGiven, TheResult
    <3> QED
      BY <3>1, <3>2 DEF AgreementInv
  <2>3. cont # "exit0"
    BY <1>1 DEF NoResultYet, AgreementInv, LastWaitBlocks
  <2> QED
    BY <1>1, <2>1, <2>2, <2>3 DEF NoResultYet, Return
<1>2. CASE ResultEof
  BY <1>2, GivingUpKeepsAgreement DEF ResultEof
<1>3. CASE ReadResult
  <2> USE <1>3 DEF ReadResult
  <2>1. CodeIsHonest' /\ LastWaitBlocks' /\ SuccessIsVerdict'
    BY DEF AgreementInv, CodeIsHonest, LastWaitBlocks, SuccessIsVerdict
  <2>2. UNCHANGED <<VerdictGiven, TheResult>>
    BY DEF VerdictGiven, TheResult
  <2>3. \/ rev = <<TheResult>> /\ VerdictGiven
        \/ rev = <<TheResult, Ext>> /\ VerdictGiven /\ rpc = "exit"
    BY DEF AgreementInv, ReplyIsVerdict
  <2>4. sRes' = TheResult /\ (rev' = <<>> \/ (rev' = <<Ext>> /\ rpc = "exit"))
    <3>1. CASE rev = <<TheResult>>
      BY <3>1, Zenon, ReplyPipe
    <3>2. CASE rev = <<TheResult, Ext>> /\ rpc = "exit"
      BY <3>2, Zenon, ReplyPipe
    <3> QED
      BY <2>3, <3>1, <3>2
  <2>5. ReplyIsVerdict'
    BY <2>2, <2>3, <2>4 DEF ReplyIsVerdict
  <2> QED
    BY <2>1, <2>5 DEF AgreementInv
<1>4. CASE ReadExt
  <2> USE <1>4 DEF ReadExt
  <2>1. sRes = TheResult /\ VerdictGiven /\ rpc = "exit" /\ rev' = <<>>
    <3>1. /\ sRes = TheResult /\ VerdictGiven
          /\ rev = <<>> \/ (rev = <<Ext>> /\ rpc = "exit")
      BY DEF AgreementInv, ReplyIsVerdict
    <3> QED
      BY <3>1, ReplyPipe DEF RevEof, UnpackerGone
  <2>2. UNCHANGED <<VerdictGiven, TheResult>>
    BY DEF VerdictGiven, TheResult
  <2>3. ASSUME NEW why, Exit(1, why) PROVE AgreementInv'
    BY <2>3, GivingUpKeepsAgreement
  <2>4. ASSUME cont = "walk", Goto("walk") PROVE AgreementInv'
    <3>1. CodeIsHonest' /\ LastWaitBlocks' /\ SuccessIsVerdict'
      BY <2>4 DEF Goto, AgreementInv, CodeIsHonest, LastWaitBlocks, SuccessIsVerdict
    <3>2. ReplyIsVerdict'
      BY <2>1, <2>4 DEF Goto, ReplyIsVerdict
    <3> QED
      BY <3>1, <3>2 DEF AgreementInv
  <2>5. ASSUME Exit(0, "success"), sRes.code = 0 => sRes.crc = crcS PROVE AgreementInv'
    <3>1. CodeIsHonest' /\ LastWaitBlocks' /\ ReplyIsVerdict'
      BY <2>5 DEF Exit, AgreementInv, CodeIsHonest, LastWaitBlocks, ReplyIsVerdict
    <3>2. TheResult.crc = crcR
      BY DEF TheResult, Result
    <3>3. SuccessIsVerdict'
      BY <2>1, <2>2, <2>5, <3>2 DEF Exit, SuccessIsVerdict
    <3> QED
      BY <3>1, <3>3 DEF AgreementInv
  <2>6. ASSUME Return, sRes.code = 0 => sRes.crc = crcS PROVE AgreementInv'
    BY <2>3, <2>4, <2>5, <2>6 DEF Return
  <2> QED
    BY <2>3, <2>6 DEF Judge, call_error_handler
<1> QED
  BY <1>1, <1>2, <1>3, <1>4

(***************************************************************************)
(* The theorems                                                            *)
(***************************************************************************)

(* Nothing has been sent and nobody has exited at the start.               *)
LEMMA InitAgreement == Init => AgreementInv
  BY DEF Init, PackInit, UnpackInit, AgreementInv, CodeIsHonest, ReplyIsVerdict,
         LastWaitBlocks, SuccessIsVerdict

(* Every step of either program, every fault and kill keeps it.            *)
LEMMA NextKeepsAgreement ==
    ASSUME AgreementInv, [Next]_vars
    PROVE  AgreementInv'
<1>1. CASE Pack
  BY <1>1, SendStepsArePacking, PackingKeepsAgreement, WaitKeepsAgreement
     DEF Pack, PackStep
<1>2. CASE Unpack
  BY <1>2, HeaderStepsAreUnpacking, RegStepsAreUnpacking, DirAndLinkStepsAreUnpacking,
     UnpackingKeepsAgreement, ReplyKeepsAgreement
     DEF Unpack, UnpackStep
<1>3. CASE PackFault
  BY <1>3, GivingUpKeepsAgreement DEF PackFault, LocalError, KillPacker, call_error_handler
<1>4. CASE UnpackFault
  <2>1. CASE DiskFills \/ DiskFrees
    <3>1. Aside
      BY <1>4, <2>1 DEF UnpackFault, DiskFills, DiskFrees, Quiet, replyVars, Aside
    <3> QED
      BY <3>1, AsideKeepsAgreement
  <2>2. CASE ReadHeaderError \/ ReadError \/ SpaceUnknown \/ LinkFails \/ FileSystemError
    BY <1>4, <2>2, HeaderStepsAreUnpacking, RegStepsAreUnpacking,
       DirAndLinkStepsAreUnpacking, UnpackingKeepsAgreement DEF UnpackFault
  <2>3. CASE KillUnpacker
    BY <1>4, <2>3, ReplyKeepsAgreement DEF UnpackFault
  <2> QED
    BY <1>4, <2>1, <2>2, <2>3 DEF UnpackFault
<1>5. CASE WireFault \/ Done \/ UNCHANGED vars
  <2>1. Aside
    BY <1>5 DEF WireFault, Garble, Done, vars, wireVars, unpackVars, replyVars, Aside
  <2> QED
    BY <2>1, AsideKeepsAgreement
<1> QED
  BY <1>1, <1>2, <1>3, <1>4, <1>5 DEF Next

(* The exchange of wait_for_result() and send_status_and_crc(): the reply  *)
(* pipe holds the verdict and nothing else, a verdict of 0 follows the end *)
(* marker, and the packer exits 0 only on it.                              *)
THEOREM AgreementInvariant == Spec => []AgreementInv
<1>1. AgreementInv /\ [Next]_vars => AgreementInv'
  BY NextKeepsAgreement
<1> QED
  BY <1>1, InitAgreement, PTL DEF Spec

(* A packer that exits 0 on a result of 0 agrees with the unpacker about   *)
(* every item of the stream and the unpacker has seen the end marker, for  *)
(* every source tree, pipe size and number of faults.                      *)
THEOREM Success_Safe == Spec => []SuccessIsAgreed
<1>1. AgreementInv => SuccessIsAgreed
  BY DEF AgreementInv, SuccessIsVerdict, SuccessIsAgreed, VerdictGiven, TheResult, Result
<1> QED
  BY <1>1, AgreementInvariant, PTL

(***************************************************************************)
(* The stream as a sequence of entries                                     *)
(***************************************************************************)

(* An entry of the stream: a path of the source, or <<>> for the marker.   *)
Entries == DOMAIN SrcTree \cup {<<>>}

(* The items single_file_processor() sends for it, and how many. *)
EntryLen(e) ==
    IF e = <<>> THEN 1
    ELSE IF SrcTree[e].kind = "reg" THEN 2 + SrcTree[e].size
    ELSE IF SrcTree[e].kind = "link" THEN 3 ELSE 2

ItemOf(e, j) ==
    IF e = <<>> THEN EndMarker
    ELSE IF j = 1 THEN HeaderOf(e)
    ELSE IF j = 2 THEN NameItem(e)
    ELSE IF SrcTree[e].kind = "reg" THEN DataItem(SrcTree[e].content[j - 2])
    ELSE LinkItem(SrcTree[e].target)

(* A tag says which item of which entry an item of the stream is. *)
Tags == [e : Entries, j : Nat \ {0}]

Tag(e, j) == [e |-> e, j |-> j]

(* Between two entries, before the marker. *)
AtEntry(tag, k) ==
    k # 0 => tag[k].e # <<>> /\ tag[k].j = EntryLen(tag[k].e)

(* t may stand at position i of the stream. *)
Follows(tag, i, t) ==
    \/ t.j = 1 /\ AtEntry(tag, i - 1)
    \/ i > 1 /\ t.j > 1 /\ tag[i - 1] = Tag(t.e, t.j - 1)

(* crcS is entry after entry, the marker last. *)
Tagged(tag) ==
    /\ tag \in Seq(Tags)
    /\ Len(tag) = Len(crcS)
    /\ \A i \in 1..Len(crcS) :
          /\ tag[i].j <= EntryLen(tag[i].e)
          /\ crcS[i] = ItemOf(tag[i].e, tag[i].j)
          /\ Follows(tag, i, tag[i])

(* What an item can become on the way: it keeps its place. *)
Like(item, true) ==
    /\ item.t = true.t
    /\ item.t \in {"name", "target"} => item.len = true.len

(* As long as the reader has its place, the pipe holds what was sent and   *)
(* not yet read.                                                           *)
PipeInv ==
    /\ Len(crcR) <= Len(crcS)
    /\ rIn /\ slip = 0 =>
         /\ Len(crcS) = Len(crcR) + Len(fwd)
         /\ \A i \in 1..Len(fwd) : Like(fwd[i], crcS[Len(crcR) + i])

(* Every header the unpacker has read is the one that was sent; so is      *)
(* everything it has read.                                                 *)
Steady == \A i \in 1..Len(crcR) : crcR[i].t = "hdr" => crcR[i] = crcS[i]

Clean == \A i \in 1..Len(crcR) : crcR[i] = crcS[i]

(* Where the packer is in the stream: at its end. *)
SenderAt(tag) ==
    LET k == Len(crcS)
    IN  /\ \/ spc \in {"walk", "hdr", "end"}
           \/ spc \in {"wait", "ext"} /\ cont = "walk"
           => AtEntry(tag, k)
        /\ spc = "name" => k > 0 /\ tag[k] = Tag(cur, 1)
        /\ spc = "data" => k > 0 /\ tag[k] = Tag(cur, sent + 2) /\ sent + 2 < EntryLen(cur)

(* The states between a header and the end of its entry. *)
RegStates == {"reg", "quota", "space", "data", "linkat", "fix"}

Named == RegStates \cup {"link", "target", "dir"}

(* What the unpacker has in hand once it has read t; its name is that of   *)
(* the entry if nothing was garbled.                                       *)
ReaderPlace(t) ==
    /\ t.e # <<>> /\ hdr = HeaderOf(t.e)
    /\ rpc = "name" => t.j = 1
    /\ rpc \in {"reg", "quota", "space", "link", "target", "dir"} => t.j = 2
    /\ rpc = "data" => t.j = Len(buf) + 2
    /\ rpc \in {"linkat", "fix"} => t.j = EntryLen(t.e)
    /\ rpc \in Named /\ Clean => name = t.e

(* Where the unpacker is, as long as no header was garbled. *)
ReaderAt(tag) ==
    LET k == Len(crcR)
    IN  Steady =>
        /\ slip = 0
        /\ rpc = "hdr" => AtEntry(tag, k)
        /\ rpc \in Named \cup {"name"} => k > 0 /\ ReaderPlace(tag[k])

StreamInv == \E tag \in Seq(Tags) : Tagged(tag) /\ SenderAt(tag) /\ ReaderAt(tag)

(* The entry the unpacker works on is one its header announces. *)
EntryInv ==
    /\ rpc \in Named => name \in Paths
    /\ rpc \in RegStates => hdr.kind = "reg"
    /\ rpc \in {"link", "target"} => hdr.kind = "link"
    /\ rpc = "dir" => hdr.kind = "dir"
    /\ rpc = "data" => Len(buf) < hdr.filelen

(* do_fs_walk() is somewhere in the source tree. *)
PackInv ==
    /\ spc \in {"hdr", "name", "data"} => cur \in DOMAIN SrcTree
    /\ spc = "name" => sent = 0
    /\ spc \in {"walk", "hdr", "name", "data", "end"} => cont = "walk"
    /\ \A k \in 1..Len(stack) :
          /\ stack[k].todo \subseteq Children(stack[k].dir)
          /\ k > 1 => stack[k].dir \in DOMAIN SrcTree /\ SrcTree[stack[k].dir].kind = "dir"

(* What the receiving directory holds of the file that is being written:   *)
(* nothing until linkat(), or a file without permissions.                  *)
FileInv ==
    /\ \A p \in Paths : WellFormed(dst[p])
    /\ rpc \in {"quota", "space"} => buf = <<>>
    /\ rpc \in {"quota", "space", "data"} =>
         /\ linked <=> ~use_tmpfile
         /\ linked => dst[name] = MkNode("reg", "none", hdr.filelen, buf, <<>>)
    /\ rpc \in {"linkat", "fix"} => Len(buf) = hdr.filelen
    /\ rpc = "fix" =>
         \E perm \in {"none", "rwx"} :
            dst[name] = MkNode("reg", perm, hdr.filelen, buf, <<>>)

(***************************************************************************)
(* The source tree and the items made of it                                *)
(***************************************************************************)

(* A stored path is not empty, which is why <<>> can stand for the marker. *)
LEMMA PathNotEmpty ==
    ASSUME NEW p \in Paths
    PROVE  p # <<>> /\ p \in Seq(Names) /\ Len(p) \in Nat \ {0}
<1>1. PICK n \in 1..MaxDepth : p \in [1..n -> Names]
  BY DEF Paths
<1>2. n \in Nat \ {0}
  BY PathRulesAssumption
<1>3. p \in Seq(Names) /\ Len(p) = n
  BY <1>1, <1>2
<1> QED
  BY <1>2, <1>3

(* What lstat() and readlink() of pack.c find: an entry of the source is a *)
(* directory, a file or a link that is not empty, and FileLen its length.  *)
LEMMA SourceFacts ==
    ASSUME NEW p \in DOMAIN SrcTree
    PROVE  /\ p \in Paths /\ p # <<>>
           /\ SrcTree[p] \in Node /\ SrcTree[p].perm = "final"
           /\ SrcTree[p].kind \in {"dir", "reg", "link"}
           /\ SrcTree[p].kind = "reg" =>
                /\ SrcTree[p].content \in Seq(Chunks)
                /\ Len(SrcTree[p].content) = FileLen(p)
           /\ SrcTree[p].kind = "link" =>
                SrcTree[p].target \in Seq(Components) /\ FileLen(p) # 0
           /\ SrcTree[p].kind = "dir" => FileLen(p) = 0
           /\ FileLen(p) \in Nat
           /\ EntryLen(p) = IF SrcTree[p].kind = "reg" THEN 2 + FileLen(p)
                            ELSE IF SrcTree[p].kind = "link" THEN 3 ELSE 2
           /\ EntryLen(p) \in Nat \ {0, 1}
           /\ EntryLen(p) = 2 <=> FileLen(p) = 0
<1> DEFINE node == SrcTree[p]
<1>1. p \in Paths /\ p # <<>>
  BY QfileWireAssumption, PathNotEmpty
<1>2. node \in Node
  BY QfileWireAssumption
<1>3. node.kind # "none" /\ node.perm = "final" /\ WellFormed(node)
      /\ (node.kind = "link" => node.target # <<>>)
  BY QfileWireAssumption
<1> HIDE DEF node
<1>4. /\ node.kind \in {"dir", "reg", "link"} /\ node.size \in Nat
      /\ node.content \in Seq(Chunks) /\ node.target \in Seq(Components)
  BY <1>2, <1>3 DEF Node
<1>5. node.kind = "reg" => node.size = Len(node.content)
  BY <1>3 DEF WellFormed
<1>6. FileLen(p) = IF node.kind = "reg" THEN node.size
                   ELSE IF node.kind = "link" THEN Len(node.target) ELSE 0
  BY DEF FileLen, node
<1>7. EntryLen(p) = IF node.kind = "reg" THEN 2 + node.size
                    ELSE IF node.kind = "link" THEN 3 ELSE 2
  BY <1>1 DEF EntryLen, node
<1>8. node.kind = "link" => Len(node.target) # 0 /\ Len(node.target) \in Nat
  BY <1>3, <1>4
<1>9. SrcTree[p] = node
  BY DEF node
<1> QED
  BY <1>1, <1>2, <1>3, <1>4, <1>5, <1>6, <1>7, <1>8, <1>9

(* The items of an entry are items of the wire format.                     *)
LEMMA ItemTypes ==
    ASSUME NEW p \in DOMAIN SrcTree
    PROVE  /\ HeaderOf(p) \in Headers /\ HeaderOf(p).namelen # 0 /\ HeaderOf(p).nsec = TRUE
           /\ HeaderOf(p).kind = SrcTree[p].kind /\ HeaderOf(p).filelen = FileLen(p)
           /\ HeaderOf(p).t = "hdr" /\ HeaderOf(p).namelen = NameLen(p)
           /\ NameItem(p) \in Items
           /\ SrcTree[p].kind = "reg" =>
                \A n \in 1..FileLen(p) : DataItem(SrcTree[p].content[n]) \in Items
           /\ SrcTree[p].kind = "link" => LinkItem(SrcTree[p].target) \in Items
<1>1. Len(p) \in Nat
  BY SourceFacts, PathNotEmpty
<1>2. HeaderOf(p) \in Headers /\ HeaderOf(p).namelen # 0 /\ HeaderOf(p).nsec = TRUE
      /\ HeaderOf(p).kind = SrcTree[p].kind /\ HeaderOf(p).filelen = FileLen(p)
      /\ HeaderOf(p).t = "hdr" /\ HeaderOf(p).namelen = NameLen(p)
  BY <1>1, SourceFacts DEF HeaderOf, Header, Headers, NameLen
<1>3. NameItem(p) \in Items
  BY <1>1, SourceFacts DEF NameItem, NameLen, Items
<1>4. ASSUME SrcTree[p].kind = "reg", NEW n \in 1..FileLen(p)
      PROVE  DataItem(SrcTree[p].content[n]) \in Items
  <2>1. SrcTree[p].content[n] \in Chunks
    BY <1>4, SourceFacts
  <2> QED
    BY <2>1 DEF DataItem, Items
<1>5. ASSUME SrcTree[p].kind = "link" PROVE LinkItem(SrcTree[p].target) \in Items
  <2>1. SrcTree[p].target \in Seq(Components)
    BY <1>5, SourceFacts
  <2> DEFINE v == SrcTree[p].target
  <2> HIDE DEF v
  <2>2. Len(v) \in Nat
    BY <2>1 DEF v
  <2>3. LinkItem(v) \in Targets
    BY <2>1, <2>2 DEF LinkItem, Targets, v
  <2> QED
    BY <2>3 DEF Items, v
<1> QED
  BY <1>2, <1>3, <1>4, <1>5

(* So is the end marker (pack.c notify_end_and_wait_for_result).           *)
LEMMA MarkerType ==
    /\ EndMarker \in Headers /\ EndMarker \in Items
    /\ EndMarker.namelen = 0 /\ EndMarker.t = "hdr"
  BY DEF EndMarker, Header, Headers, Items

(***************************************************************************)
(* Writing an item                                                         *)
(***************************************************************************)

(* What the packer's program counter says about the item just written. *)
SenderPlace(t) ==
    /\ \/ spc \in {"walk", "hdr", "end"}
       \/ spc \in {"wait", "ext"} /\ cont = "walk"
       => t.e # <<>> /\ t.j = EntryLen(t.e)
    /\ spc = "name" => t = Tag(cur, 1)
    /\ spc = "data" => t = Tag(cur, sent + 2) /\ sent + 2 < EntryLen(cur)

(* The reader's variables, which no step of the packer touches. *)
readerVars == <<rpc, rIn, hdr, name, buf, crcR, slip>>

(* An item that continues the stream extends its division into entries.    *)
LEMMA TagAppend ==
    ASSUME NEW tag, Tagged(tag), crcS \in Seq(Items),
           NEW t \in Tags, t.j <= EntryLen(t.e), Follows(tag, Len(crcS) + 1, t),
           ItemOf(t.e, t.j) \in Items, crcS' = Append(crcS, ItemOf(t.e, t.j))
    PROVE  /\ Append(tag, t) \in Seq(Tags)
           /\ \A i \in 1..Len(crcS) : Append(tag, t)[i] = tag[i]
           /\ Len(crcS') = Len(crcS) + 1
           /\ Append(tag, t)[Len(crcS) + 1] = t
           /\ Tagged(Append(tag, t))'
<1> DEFINE new == Append(tag, t)
           k == Len(crcS)
<1>1. tag \in Seq(Tags) /\ Len(tag) = k /\ k \in Nat
  BY DEF Tagged
<1>2. new \in Seq(Tags) /\ Len(new) = k + 1 /\ new[k + 1] = t
      /\ \A i \in 1..k : new[i] = tag[i]
  BY <1>1, AppendProperties
<1>3. crcS' \in Seq(Items) /\ Len(crcS') = k + 1 /\ crcS'[k + 1] = ItemOf(t.e, t.j)
      /\ \A i \in 1..k : crcS'[i] = crcS[i]
  BY AppendProperties
<1> HIDE DEF new
<1>4. ASSUME NEW i \in 1..(k + 1)
      PROVE  /\ new[i].j <= EntryLen(new[i].e)
             /\ crcS'[i] = ItemOf(new[i].e, new[i].j)
             /\ Follows(new, i, new[i])
  <2>1. CASE i = k + 1
    BY <1>1, <1>2, <1>3, <2>1 DEF Follows, AtEntry
  <2>2. CASE i \in 1..k
    <3>1. /\ tag[i].j <= EntryLen(tag[i].e)
          /\ crcS[i] = ItemOf(tag[i].e, tag[i].j)
          /\ Follows(tag, i, tag[i])
      BY <2>2 DEF Tagged
    <3>2. new[i] = tag[i] /\ crcS'[i] = crcS[i] /\ (i # 1 => new[i - 1] = tag[i - 1])
      BY <1>1, <1>2, <1>3, <2>2
    <3>3. Follows(new, i, new[i])
      BY <3>1, <3>2, <2>2 DEF Follows, AtEntry
    <3> QED
      BY <3>1, <3>2, <3>3
  <2> QED
    BY <1>1, <2>1, <2>2
<1>5. Tagged(new)'
  BY <1>2, <1>3, <1>4 DEF Tagged
<1> QED
  BY <1>2, <1>3, <1>5 DEF new

(* write_all_with_crc() of the item that is due keeps both programs in     *)
(* their places, whether or not the unpacker still reads (pack.c:35).      *)
LEMMA WriteKeepsStream ==
    ASSUME crcS \in Seq(Items), fwd \in Seq(Items), crcR \in Seq(Items), rIn \in BOOLEAN,
           PipeInv,
           NEW tag, Tagged(tag), ReaderAt(tag),
           NEW t \in Tags, t.j <= EntryLen(t.e), Follows(tag, Len(crcS) + 1, t),
           NEW item \in Items, item = ItemOf(t.e, t.j),
           crcS' = Append(crcS, item),
           (rIn /\ fwd' = Append(fwd, item)) \/ (~rIn /\ UNCHANGED fwd),
           UNCHANGED readerVars, SenderPlace(t)'
    PROVE  PipeInv' /\ StreamInv'
<1> DEFINE new == Append(tag, t)
           k == Len(crcS)
<1>1. /\ new \in Seq(Tags) /\ Tagged(new)' /\ new[k + 1] = t /\ Len(crcS') = k + 1
      /\ \A i \in 1..k : new[i] = tag[i]
  BY TagAppend
<1>2. k \in Nat /\ Len(crcR) \in Nat /\ Len(crcR) <= k
  BY DEF PipeInv
<1> HIDE DEF new
<1>3. PipeInv'
  <2>1. crcS'[k + 1] = item /\ \A i \in 1..k : crcS'[i] = crcS[i]
    BY AppendProperties
  <2>2. UNCHANGED <<rIn, crcR, slip>>
    BY DEF readerVars
  <2>5. CASE slip # 0
    BY <1>1, <1>2, <2>2, <2>5 DEF PipeInv
  <2>3. CASE slip = 0 /\ rIn /\ fwd' = Append(fwd, item)
    <3>1. /\ Len(fwd') = Len(fwd) + 1 /\ fwd'[Len(fwd) + 1] = item
          /\ \A i \in 1..Len(fwd) : fwd'[i] = fwd[i]
      BY <2>3, AppendProperties
    <3>2. k = Len(crcR) + Len(fwd) /\ Len(fwd) \in Nat
          /\ \A i \in 1..Len(fwd) : Like(fwd[i], crcS[Len(crcR) + i])
      BY <2>3 DEF PipeInv
    <3>3. Like(item, item)
      BY DEF Like
    <3>4. ASSUME NEW i \in 1..(Len(fwd) + 1)
          PROVE  Like(fwd'[i], crcS'[Len(crcR) + i])
      <4>1. CASE i = Len(fwd) + 1
        BY <1>2, <2>1, <3>1, <3>2, <3>3, <4>1
      <4>2. CASE i \in 1..Len(fwd)
        <5>1. Len(crcR) + i \in 1..k
          BY <1>2, <3>2, <4>2
        <5> QED
          BY <2>1, <3>1, <3>2, <4>2, <5>1
      <4> QED
        BY <3>2, <4>1, <4>2
    <3>5. Len(crcS') = Len(crcR') + Len(fwd') /\ Len(crcR') <= Len(crcS')
      BY <1>1, <1>2, <2>2, <3>1, <3>2
    <3>6. \A i \in 1..Len(fwd') : Like(fwd'[i], crcS'[Len(crcR') + i])
      BY <2>2, <3>1, <3>4
    <3> QED
      BY <3>5, <3>6 DEF PipeInv
  <2>4. CASE ~rIn
    BY <1>1, <1>2, <2>2, <2>4 DEF PipeInv
  <2> QED
    BY <2>3, <2>4, <2>5
<1>4. SenderAt(new)'
  BY <1>1, <1>2 DEF SenderAt, SenderPlace, AtEntry
<1>5. ReaderAt(new)'
  <2>1. UNCHANGED <<rpc, rIn, hdr, name, buf, crcR, slip>>
    BY DEF readerVars
  <2>2. Len(crcR) # 0 => new[Len(crcR)] = tag[Len(crcR)]
    BY <1>1, <1>2
  <2>3. \A i \in 1..Len(crcR) : crcS'[i] = crcS[i]
    BY <1>2, AppendProperties
  <2>4. (Steady' => Steady) /\ (Clean' => Clean)
    BY <2>1, <2>3 DEF Steady, Clean
  <2>5. \A u : ReaderPlace(u) => ReaderPlace(u)'
    BY <2>1, <2>4 DEF ReaderPlace
  <2> QED
    BY <1>2, <2>1, <2>2, <2>4, <2>5 DEF ReaderAt, AtEntry
<1> QED
  BY <1>1, <1>3, <1>4, <1>5 DEF StreamInv

(***************************************************************************)
(* The steps of the packer                                                 *)
(***************************************************************************)

Frames == [dir : Paths \cup {<<>>}, todo : SUBSET Names]

(* The directory at the top of the stack with one entry less to read.      *)
Rest(n) == [stack EXCEPT ![Len(stack)].todo = @ \ {n}]

(* readdir() takes one entry of the innermost open directory.              *)
LEMMA RestFacts ==
    ASSUME stack \in Seq(Frames), stack # <<>>, NEW n
    PROVE  /\ Rest(n) \in Seq(Frames)
           /\ Len(Rest(n)) = Len(stack)
           /\ Len(stack) \in Nat \ {0} /\ Top \in Frames
           /\ \A k \in 1..(Len(stack) - 1) : Rest(n)[k] = stack[k]
           /\ Rest(n)[Len(stack)] = Frame(Top.dir, Top.todo \ {n})
<1> DEFINE k == Len(stack)
           f == [stack[k] EXCEPT !.todo = @ \ {n}]
<1>1. k \in Nat \ {0} /\ k \in 1..Len(stack) /\ stack[k] \in Frames
  OBVIOUS
<1>2. f \in Frames /\ f = Frame(stack[k].dir, stack[k].todo \ {n})
  <2> SUFFICES ASSUME NEW g \in Frames
               PROVE  LET h == [g EXCEPT !.todo = @ \ {n}]
                      IN  h \in Frames /\ h = Frame(g.dir, g.todo \ {n})
    BY <1>1
  <2>1. PICK d \in Paths \cup {<<>>}, t \in SUBSET Names : g = [dir |-> d, todo |-> t]
    BY DEF Frames
  <2>2. g.dir = d /\ g.todo = t
    BY <2>1
  <2>3. [g EXCEPT !.todo = t \ {n}] = [dir |-> d, todo |-> t \ {n}]
    <3>1. ASSUME NEW u PROVE [g EXCEPT !.todo = u] = [dir |-> d, todo |-> u]
      BY <2>1
    <3> QED
      BY <3>1, Zenon
  <2>4. [dir |-> d, todo |-> t \ {n}] \in Frames
    BY DEF Frames
  <2> QED
    BY <2>2, <2>3, <2>4 DEF Frame
<1>3. Rest(n) = [stack EXCEPT ![k] = f]
  BY DEF Rest
<1> HIDE DEF f
<1>4. /\ [stack EXCEPT ![k] = f] \in Seq(Frames)
      /\ Len([stack EXCEPT ![k] = f]) = k
      /\ \A j \in 1..k : [stack EXCEPT ![k] = f][j] = IF j = k THEN f ELSE stack[j]
  BY <1>1, <1>2, ExceptSeq
<1>5. Top = stack[k]
  BY DEF Top
<1>6. ASSUME NEW j \in 1..(k - 1) PROVE Rest(n)[j] = stack[j]
  <2>1. j \in 1..k /\ j # k
    BY <1>1
  <2> QED
    BY <1>3, <1>4, <2>1
<1>7. Rest(n)[k] = f
  BY <1>1, <1>3, <1>4
<1> QED
  BY <1>1, <1>2, <1>3, <1>4, <1>5, <1>6, <1>7

(* The reader has not moved and nothing was written. *)
LEMMA AsideKeepsStream ==
    ASSUME PipeInv, StreamInv,
           UNCHANGED <<fwd, crcS, readerVars>>,
           \A tag : SenderAt(tag) => SenderAt(tag)'
    PROVE  PipeInv' /\ StreamInv'
<1> USE DEF readerVars
<1>1. PipeInv'
  BY DEF PipeInv
<1>2. PICK tag \in Seq(Tags) : Tagged(tag) /\ SenderAt(tag) /\ ReaderAt(tag)
  BY DEF StreamInv
<1>3. Tagged(tag)'
  BY <1>2 DEF Tagged
<1>4. ReaderAt(tag)'
  BY <1>2 DEF ReaderAt, ReaderPlace, Steady, Clean, AtEntry
<1>5. SenderAt(tag)'
  BY <1>2
<1> QED
  BY <1>1, <1>3, <1>4, <1>5 DEF StreamInv

(* What the packer may rely on. *)
PackOK == TypeOK /\ PackInv /\ PipeInv /\ StreamInv

(* do_fs_walk() stays within the tree and writes nothing itself.           *)
LEMMA WalkKeepsPack ==
    ASSUME PackOK, UNCHANGED unpackVars,
           (\E n \in Names : WalkEnter(n)) \/ WalkLeave \/ WalkEnd
    PROVE  PackOK'
<1> USE DEF PackOK
<1>t. /\ stack \in Seq(Frames) /\ stack # <<>> /\ Len(stack) \in Nat \ {0}
  BY DEF TypeOK, PackTypeOK, Frames
<1>1. CASE \E n \in Names : WalkEnter(n)
  <2>1. PICK n \in Names : WalkEnter(n)
    BY <1>1
  <2> DEFINE p == Append(Top.dir, n)
  <2>2. /\ spc = "walk" /\ n \in Top.todo
        /\ \/ stack' = Rest(n) /\ UNCHANGED <<spc, cur>>
           \/ /\ cur' = p /\ spc' = "hdr"
              /\ \/ SrcTree[p].kind = "dir" /\ stack' = Append(Rest(n), Frame(p, Children(p)))
                 \/ stack' = Rest(n)
    BY <2>1 DEF WalkEnter, Rest
  <2>3. /\ UNCHANGED <<faults, fwd, rev, rpc, rIn, sent, sBlock, cont, sRes, crcS, sExit, report>>
        /\ UNCHANGED <<unpackVars, readerVars>>
    BY <2>1 DEF WalkEnter, NoFault, unpackVars, fileVars, readerVars
  <2>4. p \in DOMAIN SrcTree /\ p \in Paths
    <3>1. Top.todo \subseteq Children(Top.dir)
      BY <1>t DEF PackInv, Top
    <3>2. n \in Children(Top.dir)
      BY <2>2, <3>1
    <3> QED
      BY <3>2, SourceFacts DEF Children
  <2>5. Frame(p, Children(p)) \in Frames
    BY <2>4 DEF Frame, Frames, Children
  <2> HIDE DEF p
  <2>6. \A k \in 1..Len(stack) :
           /\ Rest(n)[k].todo \subseteq Children(Rest(n)[k].dir)
           /\ k > 1 => /\ Rest(n)[k].dir \in DOMAIN SrcTree
                       /\ SrcTree[Rest(n)[k].dir].kind = "dir"
    <3> SUFFICES ASSUME NEW k \in 1..Len(stack)
                 PROVE  Rest(n)[k].dir = stack[k].dir /\ Rest(n)[k].todo \subseteq stack[k].todo
      BY DEF PackInv
    <3>1. CASE k = Len(stack)
      <4>1. Rest(n)[k] = Frame(stack[k].dir, stack[k].todo \ {n})
        BY <1>t, <3>1, RestFacts DEF Top
      <4> QED
        BY <4>1 DEF Frame
    <3>2. CASE k \in 1..(Len(stack) - 1)
      BY <1>t, <3>2, RestFacts
    <3> QED
      BY <1>t, <3>1, <3>2
  <2>7. /\ stack' \in Seq(Frames) /\ stack' # <<>>
        /\ \A k \in 1..Len(stack') :
              /\ stack'[k].todo \subseteq Children(stack'[k].dir)
              /\ k > 1 => /\ stack'[k].dir \in DOMAIN SrcTree
                          /\ SrcTree[stack'[k].dir].kind = "dir"
    <3>1. Rest(n) \in Seq(Frames) /\ Len(Rest(n)) = Len(stack)
      BY <1>t, RestFacts
    <3>2. CASE stack' = Rest(n)
      <4>1. Rest(n) # <<>>
        BY <1>t, <3>1
      <4> QED
        BY <3>1, <3>2, <4>1, <2>6
    <3>3. CASE SrcTree[p].kind = "dir" /\ stack' = Append(Rest(n), Frame(p, Children(p)))
      <4>1. /\ stack' \in Seq(Frames) /\ stack' # <<>> /\ Len(stack') = Len(stack) + 1
            /\ \A k \in 1..Len(stack) : stack'[k] = Rest(n)[k]
            /\ stack'[Len(stack) + 1] = Frame(p, Children(p))
        BY <2>5, <3>1, <3>3, AppendProperties
      <4>2. ASSUME NEW k \in 1..Len(stack')
            PROVE  /\ stack'[k].todo \subseteq Children(stack'[k].dir)
                   /\ k > 1 => /\ stack'[k].dir \in DOMAIN SrcTree
                               /\ SrcTree[stack'[k].dir].kind = "dir"
        <5>1. CASE k = Len(stack) + 1
          BY <2>4, <3>3, <4>1, <5>1 DEF Frame
        <5>2. CASE k \in 1..Len(stack)
          BY <2>6, <4>1, <5>2
        <5> QED
          BY <1>t, <4>1, <5>1, <5>2
      <4> QED
        BY <4>1, <4>2
    <3> QED
      BY <2>2, <3>2, <3>3
  <2>8. TypeOK'
    BY <2>2, <2>3, <2>4, <2>7
       DEF TypeOK, PackTypeOK, UnpackTypeOK, Frames, unpackVars, treeVars, fileVars,
           countVars, replyVars
  <2>9. PackInv'
    BY <2>2, <2>3, <2>4, <2>7 DEF PackInv, Children
  <2>10. PipeInv' /\ StreamInv'
    BY <2>2, <2>3, AsideKeepsStream DEF SenderAt
  <2> QED
    BY <2>8, <2>9, <2>10
<1>2. CASE WalkLeave
  <2>1. /\ spc = "walk" /\ Len(stack) > 1
        /\ cur' = Top.dir /\ stack' = SubSeq(stack, 1, Len(stack) - 1) /\ spc' = "hdr"
        /\ UNCHANGED <<faults, fwd, rev, rpc, rIn, sent, sBlock, cont, sRes, crcS, sExit, report>>
        /\ UNCHANGED <<unpackVars, readerVars>>
    BY <1>2 DEF WalkLeave, NoFault, unpackVars, fileVars, readerVars
  <2>2. Top.dir \in DOMAIN SrcTree
    BY <1>t, <2>1 DEF PackInv, Top
  <2>3. /\ stack' \in Seq(Frames) /\ Len(stack') = Len(stack) - 1 /\ stack' # <<>>
        /\ \A k \in 1..(Len(stack) - 1) : stack'[k] = stack[k]
    <3>1. \A k \in 1..(Len(stack) - 1) : stack[k] \in Frames
      BY <1>t
    <3>2. /\ SubSeq(stack, 1, Len(stack) - 1) \in Seq(Frames)
          /\ Len(SubSeq(stack, 1, Len(stack) - 1)) = Len(stack) - 1
          /\ \A k \in 1..(Len(stack) - 1) : SubSeq(stack, 1, Len(stack) - 1)[k] = stack[k]
      BY <1>t, <2>1, <3>1, SubSeqProperties
    <3>3. Len(stack') # 0
      BY <1>t, <2>1, <3>2
    <3> QED
      BY <1>t, <2>1, <3>2, <3>3
  <2>4. TypeOK'
    BY <2>1, <2>2, <2>3
       DEF TypeOK, PackTypeOK, UnpackTypeOK, Frames, unpackVars, treeVars, fileVars,
           countVars, replyVars
  <2>5. PackInv'
    <3>1. cur' \in DOMAIN SrcTree /\ spc' = "hdr" /\ cont' = "walk"
      BY <2>1, <2>2 DEF PackInv
    <3>2. ASSUME NEW k \in 1..Len(stack')
          PROVE  /\ stack'[k].todo \subseteq Children(stack'[k].dir)
                 /\ k > 1 => /\ stack'[k].dir \in DOMAIN SrcTree
                             /\ SrcTree[stack'[k].dir].kind = "dir"
      <4>1. k \in 1..Len(stack) /\ stack'[k] = stack[k]
        BY <1>t, <2>3
      <4> QED
        BY <4>1 DEF PackInv
    <3> QED
      BY <3>1, <3>2 DEF PackInv, Children
  <2>6. PipeInv' /\ StreamInv'
    BY <2>1, AsideKeepsStream DEF SenderAt
  <2> QED
    BY <2>4, <2>5, <2>6
<1>3. CASE WalkEnd
  <2>1. /\ spc = "walk" /\ spc' = "end"
        /\ UNCHANGED <<faults, fwd, rev, rpc, rIn, packVars, unpackVars, readerVars>>
    BY <1>3 DEF WalkEnd, NoFault, unpackVars, fileVars, readerVars
  <2>2. TypeOK'
    BY <2>1 DEF TypeOK, PackTypeOK, UnpackTypeOK, packVars, unpackVars, treeVars, fileVars,
                countVars, replyVars
  <2>3. PackInv'
    BY <2>1 DEF PackInv, packVars
  <2>4. PipeInv' /\ StreamInv'
    BY <2>1, AsideKeepsStream DEF SenderAt, packVars
  <2> QED
    BY <2>2, <2>3, <2>4
<1> QED
  BY <1>1, <1>2, <1>3

(* A tag that names an item of an entry. *)
LEMMA TagFacts ==
    ASSUME NEW e \in Entries, NEW j \in Nat \ {0}
    PROVE  Tag(e, j) \in Tags /\ Tag(e, j).e = e /\ Tag(e, j).j = j
  BY DEF Tag, Tags

(* write_all_with_crc() (pack.c:35) of one item of an entry, the place of  *)
(* which the packer's variables tell before and after.                     *)
LEMMA WriteKeepsPack ==
    ASSUME PackOK, UNCHANGED <<unpackVars, rpc, rIn, rev, faults, stack, cur, sRes>>,
           NEW e \in DOMAIN SrcTree, cur = e,
           NEW j \in Nat \ {0}, j <= EntryLen(e),
           NEW item \in Items, item = ItemOf(e, j),
           NEW next \in {"name", "data", "wait"},
           write_all_with_crc(item, next), sent' \in Nat,
           spc \in {"hdr", "name", "data"},
           \A tag : SenderAt(tag) => Follows(tag, Len(crcS) + 1, Tag(e, j)),
           next = "name" => j = 1 /\ sent' = 0,
           next = "data" => j = sent' + 2 /\ j < EntryLen(e),
           next = "wait" => j = EntryLen(e)
    PROVE  PackOK'
<1> USE DEF PackOK
<1>1. /\ crcS' = Append(crcS, item)
      /\ \/ /\ rIn /\ fwd' = Append(fwd, item) /\ Len(fwd) < FwdCap
            /\ spc' = next /\ UNCHANGED <<sBlock, cont>>
         \/ /\ ~rIn /\ UNCHANGED fwd
            /\ spc' = "wait" /\ sBlock' = TRUE /\ cont' = "exit1"
      /\ UNCHANGED <<sExit, report>>
  BY DEF write_all_with_crc, Goto, FwdBroken, CanWrite
<1>2. e \in Entries /\ e # <<>>
  BY SourceFacts DEF Entries
<1>t. crcS \in Seq(Items) /\ fwd \in Seq(Items) /\ Len(fwd) <= FwdCap
  BY DEF TypeOK, PackTypeOK, Checksum
<1>a. FwdCap \in Nat
  BY QfileWireAssumption
<1>3. fwd' \in Seq(Items) /\ Len(fwd') <= FwdCap /\ crcS' \in Seq(Items)
  <2>1. crcS' \in Seq(Items)
    BY <1>1, <1>t
  <2>2. CASE fwd' = Append(fwd, item) /\ Len(fwd) < FwdCap
    <3>1. fwd' \in Seq(Items) /\ Len(fwd') = Len(fwd) + 1
      BY <1>t, <2>2, AppendProperties
    <3> QED
      BY <1>t, <1>a, <2>1, <2>2, <3>1
  <2> QED
    BY <1>1, <1>t, <2>1, <2>2
<1>c. spc' \in {"name", "data", "wait"} /\ sBlock' \in BOOLEAN
      /\ cont' \in {"walk", "exit1", "exit0"}
  BY <1>1 DEF TypeOK, PackTypeOK
<1>4. TypeOK'
  BY <1>1, <1>3, <1>c DEF TypeOK, PackTypeOK, UnpackTypeOK, Checksum, unpackVars, treeVars, fileVars,
                    countVars, replyVars
<1>5. PackInv'
  BY <1>1 DEF PackInv
<1>6. PipeInv' /\ StreamInv'
  <2>1. PICK tag \in Seq(Tags) : Tagged(tag) /\ SenderAt(tag) /\ ReaderAt(tag)
    BY DEF StreamInv
  <2> DEFINE t == Tag(e, j)
  <2>2. t \in Tags /\ t.e = e /\ t.j = j
    BY <1>2, TagFacts
  <2>3. Follows(tag, Len(crcS) + 1, t)
    BY <2>1
  <2>4. SenderPlace(t)'
    BY <1>1, <1>2, <2>2 DEF SenderPlace, PackInv
  <2>5. UNCHANGED readerVars
    BY DEF readerVars, unpackVars, fileVars
  <2>6. /\ crcS \in Seq(Items) /\ fwd \in Seq(Items) /\ crcR \in Seq(Items)
        /\ rIn \in BOOLEAN
    BY DEF TypeOK, PackTypeOK, UnpackTypeOK, Checksum
  <2> HIDE DEF t
  <2> QED
    BY <1>1, <2>1, <2>2, <2>3, <2>4, <2>5, <2>6, WriteKeepsStream
<1> QED
  BY <1>4, <1>5, <1>6

(* single_file_processor() sends header, name and data in this order, as   *)
(* much data as the header announced.                                      *)
LEMMA SendKeepsPack ==
    ASSUME PackOK, UNCHANGED unpackVars,
           SendHeader \/ SendName \/ SendChunk \/ SendTarget
    PROVE  PackOK'
<1> USE DEF PackOK
<1>1. PICK e : e = cur
  OBVIOUS
<1>2. e \in DOMAIN SrcTree
  BY <1>1 DEF PackInv, SendHeader, SendName, SendChunk, SendTarget
<1>3. PICK n : n = sent
  OBVIOUS
<1>4. n \in Nat /\ Len(crcS) \in Nat
  BY <1>3 DEF TypeOK, PackTypeOK, Checksum
<1>5. UNCHANGED <<unpackVars, rpc, rIn, rev, faults, stack, cur, sRes>>
  BY DEF SendHeader, SendName, SendChunk, SendTarget, NoFault
<1>6. e \in Entries /\ e # <<>> /\ EntryLen(e) \in Nat \ {0, 1}
  BY <1>2, SourceFacts DEF Entries
<1>h. CASE SendHeader
  <2>1. PICK item : item = HeaderOf(e)
    OBVIOUS
  <2>2. item \in Items /\ item = ItemOf(e, 1)
    BY <1>2, <1>6, <2>1, ItemTypes DEF ItemOf, Items
  <2>3. spc = "hdr" /\ write_all_with_crc(item, "name") /\ sent' = 0
    BY <1>1, <1>h, <2>1 DEF SendHeader
  <2>4. ASSUME NEW tag, SenderAt(tag) PROVE Follows(tag, Len(crcS) + 1, Tag(e, 1))
    BY <1>4, <1>6, <2>3, <2>4, TagFacts DEF SenderAt, Follows, AtEntry
  <2> QED
    BY <1>1, <1>2, <1>5, <1>6, <2>2, <2>3, <2>4, WriteKeepsPack
<1>n. CASE SendName
  <2>1. PICK item : item = NameItem(e)
    OBVIOUS
  <2>2. item \in Items /\ item = ItemOf(e, 2)
    <3>1. ItemOf(e, 2) = NameItem(e)
      BY <1>6 DEF ItemOf
    <3> QED
      BY <1>2, <2>1, <3>1, ItemTypes
  <2>3. spc = "name" /\ sent' = n
    BY <1>n, <1>3 DEF SendName
  <2>4. PICK next : next = AfterName(e)
    OBVIOUS
  <2>5. /\ next \in {"data", "wait"} /\ (next = "wait" => 2 = EntryLen(e))
        /\ (next = "data" => 2 < EntryLen(e))
    BY <1>2, <1>6, <2>4, SourceFacts DEF AfterName
  <2>6. write_all_with_crc(item, next)
    BY <1>1, <1>n, <2>1, <2>4 DEF SendName
  <2>7. ASSUME NEW tag, SenderAt(tag) PROVE Follows(tag, Len(crcS) + 1, Tag(e, 2))
    BY <1>1, <1>4, <1>6, <2>3, <2>7, TagFacts DEF SenderAt, Follows
  <2>8. sent = 0
    BY <2>3 DEF PackInv
  <2> QED
    BY <1>1, <1>2, <1>3, <1>5, <1>6, <2>2, <2>3, <2>5, <2>6, <2>7, <2>8, WriteKeepsPack
<1>d. CASE SendChunk
  <2>1. PICK item : item = DataItem(SrcTree[e].content[n + 1])
    OBVIOUS
  <2>2. spc = "data" /\ sent' = n + 1 /\ SrcTree[e].kind = "reg"
    BY <1>1, <1>3, <1>d DEF SendChunk
  <2>3. n + 2 < EntryLen(e) /\ EntryLen(e) = 2 + FileLen(e)
    <3>1. PICK tag \in Seq(Tags) : SenderAt(tag)
      BY DEF StreamInv
    <3> QED
      BY <1>1, <1>2, <1>3, <2>2, <3>1, SourceFacts DEF SenderAt
  <2>4. item \in Items /\ item = ItemOf(e, n + 3)
    <3>1. ItemOf(e, n + 3) = DataItem(SrcTree[e].content[n + 1])
      <4>1. n + 3 # 1 /\ n + 3 # 2 /\ (n + 3) - 2 = n + 1
        BY <1>4
      <4> QED
        BY <1>6, <2>2, <4>1 DEF ItemOf
    <3>2. n + 1 \in 1..FileLen(e)
      BY <1>2, <1>4, <2>3, SourceFacts
    <3> QED
      BY <1>2, <2>1, <2>2, <3>1, <3>2, ItemTypes
  <2>5. PICK next : next = IF n + 1 = FileLen(e) THEN "wait" ELSE "data"
    OBVIOUS
  <2>6. /\ next \in {"data", "wait"} /\ (next = "wait" => n + 3 = EntryLen(e))
        /\ (next = "data" => n + 3 < EntryLen(e)) /\ n + 3 <= EntryLen(e)
    BY <1>2, <1>4, <1>6, <2>3, <2>5, SourceFacts
  <2>7. write_all_with_crc(item, next)
    BY <1>1, <1>3, <1>d, <2>1, <2>5 DEF SendChunk
  <2>8. ASSUME NEW tag, SenderAt(tag) PROVE Follows(tag, Len(crcS) + 1, Tag(e, n + 3))
    <3>1. Tag(e, n + 3).e = e /\ Tag(e, n + 3).j = n + 3
      BY <1>4, <1>6, TagFacts
    <3>2. Len(crcS) > 0 /\ tag[Len(crcS)] = Tag(e, n + 2)
      BY <1>1, <1>3, <2>2, <2>8 DEF SenderAt
    <3>3. (n + 3) - 1 = n + 2 /\ (Len(crcS) + 1) - 1 = Len(crcS) /\ n + 3 > 1
      BY <1>4
    <3> QED
      BY <1>4, <3>1, <3>2, <3>3 DEF Follows
  <2> QED
    BY <1>1, <1>2, <1>4, <1>5, <1>6, <2>2, <2>4, <2>6, <2>7, <2>8, WriteKeepsPack
<1>l. CASE SendTarget
  <2>1. PICK item : item = LinkItem(SrcTree[e].target)
    OBVIOUS
  <2>2. spc = "data" /\ sent' = n /\ SrcTree[e].kind = "link"
    BY <1>1, <1>3, <1>l DEF SendTarget
  <2>3. n = 0 /\ EntryLen(e) = 3
    <3>1. PICK tag \in Seq(Tags) : SenderAt(tag)
      BY DEF StreamInv
    <3> QED
      BY <1>1, <1>2, <1>3, <1>4, <2>2, <3>1, SourceFacts DEF SenderAt
  <2>4. item \in Items /\ item = ItemOf(e, 3)
    <3>1. ItemOf(e, 3) = LinkItem(SrcTree[e].target)
      BY <1>6, <2>2 DEF ItemOf
    <3> QED
      BY <1>2, <2>1, <2>2, <3>1, ItemTypes
  <2>5. write_all_with_crc(item, "wait")
    BY <1>1, <1>l, <2>1 DEF SendTarget
  <2>6. ASSUME NEW tag, SenderAt(tag) PROVE Follows(tag, Len(crcS) + 1, Tag(e, 3))
    BY <1>1, <1>3, <1>4, <1>6, <2>2, <2>3, <2>6, TagFacts DEF SenderAt, Follows
  <2> QED
    BY <1>1, <1>2, <1>4, <1>5, <1>6, <2>2, <2>3, <2>4, <2>5, <2>6, WriteKeepsPack
<1> QED
  BY <1>h, <1>n, <1>d, <1>l

(* The end marker follows the last entry, and nothing follows it           *)
(* (pack.c notify_end_and_wait_for_result).                                *)
LEMMA EndKeepsPack ==
    ASSUME PackOK, UNCHANGED unpackVars, NotifyEnd
    PROVE  PackOK'
<1> USE DEF PackOK
<1>1. /\ spc = "end" /\ spc' = "wait" /\ sBlock' = TRUE /\ cont' = "exit0"
      /\ crcS' = Append(crcS, EndMarker)
      /\ \/ rIn /\ Len(fwd) < FwdCap /\ fwd' = Append(fwd, EndMarker)
         \/ ~rIn /\ UNCHANGED fwd
      /\ UNCHANGED <<sExit, report, faults, rev, rpc, rIn, stack, cur, sent, sRes>>
  BY DEF NotifyEnd, Goto, NoFault, FwdBroken, CanWrite
<1>t. /\ crcS \in Seq(Items) /\ fwd \in Seq(Items) /\ Len(fwd) <= FwdCap
      /\ crcR \in Seq(Items) /\ rIn \in BOOLEAN /\ FwdCap \in Nat
  BY QfileWireAssumption DEF TypeOK, PackTypeOK, UnpackTypeOK, Checksum
<1>2. crcS' \in Seq(Items) /\ fwd' \in Seq(Items) /\ Len(fwd') <= FwdCap
  <2>1. crcS' \in Seq(Items)
    BY <1>1, <1>t, MarkerType, AppendProperties
  <2>2. ASSUME fwd' = Append(fwd, EndMarker), Len(fwd) < FwdCap
        PROVE  fwd' \in Seq(Items) /\ Len(fwd') <= FwdCap
    <3>1. fwd' \in Seq(Items) /\ Len(fwd') = Len(fwd) + 1
      BY <1>t, <2>2, MarkerType, AppendProperties
    <3> QED
      BY <1>t, <2>2, <3>1
  <2> QED
    BY <1>1, <1>t, <2>1, <2>2
<1>3. TypeOK'
  BY <1>1, <1>2 DEF TypeOK, PackTypeOK, UnpackTypeOK, Checksum, unpackVars, treeVars,
                    fileVars, countVars, replyVars
<1>4. PackInv'
  BY <1>1 DEF PackInv
<1>5. PipeInv' /\ StreamInv'
  <2>1. PICK tag \in Seq(Tags) : Tagged(tag) /\ SenderAt(tag) /\ ReaderAt(tag)
    BY DEF StreamInv
  <2> DEFINE t == Tag(<<>>, 1)
  <2>2. t \in Tags /\ t.e = <<>> /\ t.j = 1 /\ EntryLen(<<>>) = 1
    BY TagFacts DEF Entries, EntryLen
  <2>3. Follows(tag, Len(crcS) + 1, t)
    BY <1>1, <1>t, <2>1, <2>2 DEF SenderAt, AtEntry, Follows
  <2>4. SenderPlace(t)'
    BY <1>1 DEF SenderPlace
  <2>5. UNCHANGED readerVars
    BY <1>1 DEF readerVars, unpackVars, fileVars
  <2>6. EndMarker \in Items /\ EndMarker = ItemOf(t.e, t.j)
    BY <2>2, MarkerType DEF ItemOf
  <2> HIDE DEF t
  <2> QED
    BY <1>1, <1>t, <2>1, <2>2, <2>3, <2>4, <2>5, <2>6, WriteKeepsStream
<1> QED
  BY <1>3, <1>4, <1>5

(* Waiting for the result, giving up and being killed write nothing; the   *)
(* walk goes on only where it stopped.                                     *)
LEMMA WaitKeepsPack ==
    ASSUME PackOK, AgreementInv, UNCHANGED unpackVars,
           \/ NoResultYet \/ ResultEof \/ ReadResult \/ ReadExt
           \/ LocalError \/ KillPacker
    PROVE  PackOK'
<1> USE DEF PackOK
<1>t. TypeOK
  OBVIOUS
<1>1. /\ UNCHANGED <<fwd, rpc, rIn, stack, cur, sent, cont, crcS>>
      /\ faults' \in 0..MaxFaults
  BY <1>t, QfileWireAssumption
     DEF NoResultYet, ResultEof, ReadResult, ReadExt, LocalError, KillPacker,
         NoFault, Fault, TypeOK
<1>2. \/ spc' = "exit"
      \/ spc' = "walk" /\ spc \in {"wait", "ext"} /\ cont = "walk"
      \/ spc' = "ext" /\ spc = "wait"
  BY DEF NoResultYet, ResultEof, ReadResult, ReadExt, LocalError, KillPacker,
         Return, Judge, call_error_handler, Exit, Goto
<1>3. sExit' \in {-1, 0, 1} /\ report' \in Reports
  <2>1. \A code : ErrorText(code) \in Reports
    BY Zenon DEF ErrorText, Reports
  <2>2. \/ UNCHANGED <<sExit, report>>
        \/ \E code \in {0, 1}, why \in Reports : Exit(code, why)
    <3> HIDE DEF PackOK
    <3>1. Return => UNCHANGED <<sExit, report>> \/ \E code \in {0, 1}, why \in Reports : Exit(code, why)
      BY DEF Return, Goto, Reports
    <3>2. Judge => Return \/ \E why \in Reports : Exit(1, why)
      BY <2>1 DEF Judge, call_error_handler, Reports
    <3>3. ResultEof \/ LocalError \/ KillPacker => \E why \in Reports : Exit(1, why)
      BY DEF ResultEof, LocalError, KillPacker, call_error_handler, Reports
    <3> QED
      BY <3>1, <3>2, <3>3 DEF NoResultYet, ReadResult, ReadExt
  <2> QED
    BY <2>2 DEF Exit, TypeOK, PackTypeOK
<1>4. /\ rev' \in Seq(Replies) /\ Len(rev') <= RevCap
      /\ sRes' \in Replies \ {Ext} /\ sBlock' \in BOOLEAN
  <2>1. CASE UNCHANGED <<rev, sRes, sBlock>>
    BY <2>1 DEF TypeOK, PackTypeOK
  <2>2. rev \in Seq(Replies) /\ Len(rev) <= RevCap /\ RevCap \in Nat
    BY QfileWireAssumption DEF TypeOK
  <2>3. rev # <<>> => Tail(rev) \in Seq(Replies) /\ Len(Tail(rev)) <= RevCap /\ Head(rev) \in Replies
    BY <2>2, HeadTailProperties
  <2>4. CASE ReadResult
    <3>1. Head(rev) = TheResult
      <4>1. \/ rev = <<TheResult>>
            \/ rev = <<TheResult, Ext>>
        BY <2>4 DEF ReadResult, AgreementInv, ReplyIsVerdict
      <4> QED
        BY <4>1, Zenon, ReplyPipe
    <3>2. TheResult # Ext
      <4>1. TheResult.t = "result" /\ Ext.t = "ext"
        BY DEF TheResult, Result, Ext
      <4> QED
        BY <4>1
    <3> QED
      BY <2>3, <2>4, <3>1, <3>2 DEF ReadResult
  <2>5. CASE ReadExt
    BY <2>2, <2>3, <2>5 DEF ReadExt, TypeOK, PackTypeOK
  <2> QED
    BY <2>1, <2>4, <2>5 DEF NoResultYet, ResultEof, LocalError, KillPacker
<1>5. TypeOK'
  BY <1>1, <1>2, <1>3, <1>4
     DEF TypeOK, PackTypeOK, UnpackTypeOK, Checksum, unpackVars, treeVars,
         fileVars, countVars, replyVars
<1>6. PackInv'
  BY <1>1, <1>2 DEF PackInv
<1>7. UNCHANGED readerVars
  BY <1>1 DEF readerVars, unpackVars, fileVars
<1>8. ASSUME NEW tag, SenderAt(tag) PROVE SenderAt(tag)'
  BY <1>1, <1>2, <1>8 DEF SenderAt
<1> QED
  BY <1>1, <1>5, <1>6, <1>7, <1>8, AsideKeepsStream

(***************************************************************************)
(* The receiving directory                                                 *)
(***************************************************************************)

(* A node is what MkNode() makes of its fields.                            *)
LEMMA NodeFields ==
    ASSUME NEW node \in Node
    PROVE  /\ node.kind \in {"none", "dir", "reg", "link"}
           /\ node.perm \in {"none", "rwx", "final"}
           /\ node.size \in Nat
           /\ node.content \in Seq(Chunks)
           /\ node.target \in Seq(Components)
           /\ node = MkNode(node.kind, node.perm, node.size, node.content, node.target)
  BY DEF Node, MkNode

(* And gives them back.                                                    *)
LEMMA MkNodeFields ==
    ASSUME NEW kind, NEW perm, NEW size, NEW content, NEW target
    PROVE  /\ MkNode(kind, perm, size, content, target).kind = kind
           /\ MkNode(kind, perm, size, content, target).perm = perm
           /\ MkNode(kind, perm, size, content, target).size = size
           /\ MkNode(kind, perm, size, content, target).content = content
           /\ MkNode(kind, perm, size, content, target).target = target
  BY DEF MkNode

(* What unpack.c creates is a node.                                        *)
LEMMA MkNodeType ==
    ASSUME NEW kind \in {"none", "dir", "reg", "link"}, NEW perm \in {"none", "rwx", "final"},
           NEW size \in Nat, NEW content \in Seq(Chunks), NEW target \in Seq(Components)
    PROVE  MkNode(kind, perm, size, content, target) \in Node
  BY DEF Node, MkNode

(* Storing one object leaves the others alone.                             *)
LEMMA PutFacts ==
    ASSUME NEW tree \in [Paths -> Node], NEW p \in Paths, NEW node \in Node
    PROVE  /\ Put(tree, p, node) \in [Paths -> Node]
           /\ Put(tree, p, node)[p] = node
           /\ \A q \in Paths \ {p} : Put(tree, p, node)[q] = tree[q]
           /\ (\A q \in Paths : WellFormed(tree[q])) /\ WellFormed(node) =>
                \A q \in Paths : WellFormed(Put(tree, p, node)[q])
  BY DEF Put

(* fchmod() and write() change one field of one node.                      *)
LEMMA ExceptIsPut ==
    ASSUME NEW tree \in [Paths -> Node], NEW p \in Paths, NEW c
    PROVE  /\ [tree EXCEPT ![p].perm = "final"] =
                Put(tree, p, MkNode(tree[p].kind, "final", tree[p].size,
                                    tree[p].content, tree[p].target))
           /\ [tree EXCEPT ![p].content = c] =
                Put(tree, p, MkNode(tree[p].kind, tree[p].perm, tree[p].size,
                                    c, tree[p].target))
<1>1. PICK k, pe, s, co, ta :
        tree[p] = [kind |-> k, perm |-> pe, size |-> s, content |-> co, target |-> ta]
  BY NodeFields DEF MkNode
<1>2. tree[p].kind = k /\ tree[p].perm = pe /\ tree[p].size = s
      /\ tree[p].content = co /\ tree[p].target = ta
  BY <1>1
<1>3. [tree[p] EXCEPT !.perm = "final"] = MkNode(k, "final", s, co, ta)
  BY <1>1 DEF MkNode
<1>4. [tree[p] EXCEPT !.content = c] = MkNode(k, pe, s, c, ta)
  BY <1>1 DEF MkNode
<1> QED
  BY <1>2, <1>3, <1>4 DEF Put

(***************************************************************************)
(* Reading an item                                                         *)
(***************************************************************************)

(* What a read finds at the head of the pipe, as long as it has its place. *)
LEMMA HeadFacts ==
    ASSUME TypeOK, PipeInv, rIn, fwd # <<>>
    PROVE  /\ Head(fwd) \in Items
           /\ Tail(fwd) \in Seq(Items) /\ Len(Tail(fwd)) <= FwdCap
           /\ Len(fwd) \in Nat \ {0} /\ Len(Tail(fwd)) = Len(fwd) - 1
           /\ \A i \in 1..Len(Tail(fwd)) : Tail(fwd)[i] = fwd[i + 1]
           /\ Len(crcR) \in Nat /\ Len(crcS) \in Nat
           /\ slip = 0 => /\ Len(crcR) \in 0..(Len(crcS) - 1)
                          /\ Like(Head(fwd), crcS[Len(crcR) + 1])
<1> DEFINE k == Len(crcR)
<1>1. /\ fwd \in Seq(Items) /\ Len(fwd) <= FwdCap /\ FwdCap \in Nat
      /\ crcR \in Seq(Items) /\ crcS \in Seq(Items)
  BY QfileWireAssumption DEF TypeOK, PackTypeOK, UnpackTypeOK, Checksum
<1>2. /\ Head(fwd) \in Items /\ Head(fwd) = fwd[1]
      /\ Tail(fwd) \in Seq(Items) /\ Len(Tail(fwd)) = Len(fwd) - 1
      /\ \A i \in 1..Len(Tail(fwd)) : Tail(fwd)[i] = fwd[i + 1]
      /\ Len(fwd) \in Nat \ {0}
  BY <1>1, HeadTailProperties
<1>3. k \in Nat /\ Len(crcS) \in Nat
  BY <1>1
<1>4. ASSUME slip = 0
      PROVE  k \in 0..(Len(crcS) - 1) /\ Like(Head(fwd), crcS[k + 1])
  <2>1. /\ Len(crcS) = k + Len(fwd)
        /\ \A i \in 1..Len(fwd) : Like(fwd[i], crcS[k + i])
    BY <1>4 DEF PipeInv
  <2>2. Like(fwd[1], crcS[k + 1])
    BY <1>2, <2>1
  <2> QED
    BY <1>2, <1>3, <2>1, <2>2
<1> QED
  BY <1>1, <1>2, <1>3, <1>4

(* What a read gives has the type and the length that was asked for.       *)
LEMMA IncomingFacts ==
    ASSUME TypeOK, PipeInv, Receive, NEW item \in Incoming
    PROVE  /\ item \in Items /\ Fits(item)
           /\ rpc = "hdr" => item \in Headers
           /\ rpc = "name" => item.name \in Paths
           /\ rpc = "data" => item.v \in Chunks
           /\ rpc = "target" =>
                item.v \in Seq(Components) /\ Len(item.v) <= hdr.filelen
<1>1. item \in Items /\ Fits(item)
  BY HeadFacts, GarbageAssumption DEF Receive, Incoming, Placed
<1>2. item.t = rpc /\ (rpc = "target" => item.len = hdr.filelen)
  BY <1>1 DEF Fits
<1>3. CASE item \in Headers
  BY <1>1, <1>2, <1>3 DEF Headers
<1>4. CASE item \in [t : {"name"}, name : Paths, len : Nat]
  BY <1>1, <1>2, <1>4
<1>5. CASE item \in [t : {"data"}, v : Chunks]
  BY <1>1, <1>2, <1>5
<1>6. CASE item \in Targets
  <2>1. item.t = "target" /\ item.v \in Seq(Components) /\ Len(item.v) <= item.len
    BY <1>6 DEF Targets
  <2> QED
    BY <1>1, <1>2, <2>1
<1> QED
  BY <1>1, <1>3, <1>4, <1>5, <1>6 DEF Items

(* read_all_with_crc(): in its place it returns the item that is due,      *)
(* garbled perhaps; once it has lost its place it never finds it again.    *)
LEMMA ReceiveFacts ==
    ASSUME TypeOK, PipeInv, Receive
    PROVE  /\ rIn /\ fwd # <<>> /\ Reading
           /\ fwd' \in Seq(Items) /\ Len(fwd') <= FwdCap
           /\ crcR' \in Seq(Items) /\ slip' \in 0..MaxReads
           /\ UNCHANGED crcS /\ rIn' \in BOOLEAN => PipeInv'
           /\ Placed => /\ slip = 0 /\ slip' = 0
                        /\ Incoming = {Head(fwd)}
                        /\ Len(crcR) \in 0..(Len(crcS) - 1)
                        /\ Len(crcR') = Len(crcR) + 1
                        /\ \A i \in 1..Len(crcR) : crcR'[i] = crcR[i]
                        /\ crcR'[Len(crcR) + 1] = Head(fwd)
                        /\ Like(Head(fwd), crcS[Len(crcR) + 1])
           /\ ~Placed => UNCHANGED crcR /\ slip' # 0
<1> DEFINE k == Len(crcR)
<1>1. /\ fwd \in Seq(Items) /\ Len(fwd) <= FwdCap /\ fwd # <<>>
      /\ crcR \in Seq(Items) /\ crcS \in Seq(Items) /\ rIn /\ Reading
      /\ slip \in 0..MaxReads /\ MaxReads \in Nat \ {0}
  BY QfileWireAssumption DEF TypeOK, PackTypeOK, UnpackTypeOK, Checksum, Receive
<1>2. /\ Head(fwd) \in Items
      /\ Tail(fwd) \in Seq(Items) /\ Len(Tail(fwd)) <= FwdCap
      /\ Len(fwd) \in Nat \ {0} /\ Len(Tail(fwd)) = Len(fwd) - 1
      /\ \A i \in 1..Len(Tail(fwd)) : Tail(fwd)[i] = fwd[i + 1]
      /\ k \in Nat /\ Len(crcS) \in Nat
      /\ slip = 0 => k \in 0..(Len(crcS) - 1) /\ Like(Head(fwd), crcS[k + 1])
  BY <1>1, HeadFacts
<1>3. /\ fwd' = Tail(fwd) \/ fwd' = fwd
      /\ slip' = slip \/ slip' = 1 \/ (slip < MaxReads /\ slip' = slip + 1)
  BY DEF Receive
<1>4. fwd' \in Seq(Items) /\ Len(fwd') <= FwdCap /\ slip' \in 0..MaxReads
  <2>1. fwd' \in Seq(Items) /\ Len(fwd') <= FwdCap
    BY <1>1, <1>2, <1>3
  <2>2. slip' \in 0..MaxReads
    BY <1>1, <1>3
  <2> QED
    BY <2>1, <2>2
<1>5. CASE ~Placed
  <2>1. UNCHANGED crcR /\ slip' # 0
    BY <1>1, <1>5 DEF Receive
  <2>2. UNCHANGED crcS /\ rIn' \in BOOLEAN => PipeInv'
    BY <2>1 DEF PipeInv
  <2> QED
    BY <1>1, <1>4, <1>5, <2>1, <2>2
<1>6. CASE Placed
  <2>1. /\ slip = 0 /\ slip' = 0 /\ Incoming = {Head(fwd)}
        /\ fwd' = Tail(fwd) /\ crcR' = Append(crcR, Head(fwd))
    BY <1>6 DEF Receive, Placed, Incoming
  <2>2. /\ crcR' \in Seq(Items) /\ Len(crcR') = k + 1
        /\ crcR'[k + 1] = Head(fwd)
        /\ \A i \in 1..k : crcR'[i] = crcR[i]
    BY <1>1, <1>2, <2>1, AppendProperties
  <2>3. ASSUME UNCHANGED crcS, rIn' \in BOOLEAN PROVE PipeInv'
    <3>1. /\ Len(crcS) = k + Len(fwd)
          /\ \A i \in 1..Len(fwd) : Like(fwd[i], crcS[k + i])
      BY <1>1, <2>1 DEF PipeInv
    <3>2. ASSUME NEW i \in 1..Len(fwd') PROVE Like(fwd'[i], crcS'[Len(crcR') + i])
      <4>1. Len(fwd') = Len(fwd) - 1 /\ fwd'[i] = fwd[i + 1]
        BY <1>2, <2>1, Zenon
      <4>2. i + 1 \in 1..Len(fwd) /\ k + (i + 1) = (k + 1) + i
        BY <1>2, <4>1, SMT
      <4>3. Like(fwd[i + 1], crcS[k + (i + 1)])
        BY <3>1, <4>2
      <4> QED
        BY <2>2, <2>3, <4>1, <4>2, <4>3
    <3>3. Len(crcS') = Len(crcR') + Len(fwd') /\ Len(crcR') <= Len(crcS')
      <4>1. Len(crcS') = Len(crcS)
        BY <2>3
      <4> QED
        BY <1>2, <2>1, <2>2, <3>1, <4>1
    <3> QED
      BY <3>2, <3>3 DEF PipeInv
  <2> QED
    BY <1>1, <1>2, <1>4, <1>6, <2>1, <2>2, <2>3
<1> QED
  BY <1>5, <1>6

(* The item after position k, by where position k is in its entry.         *)
LEMMA NextTag ==
    ASSUME NEW tag, Tagged(tag), crcS \in Seq(Items), NEW k \in 0..(Len(crcS) - 1)
    PROVE  /\ tag[k + 1] \in Tags
           /\ crcS[k + 1] = ItemOf(tag[k + 1].e, tag[k + 1].j)
           /\ AtEntry(tag, k) => tag[k + 1].j = 1
           /\ k > 0 /\ tag[k].j = EntryLen(tag[k].e) => tag[k + 1].j = 1
           /\ k > 0 /\ tag[k].j < EntryLen(tag[k].e) =>
                tag[k + 1] = Tag(tag[k].e, tag[k].j + 1)
<1>1. k + 1 \in 1..Len(crcS) /\ (k + 1) - 1 = k /\ Len(tag) = Len(crcS)
  BY DEF Tagged
<1> DEFINE t == tag[k + 1]
<1>2. t \in Tags /\ crcS[k + 1] = ItemOf(t.e, t.j) /\ Follows(tag, k + 1, t)
      /\ t.j <= EntryLen(t.e)
  BY <1>1 DEF Tagged
<1>3. t = Tag(t.e, t.j) /\ t.e \in Entries /\ t.j \in Nat \ {0}
  BY <1>2 DEF Tags, Tag
<1>4. \/ t.j = 1 /\ AtEntry(tag, k)
      \/ k > 0 /\ t.j > 1 /\ tag[k] = Tag(t.e, t.j - 1)
  BY <1>1, <1>2 DEF Follows
<1> HIDE DEF t
<1>5. ASSUME k > 0, t.j > 1, tag[k] = Tag(t.e, t.j - 1)
      PROVE  tag[k].e = t.e /\ tag[k].j = t.j - 1
  BY <1>3, <1>5, TagFacts
<1>6. \A e \in Entries : EntryLen(e) \in Nat
  BY SourceFacts DEF EntryLen, Entries
<1>7. AtEntry(tag, k) => t.j = 1
  BY <1>2, <1>3, <1>4, <1>5, <1>6 DEF AtEntry
<1>8. k > 0 /\ tag[k].j = EntryLen(tag[k].e) => t.j = 1
  BY <1>2, <1>3, <1>4, <1>5, <1>6
<1>9. ASSUME k > 0, tag[k].j < EntryLen(tag[k].e)
      PROVE  t = Tag(tag[k].e, tag[k].j + 1)
  <2>1. tag[k] \in Tags
    BY <1>1, <1>9 DEF Tagged
  <2>2. ~AtEntry(tag, k)
    BY <1>9, <1>6, <2>1 DEF AtEntry, Tags
  <2>3. tag[k].e = t.e /\ tag[k].j + 1 = t.j
    BY <1>3, <1>4, <1>5, <2>2
  <2> QED
    BY <1>3, <2>3
<1> QED
  BY <1>2, <1>7, <1>8, <1>9 DEF t

(***************************************************************************)
(* What is due                                                             *)
(***************************************************************************)

(* A read of an unpacker that has its place. *)
Due == Reading /\ rIn /\ fwd # <<>> /\ Steady

(* The last item read belongs to an entry of the source.                   *)
LEMMA EntryAt ==
    ASSUME PackOK, NEW tag, Tagged(tag), Len(crcR) > 0, tag[Len(crcR)].e # <<>>
    PROVE  /\ tag[Len(crcR)].e \in DOMAIN SrcTree
           /\ tag[Len(crcR)] = Tag(tag[Len(crcR)].e, tag[Len(crcR)].j)
           /\ crcS[Len(crcR)] = ItemOf(tag[Len(crcR)].e, tag[Len(crcR)].j)
           /\ tag[Len(crcR)].j <= EntryLen(tag[Len(crcR)].e)
           /\ tag[Len(crcR)].j \in Nat \ {0}
<1> DEFINE k == Len(crcR)
<1>1. k \in Nat /\ Len(crcR) <= Len(crcS) /\ Len(crcS) \in Nat
  BY DEF PackOK, TypeOK, PackTypeOK, UnpackTypeOK, Checksum, PipeInv
<1>2. k \in 1..Len(crcS)
  BY <1>1
<1>3. tag[k] \in Tags /\ crcS[k] = ItemOf(tag[k].e, tag[k].j) /\ tag[k].j <= EntryLen(tag[k].e)
  BY <1>2 DEF Tagged
<1> QED
  BY <1>3 DEF Tags, Tag, Entries

(* The next item has the type that is asked for and the length that was    *)
(* announced: do_unpack_ext() finds a header, or the marker.               *)
LEMMA HeaderIsDue ==
    ASSUME PackOK, Due, rpc = "hdr", NEW tag, Tagged(tag), ReaderAt(tag)
    PROVE  /\ Placed
           /\ tag[Len(crcR) + 1] \in Tags /\ tag[Len(crcR) + 1].j = 1
           /\ crcS[Len(crcR) + 1] = ItemOf(tag[Len(crcR) + 1].e, 1)
           /\ tag[Len(crcR) + 1].e = <<>> <=> crcS[Len(crcR) + 1].namelen = 0
<1> USE DEF PackOK
<1> DEFINE k == Len(crcR)
           t == tag[k + 1]
<1>1. AtEntry(tag, k) /\ slip = 0
  BY DEF ReaderAt, Due
<1>2. /\ k \in 0..(Len(crcS) - 1) /\ crcS \in Seq(Items)
      /\ Like(Head(fwd), crcS[k + 1])
  BY <1>1, HeadFacts DEF TypeOK, PackTypeOK, Checksum, Due
<1>3. t \in Tags /\ t.j = 1 /\ crcS[k + 1] = ItemOf(t.e, 1)
  BY <1>1, <1>2, NextTag
<1>4. t.e \in Entries
  BY <1>3 DEF Tags
<1> HIDE DEF t
<1>5. crcS[k + 1].t = "hdr" /\ (t.e = <<>> <=> crcS[k + 1].namelen = 0)
  <2>1. CASE t.e = <<>>
    BY <1>3, <2>1, MarkerType DEF ItemOf
  <2>2. CASE t.e # <<>>
    <3>1. crcS[k + 1] = HeaderOf(t.e) /\ t.e \in DOMAIN SrcTree
      BY <1>3, <1>4, <2>2 DEF ItemOf, Entries
    <3> QED
      BY <2>2, <3>1, ItemTypes
  <2> QED
    BY <2>1, <2>2
<1>6. Placed
  BY <1>1, <1>2, <1>5 DEF Like, Placed, Fits
<1> QED
  BY <1>3, <1>5, <1>6 DEF t

(* After a header comes the name of the entry that it announced.           *)
LEMMA NameIsDue ==
    ASSUME PackOK, Due, rpc = "name", NEW tag, Tagged(tag), ReaderAt(tag)
    PROVE  /\ Placed
           /\ tag[Len(crcR) + 1] = Tag(tag[Len(crcR)].e, 2)
           /\ crcS[Len(crcR) + 1] = NameItem(tag[Len(crcR)].e)
<1> USE DEF PackOK
<1> DEFINE k == Len(crcR)
<1>1. PICK e : e = tag[k].e
  OBVIOUS
<1>2. k > 0 /\ tag[k].j = 1 /\ e # <<>> /\ hdr = HeaderOf(e) /\ slip = 0
  BY <1>1 DEF ReaderAt, ReaderPlace, Due
<1>3. /\ k \in 0..(Len(crcS) - 1) /\ crcS \in Seq(Items)
      /\ Like(Head(fwd), crcS[k + 1])
  BY <1>2, HeadFacts DEF TypeOK, PackTypeOK, Checksum, Due
<1>4. e \in DOMAIN SrcTree
  BY <1>1, <1>2, EntryAt
<1>5. tag[k].j < EntryLen(e)
  BY <1>2, <1>4, SourceFacts
<1>6. tag[k + 1] = Tag(e, 2) /\ crcS[k + 1] = ItemOf(tag[k + 1].e, tag[k + 1].j)
  BY <1>1, <1>2, <1>3, <1>5, NextTag
<1>7. crcS[k + 1] = NameItem(e)
  <2>1. Tag(e, 2).e = e /\ Tag(e, 2).j = 2
    BY <1>4, TagFacts DEF Entries
  <2>2. ItemOf(e, 2) = NameItem(e)
    BY <1>2 DEF ItemOf
  <2> QED
    BY <1>6, <2>1, <2>2
<1>8. Placed
  <2>1. NameItem(e).t = "name" /\ NameItem(e).len = NameLen(e)
    BY DEF NameItem
  <2>2. hdr.namelen = NameLen(e)
    BY <1>2, <1>4, ItemTypes
  <2>3. Head(fwd).t = "name" /\ Head(fwd).len = NameLen(e)
    BY <1>3, <1>7, <2>1 DEF Like
  <2> QED
    BY <1>2, <2>2, <2>3 DEF Placed, Fits
<1> QED
  BY <1>1, <1>6, <1>7, <1>8

(* Within a file, its data.                                                *)
LEMMA DataIsDue ==
    ASSUME PackOK, EntryInv, Due, rpc = "data", NEW tag, Tagged(tag), ReaderAt(tag)
    PROVE  /\ Placed
           /\ tag[Len(crcR) + 1] = Tag(tag[Len(crcR)].e, Len(buf) + 3)
           /\ crcS[Len(crcR) + 1] =
                DataItem(SrcTree[tag[Len(crcR)].e].content[Len(buf) + 1])
<1> USE DEF PackOK
<1> DEFINE k == Len(crcR)
           n == Len(buf)
<1>1. PICK e : e = tag[k].e
  OBVIOUS
<1>2. k > 0 /\ tag[k].j = n + 2 /\ e # <<>> /\ hdr = HeaderOf(e) /\ slip = 0
  BY <1>1 DEF ReaderAt, ReaderPlace, Due, Named, RegStates
<1>3. /\ k \in 0..(Len(crcS) - 1) /\ crcS \in Seq(Items) /\ n \in Nat
      /\ Like(Head(fwd), crcS[k + 1])
  BY <1>2, HeadFacts DEF TypeOK, PackTypeOK, UnpackTypeOK, Checksum, Due
<1>4. e \in DOMAIN SrcTree
  BY <1>1, <1>2, EntryAt
<1>5. SrcTree[e].kind = "reg" /\ n < FileLen(e)
  BY <1>2, <1>4, ItemTypes DEF EntryInv, RegStates
<1>6. EntryLen(e) = 2 + FileLen(e) /\ FileLen(e) \in Nat
  BY <1>4, <1>5, SourceFacts
<1>7. tag[k + 1] = Tag(e, n + 3) /\ crcS[k + 1] = ItemOf(tag[k + 1].e, tag[k + 1].j)
  <2>1. tag[k].j < EntryLen(tag[k].e) /\ (n + 2) + 1 = n + 3
    BY <1>1, <1>2, <1>3, <1>5, <1>6
  <2>2. tag[k + 1] = Tag(tag[k].e, tag[k].j + 1)
        /\ crcS[k + 1] = ItemOf(tag[k + 1].e, tag[k + 1].j)
    BY <1>2, <1>3, <2>1, NextTag
  <2> QED
    BY <1>1, <1>2, <2>1, <2>2
<1>8. crcS[k + 1] = DataItem(SrcTree[e].content[n + 1])
  <2>1. Tag(e, n + 3).e = e /\ Tag(e, n + 3).j = n + 3
    BY <1>3, <1>4, TagFacts DEF Entries
  <2>2. n + 3 # 1 /\ n + 3 # 2 /\ (n + 3) - 2 = n + 1
    BY <1>3
  <2>3. ItemOf(e, n + 3) = DataItem(SrcTree[e].content[n + 1])
    BY <1>2, <1>5, <2>2 DEF ItemOf
  <2> QED
    BY <1>7, <2>1, <2>3
<1>9. Placed
  <2>1. \A c : DataItem(c).t = "data"
    BY DEF DataItem
  <2> QED
    BY <1>2, <1>3, <1>8, <2>1 DEF Like, Placed, Fits
<1> QED
  BY <1>1, <1>7, <1>8, <1>9

(* After the name of a link, its target.                                   *)
LEMMA TargetIsDue ==
    ASSUME PackOK, EntryInv, Due, rpc = "target", NEW tag, Tagged(tag), ReaderAt(tag)
    PROVE  /\ Placed
           /\ tag[Len(crcR) + 1] = Tag(tag[Len(crcR)].e, 3)
           /\ crcS[Len(crcR) + 1] = LinkItem(SrcTree[tag[Len(crcR)].e].target)
           /\ EntryLen(tag[Len(crcR)].e) = 3
<1> USE DEF PackOK
<1> DEFINE k == Len(crcR)
<1>1. PICK e : e = tag[k].e
  OBVIOUS
<1>2. k > 0 /\ tag[k].j = 2 /\ e # <<>> /\ hdr = HeaderOf(e) /\ slip = 0
  BY <1>1 DEF ReaderAt, ReaderPlace, Due, Named
<1>3. /\ k \in 0..(Len(crcS) - 1) /\ crcS \in Seq(Items)
      /\ Like(Head(fwd), crcS[k + 1])
  BY <1>2, HeadFacts DEF TypeOK, PackTypeOK, Checksum, Due
<1>4. e \in DOMAIN SrcTree
  BY <1>1, <1>2, EntryAt
<1>5. SrcTree[e].kind = "link" /\ hdr.filelen = FileLen(e)
  BY <1>2, <1>4, ItemTypes DEF EntryInv
<1>6. EntryLen(e) = 3
  BY <1>4, <1>5, SourceFacts
<1>7. tag[k + 1] = Tag(e, 3) /\ crcS[k + 1] = ItemOf(tag[k + 1].e, tag[k + 1].j)
  BY <1>1, <1>2, <1>3, <1>6, NextTag
<1>8. crcS[k + 1] = LinkItem(SrcTree[e].target)
  <2>1. Tag(e, 3).e = e /\ Tag(e, 3).j = 3
    BY <1>4, TagFacts DEF Entries
  <2>2. ItemOf(e, 3) = LinkItem(SrcTree[e].target)
    BY <1>2, <1>5 DEF ItemOf
  <2> QED
    BY <1>7, <2>1, <2>2
<1>9. Placed
  <2>1. /\ LinkItem(SrcTree[e].target).t = "target"
        /\ LinkItem(SrcTree[e].target).len = FileLen(e)
    BY <1>5 DEF LinkItem, FileLen
  <2>2. Head(fwd).t = "target" /\ Head(fwd).len = FileLen(e)
    BY <1>3, <1>8, <2>1 DEF Like
  <2> QED
    BY <1>2, <1>5, <2>2 DEF Placed, Fits
<1> QED
  BY <1>1, <1>6, <1>7, <1>8, <1>9

(* As long as no header was garbled, reads end where items end.            *)
LEMMA DueIsPlaced ==
    ASSUME PackOK, EntryInv, Due
    PROVE  Placed
<1>1. PICK tag : Tagged(tag) /\ ReaderAt(tag)
  BY DEF PackOK, StreamInv
<1>2. rpc \in {"hdr", "name", "data", "target"}
  BY DEF Due, Reading
<1> QED
  BY <1>1, <1>2, HeaderIsDue, NameIsDue, DataIsDue, TargetIsDue

(* A read that leaves every header as it was sent had its place, and what  *)
(* it read was sent so if it is a header or all is as it was sent.         *)
LEMMA ReadKeepsPlace ==
    ASSUME PackOK, EntryInv, Receive, UNCHANGED crcS, Steady'
    PROVE  /\ Due /\ Placed /\ slip' = 0
           /\ Head(fwd).t = "hdr" => Head(fwd) = crcS[Len(crcR) + 1]
           /\ Clean' => Clean /\ Head(fwd) = crcS[Len(crcR) + 1]
           /\ Len(crcR') = Len(crcR) + 1 /\ Len(crcR) \in Nat
           /\ Incoming = {Head(fwd)}
<1> USE DEF PackOK
<1> DEFINE k == Len(crcR)
<1>1. Reading /\ rIn /\ fwd # <<>> /\ k \in Nat
  BY ReceiveFacts DEF TypeOK, UnpackTypeOK, Checksum
<1>2. CASE ~Placed
  <2>1. UNCHANGED crcR
    BY <1>2, ReceiveFacts
  <2>2. Steady
    BY <2>1 DEF Steady
  <2> QED
    BY <1>1, <1>2, <2>2, DueIsPlaced DEF Due
<1>3. CASE Placed
  <2>1. /\ slip' = 0 /\ Incoming = {Head(fwd)} /\ Len(crcR') = k + 1
        /\ \A i \in 1..k : crcR'[i] = crcR[i]
        /\ crcR'[k + 1] = Head(fwd)
    BY <1>3, ReceiveFacts
  <2>2. \A i \in 1..(k + 1) : crcR'[i].t = "hdr" => crcR'[i] = crcS[i]
    BY <2>1 DEF Steady
  <2>3. \A i \in 1..k : i \in 1..(k + 1)
    BY <1>1
  <2>4. k + 1 \in 1..(k + 1)
    BY <1>1
  <2>5. Steady /\ (Head(fwd).t = "hdr" => Head(fwd) = crcS[k + 1])
    BY <2>1, <2>2, <2>3, <2>4 DEF Steady
  <2>6. ASSUME Clean' PROVE Clean /\ Head(fwd) = crcS[k + 1]
    <3>1. \A i \in 1..(k + 1) : crcR'[i] = crcS[i]
      BY <2>1, <2>6 DEF Clean
    <3> QED
      BY <2>1, <2>3, <2>4, <3>1 DEF Clean
  <2> QED
    BY <1>1, <1>3, <2>1, <2>5, <2>6 DEF Due
<1> QED
  BY <1>2, <1>3

(* Where a step leaves the reader, within an entry or between two.         *)
LEMMA PlaceAfter ==
    ASSUME NEW tag, NEW t,
           Steady' => /\ slip' = 0
                      /\ rpc' = "hdr" => t.e # <<>> /\ t.j = EntryLen(t.e)
                      /\ rpc' \in Named \cup {"name"} => Len(crcR') > 0 /\ ReaderPlace(t)',
           t = tag[Len(crcR')]
    PROVE  ReaderAt(tag)'
  BY DEF ReaderAt, AtEntry, Named, RegStates

(* A step that reads nothing keeps the reader's place.                     *)
LEMMA QuietKeepsPlace ==
    ASSUME Quiet, UNCHANGED crcS
    PROVE  (Steady' <=> Steady) /\ (Clean' <=> Clean) /\ UNCHANGED <<crcR, slip>>
  BY DEF Quiet, Steady, Clean

(***************************************************************************)
(* The steps of the unpacker                                               *)
(***************************************************************************)

UnpackOK == PackOK /\ EntryInv /\ FileInv

(* A step of the unpacker that reads an item or none.                      *)
LEMMA ReaderKeepsStream ==
    ASSUME PackOK, UNCHANGED <<spc, packVars>>,
           Receive \/ Quiet, rIn' \in BOOLEAN, rIn' => rIn,
           \A tag : Tagged(tag) /\ ReaderAt(tag) => ReaderAt(tag)'
    PROVE  PackInv' /\ PipeInv' /\ StreamInv'
<1> USE DEF PackOK, packVars
<1>1. PackInv'
  BY DEF PackInv
<1>2. PipeInv'
  <2>1. CASE Receive
    BY <2>1, ReceiveFacts
  <2>2. CASE Quiet
    BY <2>2 DEF PipeInv, Quiet
  <2> QED
    BY <2>1, <2>2
<1>3. PICK tag \in Seq(Tags) : Tagged(tag) /\ SenderAt(tag) /\ ReaderAt(tag)
  BY DEF StreamInv
<1>4. Tagged(tag)' /\ SenderAt(tag)'
  BY <1>3 DEF Tagged, SenderAt
<1>5. ReaderAt(tag)'
  BY <1>3
<1> QED
  BY <1>1, <1>2, <1>4, <1>5 DEF StreamInv

(* After do_exit() or at the end of the program nothing more is read.      *)
LEMMA StopKeepsOK ==
    ASSUME UnpackOK, UNCHANGED <<spc, packVars>>,
           Receive \/ Quiet, rIn' => rIn, TypeOK',
           rpc' \in {"result", "ext", "exit"},
           \A p \in Paths : WellFormed(dst'[p])
    PROVE  UnpackOK'
<1>1. ASSUME NEW tag, Tagged(tag), ReaderAt(tag) PROVE ReaderAt(tag)'
  <2>1. UNCHANGED crcS
    BY DEF packVars
  <2>2. Steady' => slip' = 0
    <3>1. CASE Receive
      BY <2>1, <3>1, ReadKeepsPlace DEF UnpackOK
    <3>2. CASE Quiet
      BY <1>1, <2>1, <3>2, QuietKeepsPlace DEF ReaderAt
    <3> QED
      BY <3>1, <3>2
  <2> QED
    BY <2>2 DEF ReaderAt, Named, RegStates
<1>2. rIn' \in BOOLEAN
  BY DEF TypeOK, UnpackTypeOK
<1>3. PackInv' /\ PipeInv' /\ StreamInv'
  BY <1>1, <1>2, ReaderKeepsStream DEF UnpackOK
<1>4. EntryInv'
  BY DEF EntryInv, Named, RegStates
<1>5. FileInv'
  BY DEF FileInv, WellFormed
<1> QED
  BY <1>3, <1>4, <1>5 DEF UnpackOK, PackOK

(* The code of a status is a uint32_t.                                     *)
LEMMA U32Type ==
    ASSUME NEW code \in Int
    PROVE  U32(code) \in 0..(U32Modulus - 1)
<1>1. U32Modulus \in Nat /\ U32Modulus > 0
  BY SMT DEF U32Modulus
<1>2. \A m \in Nat : m > 0 => code % m \in 0..(m - 1)
  BY SMT
<1> QED
  BY <1>1, <1>2, SMT DEF U32

(* So is each that do_exit() is given.                                     *)
LEMMA CodeTypes ==
    /\ \A code \in {EIO, EINVAL, ENOSPC, ENAMETOOLONG, EDQUOT, LEGAL_EOF} :
          U32(code) \in 0..(U32Modulus - 1)
    /\ EIO \in 0..(U32Modulus - 1)
    /\ EREMOTEIO \in 0..(U32Modulus - 1)
    /\ 0 \in 0..(U32Modulus - 1)
    /\ \A tree, p, target, flags :
          /\ U32(RegError(tree, p, flags)) \in 0..(U32Modulus - 1)
          /\ U32(DirError(tree, p, flags)) \in 0..(U32Modulus - 1)
          /\ U32(CreateError(tree, p)) \in 0..(U32Modulus - 1)
          /\ U32(LinkError(tree, p, target, flags)) \in 0..(U32Modulus - 1)
<1>1. \A code \in {EIO, EINVAL, ENOSPC, ENAMETOOLONG, EDQUOT, LEGAL_EOF} : code \in Int
  BY SMT DEF EIO, EINVAL, ENOSPC, ENAMETOOLONG, EDQUOT, LEGAL_EOF
<1>2. /\ EIO \in 0..(U32Modulus - 1)
      /\ EREMOTEIO \in 0..(U32Modulus - 1)
      /\ 0 \in 0..(U32Modulus - 1)
  <2>1. U32Modulus \in Nat /\ U32Modulus > 200
    BY SMT DEF U32Modulus
  <2> QED
    BY <2>1, SMT DEF EIO, EREMOTEIO
<1>3. ASSUME NEW tree, NEW p, NEW target, NEW flags
      PROVE  /\ RegError(tree, p, flags) \in Int
             /\ DirError(tree, p, flags) \in Int
             /\ CreateError(tree, p) \in Int
             /\ LinkError(tree, p, target, flags) \in Int
  <2>1. /\ RegError(tree, p, flags) \in {0, 2, 20, 84}
        /\ DirError(tree, p, flags) \in {0, 2, 20, -84}
        /\ CreateError(tree, p) \in {0, 17}
    BY ErrorCodes
  <2>2. LinkError(tree, p, target, flags) \in {0, 2, 17, 20, 67, 84}
    BY LinkErrorCodes
  <2> QED
    BY <2>1, <2>2
<1> QED
  BY <1>1, <1>2, <1>3, U32Type, Zenon

(* The loop of do_unpack_ext() over the headers.                           *)
LEMMA ReadHeaderKeepsOK ==
    ASSUME UnpackOK, UNCHANGED packVars, ReadHeader
    PROVE  UnpackOK'
<1> USE DEF UnpackOK, PackOK
<1>1. /\ rpc = "hdr" /\ Receive /\ hdr' \in Incoming
      /\ UNCHANGED <<faults, rev, spc, dst, full, name, buf, use_tmpfile, linked, total_bytes>>
  BY DEF ReadHeader, NoFault, treeVars
<1>h. hdr' \in Headers /\ hdr'.t = "hdr"
  BY <1>1, IncomingFacts DEF Fits
<1>2. /\ fwd' \in Seq(Items) /\ Len(fwd') <= FwdCap /\ crcR' \in Seq(Items)
      /\ slip' \in 0..MaxReads
  BY <1>1, ReceiveFacts
<1>3. \/ /\ hdr'.namelen = 0 /\ rpc' = "sync" /\ marker' = TRUE /\ rCode' = 0
         /\ UNCHANGED <<rIn, withName, replied, total_files>>
      \/ /\ hdr'.namelen # 0 /\ rpc' = "name" /\ total_files' = total_files + 1
         /\ UNCHANGED <<rIn, marker, rCode, withName, replied>>
      \/ /\ rpc' = "result" /\ rIn' = FALSE /\ total_files' = total_files + 1
         /\ \/ rCode' = U32(EDQUOT) /\ withName' = TRUE
            \/ rCode' = U32(ENAMETOOLONG) /\ withName' = FALSE
         /\ UNCHANGED <<marker, replied>>
  BY <1>1, Zenon DEF ReadHeader, GoOn, do_exit, replyVars
<1>4. /\ rpc' \in {"sync", "name", "result"} /\ rIn' \in BOOLEAN /\ (rIn' => rIn)
      /\ total_files' \in Nat /\ rCode' \in 0..(U32Modulus - 1)
      /\ marker' \in BOOLEAN /\ withName' \in BOOLEAN /\ replied' \in BOOLEAN
  <2>1. /\ rIn \in BOOLEAN /\ total_files \in Nat /\ rCode \in 0..(U32Modulus - 1)
        /\ marker \in BOOLEAN /\ withName \in BOOLEAN /\ replied \in BOOLEAN
    BY DEF TypeOK, UnpackTypeOK
  <2>2. /\ U32(EDQUOT) \in 0..(U32Modulus - 1) /\ U32(ENAMETOOLONG) \in 0..(U32Modulus - 1)
        /\ 0 \in 0..(U32Modulus - 1)
    BY CodeTypes, Zenon
  <2>3. total_files' \in Nat
    BY <1>3, <2>1
  <2>4. rIn' \in BOOLEAN /\ (rIn' => rIn)
    <3>1. rIn' = FALSE \/ rIn' = rIn
      BY <1>3
    <3>2. CASE rIn' = FALSE
      BY <3>2
    <3>3. CASE rIn' = rIn
      BY <2>1, <3>3
    <3> QED
      BY <3>1, <3>2, <3>3
  <2>5. rCode' \in 0..(U32Modulus - 1) /\ rpc' \in {"sync", "name", "result"}
    BY <1>3, <2>1, <2>2
  <2>6. marker' \in BOOLEAN /\ withName' \in BOOLEAN /\ replied' \in BOOLEAN
    BY <1>3, <2>1
  <2> QED
    BY <2>3, <2>4, <2>5, <2>6, Zenon
<1>5. TypeOK'
  BY <1>1, <1>h, <1>2, <1>4 DEF TypeOK, PackTypeOK, UnpackTypeOK, packVars, Checksum
<1>6. CASE rpc' = "result"
  BY <1>1, <1>4, <1>5, <1>6, StopKeepsOK DEF FileInv
<1>7. CASE rpc' # "result"
  <2>1. ASSUME NEW tag, Tagged(tag), ReaderAt(tag) PROVE ReaderAt(tag)'
    <3>0. UNCHANGED crcS
      BY DEF packVars
    <3>t. PICK t : t = tag[Len(crcR')]
      OBVIOUS
    <3> SUFFICES ASSUME Steady'
                 PROVE  /\ slip' = 0
                        /\ rpc' = "name" => Len(crcR') > 0 /\ ReaderPlace(t)'
      BY <1>4, <1>7, <3>t, PlaceAfter DEF Named, RegStates
    <3>1. /\ Due /\ slip' = 0 /\ Incoming = {Head(fwd)}
          /\ Head(fwd).t = "hdr" => Head(fwd) = crcS[Len(crcR) + 1]
          /\ Len(crcR') = Len(crcR) + 1 /\ Len(crcR) \in Nat
      BY <1>1, <3>0, ReadKeepsPlace
    <3>2. hdr' = crcS[Len(crcR) + 1]
      BY <1>1, <1>h, <3>1
    <3>3. /\ t.j = 1 /\ hdr' = ItemOf(t.e, 1)
          /\ t.e = <<>> <=> hdr'.namelen = 0
      BY <1>1, <2>1, <3>t, <3>1, <3>2, HeaderIsDue
    <3>5. ASSUME rpc' = "name" PROVE ReaderPlace(t)'
      <4>1. t.e # <<>> /\ hdr' = HeaderOf(t.e)
        BY <1>3, <3>3, <3>5 DEF ItemOf
      <4> QED
        BY <3>3, <3>5, <4>1 DEF ReaderPlace, Named, RegStates
    <3> QED
      BY <3>1, <3>5
  <2>2. PackInv' /\ PipeInv' /\ StreamInv'
    BY <1>1, <1>4, <2>1, ReaderKeepsStream
  <2>3. EntryInv'
    BY <1>4, <1>7 DEF EntryInv, Named, RegStates
  <2>4. FileInv'
    BY <1>1, <1>4, <1>7 DEF FileInv
  <2> QED
    BY <1>5, <2>2, <2>3, <2>4
<1> QED
  BY <1>6, <1>7

(* The stream ends, or cannot be read, between two entries: syncfs() next. *)
LEMMA HeaderEndKeepsOK ==
    ASSUME UnpackOK, UNCHANGED packVars, ReadHeaderEof \/ ReadHeaderError
    PROVE  UnpackOK'
<1> USE DEF UnpackOK, PackOK
<1>1. /\ rpc = "hdr" /\ rpc' = "sync" /\ Quiet /\ rCode' \in {EREMOTEIO, EIO}
      /\ faults' \in 0..MaxFaults
      /\ UNCHANGED <<rev, spc, rIn, treeVars, fileVars, countVars, marker, withName, replied>>
  BY QfileWireAssumption DEF ReadHeaderEof, ReadHeaderError, NoFault, Fault, TypeOK
<1>2. rCode' \in 0..(U32Modulus - 1)
  BY <1>1, CodeTypes, Zenon
<1>3. TypeOK'
  BY <1>1, <1>2 DEF TypeOK, PackTypeOK, UnpackTypeOK, packVars, treeVars, fileVars,
                    countVars, Quiet
<1>4. ASSUME NEW tag, ReaderAt(tag) PROVE ReaderAt(tag)'
  <2>1. (Steady' <=> Steady) /\ UNCHANGED slip
    BY <1>1, QuietKeepsPlace DEF packVars
  <2> QED
    BY <1>1, <1>4, <2>1 DEF ReaderAt, Named, RegStates
<1>5. rIn' \in BOOLEAN
  BY <1>3 DEF TypeOK, UnpackTypeOK
<1>6. PackInv' /\ PipeInv' /\ StreamInv'
  BY <1>1, <1>4, <1>5, ReaderKeepsStream
<1>7. EntryInv'
  BY <1>1 DEF EntryInv, Named, RegStates
<1>8. FileInv'
  BY <1>1 DEF FileInv, treeVars
<1> QED
  BY <1>3, <1>6, <1>7, <1>8

(* process_one_file() reads the name of the entry that was announced.      *)
LEMMA ReadNameKeepsOK ==
    ASSUME UnpackOK, UNCHANGED packVars, ReadName
    PROVE  UnpackOK'
<1> USE DEF UnpackOK, PackOK
<1>0. UNCHANGED crcS
  BY DEF packVars
<1>1. /\ rpc = "name" /\ Receive /\ Dispatch(hdr.kind)
      /\ \E item \in Incoming : name' = item.name
      /\ UNCHANGED <<faults, rev, spc, dst, full, hdr, buf, use_tmpfile, linked, countVars>>
  BY DEF ReadName, NoFault, treeVars
<1>2. /\ fwd' \in Seq(Items) /\ Len(fwd') <= FwdCap /\ crcR' \in Seq(Items)
      /\ slip' \in 0..MaxReads
  BY <1>1, ReceiveFacts
<1>4. name' \in Paths
  BY <1>1, IncomingFacts
<1>5. \/ /\ rpc' \in {"reg", "link", "dir"} /\ rpc' = hdr.kind
         /\ UNCHANGED <<rIn, marker, rCode, withName, replied>>
      \/ /\ rpc' = "result" /\ rIn' = FALSE /\ rCode' = U32(EINVAL) /\ withName' = TRUE
         /\ UNCHANGED <<marker, replied>>
  BY <1>1 DEF Dispatch, GoOn, do_exit, replyVars
<1>6. /\ rIn' \in BOOLEAN /\ (rIn' => rIn) /\ rCode' \in 0..(U32Modulus - 1)
      /\ marker' \in BOOLEAN /\ withName' \in BOOLEAN /\ replied' \in BOOLEAN
  <2>1. /\ rIn \in BOOLEAN /\ rCode \in 0..(U32Modulus - 1)
        /\ marker \in BOOLEAN /\ withName \in BOOLEAN /\ replied \in BOOLEAN
    BY DEF TypeOK, UnpackTypeOK
  <2>2. U32(EINVAL) \in 0..(U32Modulus - 1)
    BY CodeTypes, Zenon
  <2>3. rIn' \in BOOLEAN /\ (rIn' => rIn)
    <3>1. rIn' = FALSE \/ rIn' = rIn
      BY <1>5
    <3>2. CASE rIn' = FALSE
      BY <3>2
    <3>3. CASE rIn' = rIn
      BY <2>1, <3>3
    <3> QED
      BY <3>1, <3>2, <3>3
  <2>4. rCode' \in 0..(U32Modulus - 1)
    BY <1>5, <2>1, <2>2
  <2>5. marker' \in BOOLEAN /\ withName' \in BOOLEAN /\ replied' \in BOOLEAN
    BY <1>5, <2>1
  <2> QED
    BY <2>3, <2>4, <2>5, Zenon
<1>7. TypeOK'
  BY <1>1, <1>2, <1>4, <1>5, <1>6
     DEF TypeOK, PackTypeOK, UnpackTypeOK, packVars, countVars, Checksum
<1>8. CASE rpc' = "result"
  BY <1>1, <1>6, <1>7, <1>8, StopKeepsOK DEF FileInv
<1>9. CASE rpc' # "result"
  <2>1. ASSUME NEW tag, Tagged(tag), ReaderAt(tag) PROVE ReaderAt(tag)'
    <3>t. PICK t : t = tag[Len(crcR')]
      OBVIOUS
    <3>e. PICK e : e = tag[Len(crcR)].e
      OBVIOUS
    <3> SUFFICES ASSUME Steady'
                 PROVE  slip' = 0 /\ Len(crcR') > 0 /\ ReaderPlace(t)'
      BY <1>5, <1>9, <3>t, PlaceAfter
    <3>1. /\ Due /\ slip' = 0 /\ Incoming = {Head(fwd)}
          /\ Clean' => Head(fwd) = crcS[Len(crcR) + 1]
          /\ Len(crcR') = Len(crcR) + 1 /\ Len(crcR) \in Nat
      BY <1>0, <1>1, ReadKeepsPlace
    <3>2. t = Tag(e, 2) /\ crcS[Len(crcR) + 1] = NameItem(e)
      BY <1>1, <2>1, <3>t, <3>e, <3>1, NameIsDue
    <3>3. Len(crcR) > 0 /\ e # <<>> /\ hdr = HeaderOf(e)
      BY <1>1, <2>1, <3>e, <3>1 DEF ReaderAt, ReaderPlace, Due
    <3>4. t.e = e /\ t.j = 2
      BY <2>1, <3>e, <3>2, <3>3, EntryAt, TagFacts DEF Entries
    <3>5. Clean' => name' = e
      BY <1>1, <3>1, <3>2 DEF NameItem
    <3>6. ReaderPlace(t)'
      BY <1>1, <1>5, <1>9, <3>3, <3>4, <3>5 DEF ReaderPlace
    <3> QED
      BY <3>1, <3>6
  <2>2. PackInv' /\ PipeInv' /\ StreamInv'
    BY <1>1, <1>6, <2>1, ReaderKeepsStream
  <2>3. EntryInv'
    BY <1>1, <1>4, <1>5, <1>9 DEF EntryInv, RegStates
  <2>4. FileInv'
    BY <1>1, <1>5, <1>9 DEF FileInv
  <2> QED
    BY <1>7, <2>2, <2>3, <2>4
<1> QED
  BY <1>8, <1>9

(* The types of what do_exit() and errx() assign. *)
ReplyTypes ==
    /\ rIn \in BOOLEAN /\ marker \in BOOLEAN /\ rCode \in 0..(U32Modulus - 1)
    /\ withName \in BOOLEAN /\ replied \in BOOLEAN

(* do_exit(), errx() and going on keep them and never reopen stdin.        *)
LEMMA EndingTypes ==
    ASSUME TypeOK
    PROVE  /\ \A code, b : do_exit(code, b) /\ b \in BOOLEAN
                            /\ U32(code) \in 0..(U32Modulus - 1) =>
                ReplyTypes' /\ rpc' = "result" /\ (rIn' => rIn)
           /\ errx => ReplyTypes' /\ rpc' = "exit" /\ (rIn' => rIn)
           /\ \A pc : GoOn(pc) => ReplyTypes' /\ rpc' = pc /\ (rIn' => rIn)
<1>1. ReplyTypes
  BY DEF ReplyTypes, TypeOK, UnpackTypeOK
<1>2. ASSUME NEW code, NEW b \in BOOLEAN, do_exit(code, b), U32(code) \in 0..(U32Modulus - 1)
      PROVE  ReplyTypes' /\ rpc' = "result" /\ (rIn' => rIn)
  BY <1>1, <1>2 DEF do_exit, ReplyTypes
<1>3. ASSUME errx PROVE ReplyTypes' /\ rpc' = "exit" /\ (rIn' => rIn)
  BY <1>1, <1>3 DEF errx, replyVars, ReplyTypes
<1>4. ASSUME NEW pc, GoOn(pc) PROVE ReplyTypes' /\ rpc' = pc /\ (rIn' => rIn)
  BY <1>1, <1>4 DEF GoOn, replyVars, ReplyTypes
<1> QED
  BY <1>2, <1>3, <1>4

(* The name and the header of an entry that is being processed.            *)
LEMMA EntryFacts ==
    ASSUME TypeOK, EntryInv, rpc \in Named
    PROVE  name \in Paths /\ hdr \in Headers /\ hdr.filelen \in Nat
<1>1. name \in Paths /\ hdr \in Headers
  BY DEF EntryInv, TypeOK, UnpackTypeOK
<1> QED
  BY <1>1 DEF Headers

(* The entry the reader has in hand is the one that was sent, as long as   *)
(* no header was garbled.                                                  *)
LEMMA PlaceFacts ==
    ASSUME PackOK, EntryInv, rpc \in Named, Steady, NEW tag, Tagged(tag), ReaderAt(tag)
    PROVE  \E e \in DOMAIN SrcTree :
             /\ e = tag[Len(crcR)].e /\ e # <<>> /\ Len(crcR) > 0 /\ slip = 0
             /\ SrcTree[e].kind = hdr.kind /\ hdr.filelen = FileLen(e)
             /\ EntryLen(e) = IF hdr.kind = "reg" THEN 2 + hdr.filelen
                              ELSE IF hdr.kind = "link" THEN 3 ELSE 2
             /\ ReaderPlace(tag[Len(crcR)])
<1>1. PICK e : e = tag[Len(crcR)].e
  OBVIOUS
<1>2. /\ Len(crcR) > 0 /\ e # <<>> /\ hdr = HeaderOf(e) /\ slip = 0
      /\ ReaderPlace(tag[Len(crcR)])
  BY <1>1 DEF ReaderAt, ReaderPlace
<1>3. e \in DOMAIN SrcTree
  BY <1>1, <1>2, EntryAt
<1>4. hdr.kind = SrcTree[e].kind /\ hdr.filelen = FileLen(e)
  BY <1>2, <1>3, ItemTypes
<1>5. EntryLen(e) = IF hdr.kind = "reg" THEN 2 + hdr.filelen
                    ELSE IF hdr.kind = "link" THEN 3 ELSE 2
  BY <1>3, <1>4, SourceFacts
<1> QED
  BY <1>1, <1>2, <1>3, <1>4, <1>5

(* A step that reads nothing stays at the item read last.                  *)
LEMMA QuietPlace ==
    ASSUME PackOK, EntryInv, rpc \in Named, Quiet, UNCHANGED <<crcS, hdr, name>>,
           NEW tag, Tagged(tag), ReaderAt(tag), rpc' # "name",
           rpc' \in {"reg", "quota", "space", "link", "target", "dir"} =>
             rpc \in {"reg", "quota", "space", "link", "target", "dir"},
           rpc' = "data" => rpc = "space" /\ buf' = <<>>,
           rpc' \in {"linkat", "fix"} =>
             rpc \in {"linkat", "fix"} \/ (rpc = "space" /\ hdr.filelen = 0),
           rpc' = "hdr" => rpc \in {"fix", "dir"}
    PROVE  ReaderAt(tag)'
<1>1. PICK t : t = tag[Len(crcR)]
  OBVIOUS
<1>2. (Steady' <=> Steady) /\ (Clean' <=> Clean) /\ UNCHANGED <<crcR, slip>>
  BY QuietKeepsPlace
<1> SUFFICES ASSUME Steady
             PROVE  /\ slip' = 0
                    /\ rpc' = "hdr" => t.e # <<>> /\ t.j = EntryLen(t.e)
                    /\ rpc' \in Named \cup {"name"} => Len(crcR') > 0 /\ ReaderPlace(t)'
  BY <1>1, <1>2, PlaceAfter
<1>3. PICK e \in DOMAIN SrcTree :
         /\ e = t.e /\ e # <<>> /\ Len(crcR) > 0 /\ slip = 0
         /\ EntryLen(e) = IF hdr.kind = "reg" THEN 2 + hdr.filelen
                          ELSE IF hdr.kind = "link" THEN 3 ELSE 2
         /\ ReaderPlace(t)
  BY <1>1, PlaceFacts
<1>4. rpc \in RegStates => hdr.kind = "reg"
  BY DEF EntryInv
<1>5. rpc = "dir" => hdr.kind = "dir"
  BY DEF EntryInv
<1>6. ASSUME rpc' = "hdr" PROVE t.j = EntryLen(t.e)
  BY <1>3, <1>5, <1>6 DEF ReaderPlace
<1>7. ASSUME rpc' \in Named PROVE ReaderPlace(t)'
  <2>1. t.e # <<>> /\ hdr' = HeaderOf(t.e) /\ (Clean' => name' = t.e)
    BY <1>2, <1>3 DEF ReaderPlace
  <2>2. rpc' \in {"reg", "quota", "space", "link", "target", "dir"} => t.j = 2
    BY <1>3 DEF ReaderPlace
  <2>3. rpc' = "data" => t.j = Len(buf') + 2
    BY <1>3 DEF ReaderPlace
  <2>4. rpc' \in {"linkat", "fix"} => t.j = EntryLen(t.e)
    <3>1. CASE rpc \in {"linkat", "fix"}
      BY <1>3, <3>1 DEF ReaderPlace
    <3>2. CASE rpc = "space" /\ hdr.filelen = 0
      <4>1. t.j = 2 /\ hdr.kind = "reg"
        BY <1>3, <1>4, <3>2 DEF ReaderPlace, RegStates
      <4> QED
        BY <1>3, <3>2, <4>1
    <3> QED
      BY <3>1, <3>2
  <2> QED
    BY <2>1, <2>2, <2>3, <2>4 DEF ReaderPlace
<1> QED
  BY <1>2, <1>3, <1>6, <1>7

(* Creating the file, or a file without a name (unpack.c:189-215).         *)
LEMMA OpenRegKeepsOK ==
    ASSUME UnpackOK, UNCHANGED packVars, OpenReg
    PROVE  UnpackOK'
<1> USE DEF UnpackOK, PackOK
<1>t. /\ dst \in [Paths -> Node] /\ use_tmpfile \in BOOLEAN /\ linked \in BOOLEAN
  BY DEF TypeOK, UnpackTypeOK
<1>1. /\ rpc = "reg" /\ buf' = <<>> /\ Quiet
      /\ UNCHANGED <<faults, rev, spc, full, hdr, name, countVars>>
      /\ \/ /\ RegError(dst, name, validate_flags) # 0
            /\ do_exit(RegError(dst, name, validate_flags), TRUE)
            /\ UNCHANGED <<dst, use_tmpfile, linked>>
         \/ CreateTmpfile
         \/ CreateExclusive(name)
  BY DEF OpenReg, NoFault
<1>2. /\ name \in Paths /\ hdr.filelen \in Nat
  BY <1>1, EntryFacts DEF Named, RegStates
<1> DEFINE node == MkNode("reg", "none", hdr.filelen, <<>>, <<>>)
<1>3. node \in Node /\ WellFormed(node)
  <2>1. node \in Node
    <3>1. <<>> \in Seq(Chunks) /\ <<>> \in Seq(Components)
      OBVIOUS
    <3> QED
      BY <1>2, <3>1, MkNodeType, Zenon
  <2>2. WellFormed(node)
    BY MkNodeFields DEF WellFormed
  <2> QED
    BY <2>1, <2>2
<1> HIDE DEF node
<1>4. \/ /\ do_exit(RegError(dst, name, validate_flags), TRUE)
         /\ UNCHANGED <<dst, use_tmpfile, linked>>
      \/ GoOn("quota") /\ use_tmpfile /\ linked' = FALSE /\ UNCHANGED <<dst, use_tmpfile>>
      \/ /\ do_exit(CreateError(dst, name), TRUE)
         /\ use_tmpfile' = FALSE /\ UNCHANGED <<dst, linked>>
      \/ /\ GoOn("quota") /\ use_tmpfile' = FALSE /\ linked' = TRUE
         /\ dst' = Put(dst, name, node)
  BY <1>1 DEF CreateTmpfile, CreateExclusive, node
<1>5. /\ ReplyTypes' /\ (rIn' => rIn) /\ rpc' \in {"result", "quota"}
      /\ use_tmpfile' \in BOOLEAN /\ linked' \in BOOLEAN
      /\ dst' \in [Paths -> Node] /\ \A p \in Paths : WellFormed(dst'[p])
      /\ rpc' = "quota" =>
           \/ linked' = FALSE /\ use_tmpfile' = TRUE
           \/ linked' = TRUE /\ use_tmpfile' = FALSE /\ dst'[name] = node
  <2>1. CASE \/ /\ do_exit(RegError(dst, name, validate_flags), TRUE)
                /\ UNCHANGED <<dst, use_tmpfile, linked>>
             \/ /\ do_exit(CreateError(dst, name), TRUE)
                /\ use_tmpfile' = FALSE /\ UNCHANGED <<dst, linked>>
    <3>1. ReplyTypes' /\ rpc' = "result" /\ (rIn' => rIn)
      <4>1. /\ U32(RegError(dst, name, validate_flags)) \in 0..(U32Modulus - 1)
            /\ U32(CreateError(dst, name)) \in 0..(U32Modulus - 1)
        BY CodeTypes, Zenon
      <4> QED
        BY <2>1, <4>1, EndingTypes
    <3> QED
      BY <1>t, <2>1, <3>1 DEF FileInv
  <2>2. CASE GoOn("quota") /\ use_tmpfile /\ linked' = FALSE /\ UNCHANGED <<dst, use_tmpfile>>
    <3>1. ReplyTypes' /\ rpc' = "quota" /\ (rIn' => rIn)
      BY <2>2, EndingTypes
    <3> QED
      BY <1>t, <2>2, <3>1 DEF FileInv
  <2>3. CASE /\ GoOn("quota") /\ use_tmpfile' = FALSE /\ linked' = TRUE
             /\ dst' = Put(dst, name, node)
    <3>1. ReplyTypes' /\ rpc' = "quota" /\ (rIn' => rIn)
      BY <2>3, EndingTypes
    <3>2. /\ dst' \in [Paths -> Node] /\ dst'[name] = node
          /\ \A p \in Paths : WellFormed(dst'[p])
      BY <1>t, <1>2, <1>3, <2>3, PutFacts, ZenonT(60) DEF FileInv
    <3> QED
      BY <2>3, <3>1, <3>2
  <2> QED
    BY <1>4, <2>1, <2>2, <2>3
<1>6. TypeOK'
  BY <1>1, <1>5 DEF TypeOK, PackTypeOK, UnpackTypeOK, packVars, countVars, Quiet, ReplyTypes
<1>7. CASE rpc' = "result"
  BY <1>1, <1>5, <1>6, <1>7, StopKeepsOK
<1>8. CASE rpc' = "quota"
  <2>1. ASSUME NEW tag, Tagged(tag), ReaderAt(tag) PROVE ReaderAt(tag)'
    BY <1>1, <1>8, <2>1, QuietPlace DEF packVars, Named, RegStates
  <2>2. PackInv' /\ PipeInv' /\ StreamInv'
    BY <1>1, <1>5, <2>1, ReaderKeepsStream DEF ReplyTypes
  <2>3. EntryInv'
    BY <1>1, <1>8 DEF EntryInv, Named, RegStates
  <2>4. FileInv'
    <3>1. linked' <=> ~use_tmpfile'
      BY <1>5, <1>8
    <3>2. linked' => dst'[name'] = MkNode("reg", "none", hdr'.filelen, buf', <<>>)
      BY <1>1, <1>5, <1>8 DEF node
    <3> QED
      BY <1>1, <1>5, <1>8, <3>1, <3>2 DEF FileInv, WellFormed, MkNode
  <2> QED
    BY <1>6, <2>2, <2>3, <2>4
<1> QED
  BY <1>5, <1>7, <1>8

(* Within process_one_file_reg() the header and the name stay.             *)
LEMMA RegEntryKept ==
    ASSUME EntryInv, UNCHANGED <<hdr, name>>, rpc \in RegStates, rpc' \in RegStates,
           rpc' = "data" => Len(buf') < hdr.filelen
    PROVE  EntryInv'
  BY DEF EntryInv, Named, RegStates

(* The limits, and the wait for space (unpack.c:217-235).                  *)
LEMMA SpaceKeepsOK ==
    ASSUME UnpackOK, UNCHANGED packVars, CheckQuota \/ WaitSpace \/ SpaceUnknown
    PROVE  UnpackOK'
<1> USE DEF UnpackOK, PackOK
<1>t. /\ total_bytes \in Nat /\ LLONG_MAX \in Nat /\ buf \in Seq(Chunks)
      /\ use_tmpfile \in BOOLEAN /\ linked \in BOOLEAN
  BY QfileWireAssumption DEF TypeOK, UnpackTypeOK
<1>1. CASE CheckQuota
  <2>1. /\ rpc = "quota" /\ Quiet
        /\ UNCHANGED <<faults, rev, spc, treeVars, fileVars, countVars>>
        /\ \/ do_exit(EDQUOT, TRUE)
           \/ ~OverQuota(hdr.filelen) /\ GoOn("space")
    BY <1>1 DEF CheckQuota, NoFault
  <2>2. /\ ReplyTypes' /\ (rIn' => rIn)
        /\ rpc' = "result" \/ (rpc' = "space" /\ ~OverQuota(hdr.filelen))
    <3>1. U32(EDQUOT) \in 0..(U32Modulus - 1)
      BY CodeTypes, Zenon
    <3> QED
      BY <2>1, <3>1, EndingTypes
  <2>3. TypeOK'
    BY <2>1, <2>2 DEF TypeOK, PackTypeOK, UnpackTypeOK, packVars, treeVars, fileVars,
                      countVars, Quiet, ReplyTypes
  <2>4. CASE rpc' = "result"
    BY <2>1, <2>2, <2>3, <2>4, StopKeepsOK DEF FileInv, treeVars
  <2>5. CASE rpc' = "space" /\ ~OverQuota(hdr.filelen)
    <3>1. ASSUME NEW tag, Tagged(tag), ReaderAt(tag) PROVE ReaderAt(tag)'
      BY <2>1, <2>5, <3>1, QuietPlace DEF packVars, fileVars, Named, RegStates
    <3>2. PackInv' /\ PipeInv' /\ StreamInv'
      BY <2>1, <2>2, <3>1, ReaderKeepsStream DEF ReplyTypes
    <3>4. EntryInv'
      BY <2>1, <2>5, RegEntryKept DEF RegStates, fileVars
    <3>5. FileInv'
      BY <2>1, <2>5 DEF FileInv, treeVars, fileVars
    <3> QED
      BY <2>3, <3>2, <3>4, <3>5
  <2> QED
    BY <2>2, <2>4, <2>5
<1>2. CASE WaitSpace \/ SpaceUnknown
  <2>1. /\ rpc = "space" /\ LeaveSpaceCheck /\ faults' \in 0..MaxFaults
    BY <1>2, QfileWireAssumption DEF WaitSpace, SpaceUnknown, Fault, NoFault, TypeOK
  <2>2. hdr.filelen \in Nat
    BY <2>1, EntryFacts DEF Named, RegStates
  <2>3. /\ ReplyTypes' /\ (rIn' => rIn)
        /\ rpc' = IF hdr.filelen = 0 THEN AfterData ELSE "data"
        /\ total_bytes' \in Nat /\ Quiet
        /\ UNCHANGED <<rev, spc, treeVars, fileVars, total_files>>
    BY <1>t, <2>1, <2>2, EndingTypes DEF LeaveSpaceCheck
  <2>4. \/ hdr.filelen # 0 /\ rpc' = "data"
        \/ hdr.filelen = 0 /\ use_tmpfile /\ rpc' = "linkat"
        \/ hdr.filelen = 0 /\ ~use_tmpfile /\ rpc' = "fix"
    BY <2>3 DEF AfterData
  <2>5. TypeOK'
    BY <2>1, <2>3, <2>4
       DEF TypeOK, PackTypeOK, UnpackTypeOK, packVars, treeVars, fileVars,
           Quiet, ReplyTypes
  <2>6. buf = <<>> /\ Len(buf) = 0
    BY <2>1 DEF FileInv
  <2>7. ASSUME NEW tag, Tagged(tag), ReaderAt(tag) PROVE ReaderAt(tag)'
    BY <2>1, <2>3, <2>4, <2>6, <2>7, QuietPlace DEF packVars, fileVars, Named, RegStates
  <2>8. PackInv' /\ PipeInv' /\ StreamInv'
    BY <2>3, <2>7, ReaderKeepsStream DEF ReplyTypes
  <2>9. EntryInv'
    BY <2>1, <2>2, <2>3, <2>4, <2>6, RegEntryKept DEF RegStates, fileVars
  <2>10. FileInv'
    BY <2>1, <2>3, <2>4, <2>6 DEF FileInv, treeVars, fileVars
  <2> QED
    BY <2>5, <2>8, <2>9, <2>10
<1> QED
  BY <1>1, <1>2

(* copy_file() writes one chunk to the file without permissions, or to the *)
(* one without a name, or finds the disk full (unpack.c:236).              *)
LEMMA CopyKeepsOK ==
    ASSUME UnpackOK, UNCHANGED packVars, CopyChunk \/ CopyNoSpace
    PROVE  UnpackOK'
<1> USE DEF UnpackOK, PackOK
<1>t. /\ dst \in [Paths -> Node] /\ buf \in Seq(Chunks) /\ Len(buf) \in Nat
      /\ use_tmpfile \in BOOLEAN /\ linked \in BOOLEAN
  BY DEF TypeOK, UnpackTypeOK
<1>1. rpc = "data" /\ Receive /\ UNCHANGED <<faults, rev, spc>>
  BY DEF CopyChunk, CopyNoSpace, NoFault
<1>2. /\ fwd' \in Seq(Items) /\ Len(fwd') <= FwdCap /\ crcR' \in Seq(Items)
      /\ slip' \in 0..MaxReads
  BY <1>1, ReceiveFacts
<1>3. /\ name \in Paths /\ Len(buf) < hdr.filelen /\ hdr.filelen \in Nat
  BY <1>1, EntryFacts DEF Named, RegStates, EntryInv
<1>4. CASE CopyNoSpace
  <2>1. do_exit(ENOSPC, TRUE) /\ UNCHANGED <<treeVars, fileVars, countVars>>
    BY <1>4 DEF CopyNoSpace
  <2>2. ReplyTypes' /\ rpc' = "result" /\ (rIn' => rIn)
    <3>1. U32(ENOSPC) \in 0..(U32Modulus - 1)
      BY CodeTypes, Zenon
    <3> QED
      BY <2>1, <3>1, EndingTypes
  <2>3. TypeOK'
    BY <1>1, <1>2, <2>1, <2>2
       DEF TypeOK, PackTypeOK, UnpackTypeOK, packVars, treeVars, fileVars,
           countVars, ReplyTypes, Checksum
  <2> QED
    BY <1>1, <2>1, <2>2, <2>3, StopKeepsOK DEF FileInv, treeVars
<1>5. CASE CopyChunk
  <2>1. /\ \E item \in Incoming : buf' = Append(buf, item.v)
        /\ dst' = IF linked THEN [dst EXCEPT ![name].content = buf'] ELSE dst
        /\ GoOn(IF Len(buf') = hdr.filelen THEN AfterData ELSE "data")
        /\ UNCHANGED <<full, hdr, name, use_tmpfile, linked, countVars>>
    BY <1>5 DEF CopyChunk
  <2>2. buf' \in Seq(Chunks) /\ Len(buf') = Len(buf) + 1
    <3>1. PICK item \in Incoming : buf' = Append(buf, item.v)
      BY <2>1
    <3>2. item.v \in Chunks
      BY <1>1, IncomingFacts
    <3> QED
      BY <1>t, <3>1, <3>2, AppendProperties
  <2>3. /\ ReplyTypes' /\ (rIn' => rIn)
        /\ rpc' = IF Len(buf') = hdr.filelen THEN AfterData ELSE "data"
    BY <2>1, EndingTypes
  <2>4. \/ Len(buf') # hdr.filelen /\ rpc' = "data"
        \/ Len(buf') = hdr.filelen /\ use_tmpfile /\ rpc' = "linkat"
        \/ Len(buf') = hdr.filelen /\ ~use_tmpfile /\ rpc' = "fix"
    BY <2>3 DEF AfterData
  <2> DEFINE node == MkNode("reg", "none", hdr.filelen, buf', <<>>)
  <2>5. /\ dst' \in [Paths -> Node] /\ (linked => dst'[name] = node)
        /\ \A p \in Paths : WellFormed(dst'[p])
    <3>1. CASE ~linked
      BY <1>t, <2>1, <3>1 DEF FileInv
    <3>2. CASE linked
      <4>1. dst[name] = MkNode("reg", "none", hdr.filelen, buf, <<>>)
        BY <1>1, <3>2 DEF FileInv
      <4>2. dst' = Put(dst, name, node)
        <5>1. [dst EXCEPT ![name].content = buf'] =
                Put(dst, name, MkNode(dst[name].kind, dst[name].perm, dst[name].size,
                                      buf', dst[name].target))
          BY <1>t, <1>3, ExceptIsPut
        <5>2. /\ dst[name].kind = "reg" /\ dst[name].perm = "none"
              /\ dst[name].size = hdr.filelen /\ dst[name].target = <<>>
          BY <4>1, MkNodeFields
        <5> QED
          BY <2>1, <3>2, <5>1, <5>2
      <4>3. node \in Node
        <5>1. <<>> \in Seq(Components)
          OBVIOUS
        <5> QED
          BY <1>3, <2>2, <5>1, MkNodeType, Zenon
      <4>4. WellFormed(node)
        BY MkNodeFields DEF WellFormed
      <4> HIDE DEF node
      <4> QED
        BY <1>t, <1>3, <4>2, <4>3, <4>4, PutFacts, ZenonT(60) DEF FileInv
    <3> QED
      BY <1>t, <3>1, <3>2
  <2>6. TypeOK'
    BY <1>1, <1>2, <2>1, <2>2, <2>3, <2>4, <2>5, SMTT(60)
       DEF TypeOK, PackTypeOK, UnpackTypeOK, packVars, countVars, ReplyTypes, Checksum
  <2>7. ASSUME NEW tag, Tagged(tag), ReaderAt(tag) PROVE ReaderAt(tag)'
    <3>0. UNCHANGED crcS
      BY DEF packVars
    <3>t. PICK t : t = tag[Len(crcR')]
      OBVIOUS
    <3> SUFFICES ASSUME Steady'
                 PROVE  slip' = 0 /\ Len(crcR') > 0 /\ ReaderPlace(t)'
      BY <2>4, <3>t, PlaceAfter
    <3>1. /\ Due /\ slip' = 0 /\ Steady /\ (Clean' => Clean)
          /\ Len(crcR') = Len(crcR) + 1 /\ Len(crcR) \in Nat
      BY <1>1, <3>0, ReadKeepsPlace DEF Due
    <3>2. PICK e \in DOMAIN SrcTree :
             /\ e = tag[Len(crcR)].e /\ e # <<>>
             /\ EntryLen(e) = IF hdr.kind = "reg" THEN 2 + hdr.filelen
                              ELSE IF hdr.kind = "link" THEN 3 ELSE 2
             /\ ReaderPlace(tag[Len(crcR)])
      BY <1>1, <2>7, <3>1, PlaceFacts DEF Named, RegStates
    <3>3. t = Tag(e, Len(buf) + 3)
      BY <1>1, <2>7, <3>t, <3>1, <3>2, DataIsDue
    <3>4. t.e = e /\ t.j = Len(buf) + 3
      BY <1>t, <3>2, <3>3, TagFacts DEF Entries
    <3>5. t.j = Len(buf') + 2
      BY <1>t, <2>2, <3>4
    <3>6. hdr' = HeaderOf(e) /\ (Clean' => name' = e)
      BY <1>1, <2>1, <3>1, <3>2 DEF ReaderPlace, Named, RegStates
    <3>7. rpc' \in {"linkat", "fix"} => t.j = EntryLen(e)
      <4>1. hdr.kind = "reg"
        BY <1>1 DEF EntryInv, RegStates
      <4> QED
        BY <1>3, <2>4, <3>2, <3>5, <4>1
    <3>8. ReaderPlace(t)'
      BY <2>4, <3>2, <3>4, <3>5, <3>6, <3>7 DEF ReaderPlace
    <3> QED
      BY <3>1, <3>8
  <2>8. PackInv' /\ PipeInv' /\ StreamInv'
    BY <1>1, <2>3, <2>7, ReaderKeepsStream DEF ReplyTypes
  <2>9. EntryInv'
    <3>1. rpc' = "data" => Len(buf') < hdr.filelen
      BY <1>t, <1>3, <2>2, <2>4
    <3> QED
      BY <1>1, <1>3, <2>1, <2>4, <3>1, RegEntryKept DEF RegStates
  <2>10. FileInv'
    <3>1. linked <=> ~use_tmpfile
      BY <1>1 DEF FileInv
    <3>2. dst'[name'] = MkNode("reg", "none", hdr'.filelen, buf', <<>>) \/ ~linked
      BY <2>1, <2>5
    <3> QED
      BY <1>1, <2>1, <2>4, <2>5, <3>1, <3>2 DEF FileInv, WellFormed, MkNode
  <2> QED
    BY <2>6, <2>8, <2>9, <2>10
<1> QED
  BY <1>4, <1>5

(* linkat() of the finished file and its mode (unpack.c:241-252).          *)
LEMMA FinishKeepsOK ==
    ASSUME UnpackOK, UNCHANGED packVars, LinkTmpfile \/ FixReg
    PROVE  UnpackOK'
<1> USE DEF UnpackOK, PackOK
<1>t. /\ dst \in [Paths -> Node] /\ buf \in Seq(Chunks) /\ linked \in BOOLEAN
      /\ \A p \in Paths : WellFormed(dst[p])
  BY DEF TypeOK, UnpackTypeOK, FileInv
<1>1. /\ rpc \in {"linkat", "fix"} /\ Quiet
      /\ UNCHANGED <<faults, rev, spc, full, hdr, name, buf, use_tmpfile, countVars>>
  BY DEF LinkTmpfile, FixReg, NoFault
<1>2. name \in Paths /\ hdr.filelen \in Nat /\ Len(buf) = hdr.filelen
  BY <1>1, EntryFacts DEF Named, RegStates, FileInv
<1>3. CASE LinkTmpfile
  <2> DEFINE node == MkNode("reg", "rwx", hdr.filelen, buf, <<>>)
  <2>1. /\ rpc = "linkat"
        /\ \/ do_exit(CreateError(dst, name), TRUE) /\ UNCHANGED <<dst, linked>>
           \/ dst' = Put(dst, name, node) /\ linked' = TRUE /\ GoOn("fix")
    BY <1>3 DEF LinkTmpfile
  <2>2. node \in Node /\ WellFormed(node)
    <3>1. <<>> \in Seq(Components)
      OBVIOUS
    <3>2. node \in Node
      BY <1>t, <1>2, <3>1, MkNodeType, Zenon
    <3>3. WellFormed(node)
      BY <1>2, MkNodeFields DEF WellFormed
    <3> QED
      BY <3>2, <3>3
  <2> HIDE DEF node
  <2>3. /\ ReplyTypes' /\ (rIn' => rIn)
        /\ \/ rpc' = "result" /\ UNCHANGED <<dst, linked>>
           \/ rpc' = "fix" /\ linked' = TRUE /\ dst' = Put(dst, name, node)
    <3>1. U32(CreateError(dst, name)) \in 0..(U32Modulus - 1)
      BY CodeTypes, Zenon
    <3>2. ASSUME do_exit(CreateError(dst, name), TRUE)
          PROVE  ReplyTypes' /\ rpc' = "result" /\ (rIn' => rIn)
      BY <3>1, <3>2, EndingTypes
    <3>3. ASSUME GoOn("fix") PROVE ReplyTypes' /\ rpc' = "fix" /\ (rIn' => rIn)
      BY <3>3, EndingTypes
    <3> QED
      BY <2>1, <3>2, <3>3
  <2>4. /\ dst' \in [Paths -> Node] /\ linked' \in BOOLEAN
        /\ \A p \in Paths : WellFormed(dst'[p])
        /\ rpc' = "fix" => dst'[name] = node
    <3>1. CASE UNCHANGED <<dst, linked>> /\ rpc' = "result"
      BY <1>t, <3>1
    <3>2. CASE linked' = TRUE /\ dst' = Put(dst, name, node)
      BY <1>t, <1>2, <2>2, <3>2, PutFacts, ZenonT(60)
    <3> QED
      BY <2>3, <3>1, <3>2
  <2>5. TypeOK'
    BY <1>1, <2>3, <2>4
       DEF TypeOK, PackTypeOK, UnpackTypeOK, packVars, countVars, ReplyTypes, Quiet
  <2>6. CASE rpc' = "result"
    BY <1>1, <2>3, <2>4, <2>5, <2>6, StopKeepsOK
  <2>7. CASE rpc' = "fix"
    <3>1. ASSUME NEW tag, Tagged(tag), ReaderAt(tag) PROVE ReaderAt(tag)'
      BY <1>1, <2>1, <2>7, <3>1, QuietPlace DEF packVars, Named, RegStates
    <3>2. PackInv' /\ PipeInv' /\ StreamInv'
      BY <1>1, <2>3, <3>1, ReaderKeepsStream DEF ReplyTypes
    <3>3. EntryInv'
      BY <1>1, <1>2, <2>7, RegEntryKept DEF RegStates
    <3>4. FileInv'
      <4>1. dst'[name'] = MkNode("reg", "rwx", hdr'.filelen, buf', <<>>)
        BY <1>1, <2>4, <2>7 DEF node
      <4>2. Len(buf') = hdr'.filelen
        BY <1>1, <1>2
      <4> QED
        BY <2>4, <2>7, <4>1, <4>2 DEF FileInv, WellFormed, MkNode
    <3> QED
      BY <2>5, <3>2, <3>3, <3>4
  <2> QED
    BY <2>3, <2>6, <2>7
<1>4. CASE FixReg
  <2>1. /\ rpc = "fix" /\ linked' = FALSE
        /\ \/ dst' = [dst EXCEPT ![name].perm = "final"] /\ GoOn("hdr")
           \/ errx /\ UNCHANGED dst
    BY <1>4 DEF FixReg, fix_times_and_perms
  <2>2. PICK perm \in {"none", "rwx"} :
           dst[name] = MkNode("reg", perm, hdr.filelen, buf, <<>>)
    BY <2>1 DEF FileInv
  <2> DEFINE node == MkNode("reg", "final", hdr.filelen, buf, <<>>)
  <2>3. node \in Node /\ WellFormed(node)
    <3>1. <<>> \in Seq(Components)
      OBVIOUS
    <3>2. node \in Node
      BY <1>t, <1>2, <3>1, MkNodeType, Zenon
    <3>3. WellFormed(node)
      BY <1>2, MkNodeFields DEF WellFormed
    <3> QED
      BY <3>2, <3>3
  <2>4. [dst EXCEPT ![name].perm = "final"] = Put(dst, name, node)
    <3>1. /\ dst[name].kind = "reg" /\ dst[name].size = hdr.filelen
          /\ dst[name].content = buf /\ dst[name].target = <<>>
      BY <2>2, MkNodeFields
    <3> QED
      BY <1>t, <1>2, <3>1, ExceptIsPut, ZenonT(60)
  <2> HIDE DEF node
  <2>5. /\ ReplyTypes' /\ (rIn' => rIn)
        /\ \/ rpc' = "hdr" /\ dst' = Put(dst, name, node)
           \/ rpc' = "exit" /\ UNCHANGED dst
    BY <2>1, <2>4, EndingTypes
  <2>6. dst' \in [Paths -> Node] /\ \A p \in Paths : WellFormed(dst'[p])
    <3>1. CASE UNCHANGED dst
      BY <1>t, <3>1
    <3>2. CASE dst' = Put(dst, name, node)
      BY <1>t, <1>2, <2>3, <3>2, PutFacts
    <3> QED
      BY <2>5, <3>1, <3>2
  <2>a. linked' \in BOOLEAN /\ rpc' \in {"hdr", "exit"}
    BY <2>1, <2>5
  <2>7. TypeOK'
    BY <1>1, <2>5, <2>6, <2>a
       DEF TypeOK, PackTypeOK, UnpackTypeOK, packVars, countVars, ReplyTypes, Quiet
  <2>8. CASE rpc' = "exit"
    BY <1>1, <2>5, <2>6, <2>7, <2>8, StopKeepsOK
  <2>9. CASE rpc' = "hdr"
    <3>1. ASSUME NEW tag, Tagged(tag), ReaderAt(tag) PROVE ReaderAt(tag)'
      BY <1>1, <2>1, <2>9, <3>1, QuietPlace DEF packVars, Named, RegStates
    <3>2. PackInv' /\ PipeInv' /\ StreamInv'
      BY <1>1, <2>5, <3>1, ReaderKeepsStream DEF ReplyTypes
    <3>3. EntryInv' /\ FileInv'
      BY <2>6, <2>9 DEF EntryInv, Named, RegStates, FileInv, WellFormed
    <3> QED
      BY <2>7, <3>2, <3>3
  <2> QED
    BY <2>5, <2>8, <2>9
<1> QED
  BY <1>3, <1>4

(* EOF or an error in the middle of an entry ends the program.             *)
LEMMA CutKeepsOK ==
    ASSUME UnpackOK, UNCHANGED packVars, ReadEof \/ ReadError
    PROVE  UnpackOK'
<1> USE DEF UnpackOK, PackOK
<1>1. /\ do_exit(LEGAL_EOF, rpc # "name") /\ Quiet /\ faults' \in 0..MaxFaults
      /\ UNCHANGED <<rev, spc, treeVars, fileVars, countVars>>
  BY QfileWireAssumption DEF ReadEof, ReadError, NoFault, Fault, TypeOK
<1>2. ReplyTypes' /\ rpc' = "result" /\ (rIn' => rIn)
  <2>1. U32(LEGAL_EOF) \in 0..(U32Modulus - 1) /\ (rpc # "name") \in BOOLEAN
    BY CodeTypes, Zenon
  <2> QED
    BY <1>1, <2>1, EndingTypes
<1>3. TypeOK'
  BY <1>1, <1>2
     DEF TypeOK, PackTypeOK, UnpackTypeOK, packVars, treeVars, fileVars,
         countVars, ReplyTypes, Quiet
<1> QED
  BY <1>1, <1>2, <1>3, StopKeepsOK DEF FileInv, treeVars

(* A check that passes leaves a name that is free or a directory.          *)
LEMMA DirErrorZero ==
    ASSUME NEW tree, NEW p, NEW flags, DirError(tree, p, flags) = 0
    PROVE  tree[p].kind \in {"none", "dir"}
<1> DEFINE rc == ValidateFileName(p, flags)
           od == OpendirSafe(tree, p)
<1>1. DirError(tree, p, flags) = IF rc # 0 THEN rc
                                 ELSE IF od # 0 THEN od
                                 ELSE IF tree[p].kind \in {"none", "dir"} THEN 0 ELSE 20
  BY Zenon DEF DirError, ENOTDIR
<1> HIDE DEF rc, od
<1> QED
  BY <1>1

(* A new mode keeps a directory or a finished file what it is.             *)
LEMMA NewModeKept ==
    ASSUME dst \in [Paths -> Node], \A p \in Paths : WellFormed(dst[p]),
           name \in Paths, dst' = [dst EXCEPT ![name].perm = "final"],
           dst[name].kind = "dir" \/ (dst[name].kind = "reg" /\ dst[name].size = Len(dst[name].content))
    PROVE  dst' \in [Paths -> Node] /\ \A p \in Paths : WellFormed(dst'[p])
<1> DEFINE node == MkNode(dst[name].kind, "final", dst[name].size,
                          dst[name].content, dst[name].target)
<1>1. dst' = Put(dst, name, node)
  BY ExceptIsPut
<1>2. dst[name] \in Node
  OBVIOUS
<1>3. node \in Node
  BY <1>2, NodeFields, MkNodeType
<1>4. WellFormed(node)
  BY MkNodeFields DEF WellFormed
<1> HIDE DEF node
<1>5. /\ Put(dst, name, node) \in [Paths -> Node]
      /\ \A p \in Paths : WellFormed(Put(dst, name, node)[p])
  BY <1>3, <1>4, PutFacts, Zenon
<1> QED
  BY <1>1, <1>5, Zenon

(* process_one_file_dir(): the directory is made, or found and finished.   *)
LEMMA MakeDirKeepsOK ==
    ASSUME UnpackOK, UNCHANGED packVars, MakeDir
    PROVE  UnpackOK'
<1> USE DEF UnpackOK, PackOK
<1>t. /\ dst \in [Paths -> Node] /\ \A p \in Paths : WellFormed(dst[p])
      /\ total_bytes \in Nat /\ DirSize \in Nat
  BY QfileUnpackAssumption DEF TypeOK, UnpackTypeOK, FileInv
<1> DEFINE rc == DirError(dst, name, validate_flags)
           node == MkNode("dir", "rwx", 0, <<>>, <<>>)
<1>1. /\ rpc = "dir" /\ Quiet /\ UNCHANGED <<faults, rev, spc, full, fileVars, total_files>>
      /\ \/ do_exit(rc, TRUE) /\ UNCHANGED <<dst, total_bytes>>
         \/ GoOn("hdr") /\ dst' = Put(dst, name, node) /\ UNCHANGED total_bytes
         \/ /\ rc = 0 /\ CreateError(dst, name) # 0 /\ total_bytes' = total_bytes + DirSize
            /\ \/ dst' = [dst EXCEPT ![name].perm = "final"] /\ GoOn("hdr")
               \/ errx /\ UNCHANGED dst
  BY DEF MakeDir, NoFault, fix_times_and_perms
<1>2. name \in Paths
  BY <1>1, EntryFacts DEF Named
<1>3. node \in Node /\ WellFormed(node)
  <2>1. <<>> \in Seq(Components) /\ <<>> \in Seq(Chunks) /\ 0 \in Nat
    OBVIOUS
  <2>2. node \in Node
    BY <2>1, MkNodeType, Zenon
  <2>3. WellFormed(node)
    BY MkNodeFields DEF WellFormed
  <2> QED
    BY <2>2, <2>3
<1>4. rc = 0 /\ CreateError(dst, name) # 0 => dst[name].kind = "dir"
  BY DirErrorZero DEF CreateError, Exists
<1> HIDE DEF node, rc
<1>5. /\ ReplyTypes' /\ (rIn' => rIn) /\ rpc' \in {"result", "exit", "hdr"}
      /\ dst' \in [Paths -> Node] /\ \A p \in Paths : WellFormed(dst'[p])
      /\ total_bytes' \in Nat
  <2>1. CASE do_exit(rc, TRUE) /\ UNCHANGED <<dst, total_bytes>>
    <3>1. U32(rc) \in 0..(U32Modulus - 1)
      BY CodeTypes, Zenon DEF rc
    <3>2. ReplyTypes' /\ rpc' = "result" /\ (rIn' => rIn)
      BY <2>1, <3>1, EndingTypes
    <3> QED
      BY <1>t, <2>1, <3>2
  <2>2. CASE GoOn("hdr") /\ dst' = Put(dst, name, node) /\ UNCHANGED total_bytes
    <3>1. ReplyTypes' /\ rpc' = "hdr" /\ (rIn' => rIn)
      BY <2>2, EndingTypes
    <3> QED
      BY <1>t, <1>2, <1>3, <2>2, <3>1, PutFacts
  <2>3. CASE /\ rc = 0 /\ CreateError(dst, name) # 0 /\ total_bytes' = total_bytes + DirSize
             /\ dst' = [dst EXCEPT ![name].perm = "final"] /\ GoOn("hdr")
    <3>1. ReplyTypes' /\ rpc' = "hdr" /\ (rIn' => rIn)
      BY <2>3, EndingTypes
    <3>2. dst' \in [Paths -> Node] /\ \A p \in Paths : WellFormed(dst'[p])
      BY <1>t, <1>2, <1>4, <2>3, NewModeKept
    <3> QED
      BY <1>t, <2>3, <3>1, <3>2
  <2>4. CASE errx /\ UNCHANGED dst /\ total_bytes' = total_bytes + DirSize
    <3>1. ReplyTypes' /\ rpc' = "exit" /\ (rIn' => rIn)
      BY <2>4, EndingTypes
    <3> QED
      BY <1>t, <2>4, <3>1
  <2> QED
    BY <1>1, <2>1, <2>2, <2>3, <2>4
<1>6. TypeOK'
  BY <1>1, <1>5
     DEF TypeOK, PackTypeOK, UnpackTypeOK, packVars, fileVars, ReplyTypes, Quiet
<1>7. CASE rpc' \in {"result", "exit"}
  BY <1>1, <1>5, <1>6, <1>7, StopKeepsOK
<1>8. CASE rpc' = "hdr"
  <2>1. ASSUME NEW tag, Tagged(tag), ReaderAt(tag) PROVE ReaderAt(tag)'
    BY <1>1, <1>8, <2>1, QuietPlace DEF packVars, fileVars, Named, RegStates
  <2>2. PackInv' /\ PipeInv' /\ StreamInv'
    BY <1>1, <1>5, <2>1, ReaderKeepsStream DEF ReplyTypes
  <2>3. EntryInv' /\ FileInv'
    BY <1>5, <1>8 DEF EntryInv, Named, RegStates, FileInv, WellFormed
  <2> QED
    BY <1>6, <2>2, <2>3
<1> QED
  BY <1>5, <1>7, <1>8

(* process_one_file_link() before it reads the target (unpack.c:298-309).  *)
LEMMA LinkQuotaKeepsOK ==
    ASSUME UnpackOK, UNCHANGED packVars, LinkQuota
    PROVE  UnpackOK'
<1> USE DEF UnpackOK, PackOK
<1>1. /\ rpc = "link" /\ Quiet /\ UNCHANGED <<faults, rev, spc, treeVars, fileVars, total_files>>
      /\ total_bytes' \in {total_bytes, total_bytes + hdr.filelen}
      /\ \/ do_exit(ENAMETOOLONG, TRUE)
         \/ do_exit(EDQUOT, TRUE)
         \/ GoOn("target")
  BY DEF LinkQuota, NoFault
<1>2. name \in Paths /\ hdr.filelen \in Nat
  BY <1>1, EntryFacts DEF Named
<1>3. total_bytes' \in Nat
  BY <1>1, <1>2 DEF TypeOK, UnpackTypeOK
<1>4. ReplyTypes' /\ (rIn' => rIn) /\ rpc' \in {"result", "target"}
  <2>1. /\ U32(ENAMETOOLONG) \in 0..(U32Modulus - 1)
        /\ U32(EDQUOT) \in 0..(U32Modulus - 1)
    BY CodeTypes, Zenon
  <2> QED
    BY <1>1, <2>1, EndingTypes
<1>5. TypeOK'
  BY <1>1, <1>3, <1>4
     DEF TypeOK, PackTypeOK, UnpackTypeOK, packVars, treeVars, fileVars, ReplyTypes, Quiet
<1>6. CASE rpc' = "result"
  BY <1>1, <1>4, <1>5, <1>6, StopKeepsOK DEF FileInv, treeVars
<1>7. CASE rpc' = "target"
  <2>1. ASSUME NEW tag, Tagged(tag), ReaderAt(tag) PROVE ReaderAt(tag)'
    BY <1>1, <1>7, <2>1, QuietPlace DEF packVars, fileVars, Named, RegStates
  <2>2. PackInv' /\ PipeInv' /\ StreamInv'
    BY <1>1, <1>4, <2>1, ReaderKeepsStream DEF ReplyTypes
  <2>3. EntryInv'
    BY <1>1, <1>7 DEF EntryInv, Named, RegStates, fileVars
  <2>4. FileInv'
    BY <1>1, <1>7 DEF FileInv, treeVars
  <2> QED
    BY <1>5, <2>2, <2>3, <2>4
<1> QED
  BY <1>4, <1>6, <1>7

(* A check that passes leaves a name that is free.                         *)
LEMMA LinkErrorZero ==
    ASSUME NEW tree, NEW p, NEW target, NEW flags, LinkError(tree, p, target, flags) = 0
    PROVE  ~Exists(tree, p)
<1> DEFINE rc == ValidateSymbolicLink(p, target, flags)
           od == OpendirSafe(tree, p)
           ce == CreateError(tree, p)
<1>1. rc \in {0, -67, -84}
  BY ZenonT(60) DEF ValidateSymbolicLink, EILSEQ, ENOLINK
<1>2. LinkError(tree, p, target, flags) =
        IF rc # 0 THEN -rc ELSE IF od # 0 THEN od
        ELSE IF target = <<>> THEN 2 ELSE ce
  BY Zenon DEF LinkError, ENOENT
<1> HIDE DEF rc, od
<1>3. ce = 0
  BY <1>1, <1>2
<1> QED
  BY <1>3 DEF CreateError, EEXIST

(* Faults are counted up to their bound.                                   *)
LEMMA FaultFacts ==
    ASSUME faults \in 0..MaxFaults, Fault \/ NoFault
    PROVE  faults' \in 0..MaxFaults
  BY QfileWireAssumption DEF Fault, NoFault

(* A link without a target is refused.                                     *)
LEMMA NoTarget ==
    ASSUME NEW tree, NEW p, NEW flags
    PROVE  LinkError(tree, p, <<>>, flags) # 0
<1> DEFINE rc == ValidateSymbolicLink(p, <<>>, flags)
           od == OpendirSafe(tree, p)
<1>1. rc \in {0, -67, -84}
  BY ZenonT(60) DEF ValidateSymbolicLink, EILSEQ, ENOLINK
<1>2. LinkError(tree, p, <<>>, flags) =
        IF rc # 0 THEN -rc ELSE IF od # 0 THEN od ELSE 2
  BY Zenon DEF LinkError, ENOENT
<1> HIDE DEF rc, od
<1> QED
  BY <1>1, <1>2

(* What process_one_file_link() does with a target, and with none.         *)
LEMMA MakeLinkSteps ==
    ASSUME TypeOK, PipeInv, MakeLink \/ LinkFails
    PROVE  /\ rpc = "target" /\ (Receive \/ Quiet) /\ faults' \in 0..MaxFaults
           /\ UNCHANGED <<rev, spc, full, fileVars, countVars>>
           /\ \/ \E target : do_exit(LinkError(dst, name, target, validate_flags), TRUE) /\ UNCHANGED dst
              \/ do_exit(EIO, TRUE) /\ UNCHANGED dst
              \/ /\ Receive /\ GoOn("hdr")
                 /\ \E item \in Incoming :
                       /\ LinkError(dst, name, item.v, validate_flags) = 0
                       /\ dst' = Put(dst, name, MkNode("link", "final", Len(item.v), <<>>, item.v))
<1>1. CASE MakeLink
  <2>1. /\ rpc = "target" /\ faults' = faults /\ UNCHANGED <<rev, spc, full, fileVars, countVars>>
    BY <1>1 DEF MakeLink, NoFault
  <2>2. faults' \in 0..MaxFaults
    BY <2>1 DEF TypeOK
  <2>3. CASE Receive /\ \E item \in Incoming : StoreLink(item.v)
    BY <2>1, <2>2, <2>3 DEF StoreLink
  <2>4. CASE Quiet /\ StoreLink(<<>>)
    <3>1. do_exit(LinkError(dst, name, <<>>, validate_flags), TRUE) /\ UNCHANGED dst
      BY <2>4, NoTarget DEF StoreLink
    <3> QED
      BY <2>1, <2>2, <2>4, <3>1
  <2> QED
    BY <1>1, <2>3, <2>4 DEF MakeLink
<1>2. CASE LinkFails
  <2>1. faults' \in 0..MaxFaults
    BY <1>2, FaultFacts DEF LinkFails, TypeOK
  <2>2. /\ rpc = "target" /\ Receive /\ do_exit(EIO, TRUE) /\ UNCHANGED dst
        /\ UNCHANGED <<rev, spc, full, fileVars, countVars>>
    BY <1>2, Zenon DEF LinkFails, treeVars
  <2> QED
    BY <2>1, <2>2
<1> QED
  BY <1>1, <1>2

(* process_one_file_link() makes the link or ends the program.             *)
LEMMA MakeLinkKeepsOK ==
    ASSUME UnpackOK, UNCHANGED packVars, MakeLink \/ LinkFails
    PROVE  UnpackOK'
<1> USE DEF UnpackOK, PackOK
<1>0. UNCHANGED crcS
  BY DEF packVars
<1>t. dst \in [Paths -> Node] /\ \A p \in Paths : WellFormed(dst[p])
  BY DEF TypeOK, UnpackTypeOK, FileInv
<1>1. /\ rpc = "target" /\ (Receive \/ Quiet) /\ faults' \in 0..MaxFaults
      /\ UNCHANGED <<rev, spc, full, fileVars, countVars>>
      /\ \/ \E target : do_exit(LinkError(dst, name, target, validate_flags), TRUE) /\ UNCHANGED dst
         \/ do_exit(EIO, TRUE) /\ UNCHANGED dst
         \/ /\ Receive /\ GoOn("hdr")
            /\ \E item \in Incoming :
                  dst' = Put(dst, name, MkNode("link", "final", Len(item.v), <<>>, item.v))
  BY MakeLinkSteps
<1>2. /\ fwd' \in Seq(Items) /\ Len(fwd') <= FwdCap /\ crcR' \in Seq(Items)
      /\ slip' \in 0..MaxReads
  <2>1. CASE Receive
    BY <2>1, ReceiveFacts
  <2>2. CASE Quiet
    BY <2>2 DEF Quiet, TypeOK, UnpackTypeOK, Checksum
  <2> QED
    BY <1>1, <2>1, <2>2
<1>3. name \in Paths
  BY <1>1, EntryFacts DEF Named
<1>6. /\ ReplyTypes' /\ (rIn' => rIn) /\ dst' \in [Paths -> Node]
      /\ \A p \in Paths : WellFormed(dst'[p])
      /\ rpc' = "result" \/ (rpc' = "hdr" /\ Receive)
  <2>1. ASSUME NEW code, do_exit(code, TRUE), U32(code) \in 0..(U32Modulus - 1), UNCHANGED dst
        PROVE  /\ ReplyTypes' /\ (rIn' => rIn) /\ dst' \in [Paths -> Node]
               /\ \A p \in Paths : WellFormed(dst'[p])
               /\ rpc' = "result"
    <3>1. ReplyTypes' /\ rpc' = "result" /\ (rIn' => rIn)
      BY <2>1, EndingTypes
    <3> QED
      BY <1>t, <2>1, <3>1
  <2>2. CASE \E target : do_exit(LinkError(dst, name, target, validate_flags), TRUE) /\ UNCHANGED dst
    <3>1. PICK target : do_exit(LinkError(dst, name, target, validate_flags), TRUE) /\ UNCHANGED dst
      BY <2>2
    <3>2. U32(LinkError(dst, name, target, validate_flags)) \in 0..(U32Modulus - 1)
      BY CodeTypes, Zenon
    <3> QED
      BY <2>1, <3>1, <3>2
  <2>3. CASE do_exit(EIO, TRUE) /\ UNCHANGED dst
    <3>1. U32(EIO) \in 0..(U32Modulus - 1)
      BY CodeTypes, Zenon
    <3> QED
      BY <2>1, <2>3, <3>1
  <2>4. CASE /\ Receive /\ GoOn("hdr")
             /\ \E item \in Incoming :
                   dst' = Put(dst, name, MkNode("link", "final", Len(item.v), <<>>, item.v))
    <3>1. PICK item \in Incoming :
             dst' = Put(dst, name, MkNode("link", "final", Len(item.v), <<>>, item.v))
      BY <2>4
    <3>2. PICK target : target = item.v
      OBVIOUS
    <3>3. target \in Seq(Components)
      BY <1>1, <2>4, <3>2, IncomingFacts
    <3> DEFINE node == MkNode("link", "final", Len(target), <<>>, target)
    <3>4. node \in Node
      <4>1. <<>> \in Seq(Chunks) /\ Len(target) \in Nat
        BY <3>3
      <4> QED
        BY <3>3, <4>1, MkNodeType, Zenon
    <3>5. WellFormed(node)
      BY MkNodeFields DEF WellFormed
    <3>6. dst' = Put(dst, name, node)
      BY <3>1, <3>2
    <3> HIDE DEF node
    <3>7. ReplyTypes' /\ rpc' = "hdr" /\ (rIn' => rIn)
      BY <2>4, EndingTypes
    <3> QED
      BY <1>t, <1>3, <2>4, <3>4, <3>5, <3>6, <3>7, PutFacts
  <2> QED
    BY <1>1, <2>2, <2>3, <2>4
<1>7. TypeOK'
  BY <1>1, <1>2, <1>6
     DEF TypeOK, PackTypeOK, UnpackTypeOK, packVars, fileVars, countVars, ReplyTypes, Checksum
<1>8. CASE rpc' = "result"
  BY <1>1, <1>6, <1>7, <1>8, StopKeepsOK
<1>9. CASE rpc' = "hdr" /\ Receive
  <2>1. ASSUME NEW tag, Tagged(tag), ReaderAt(tag) PROVE ReaderAt(tag)'
    <3>1. PICK t : t = tag[Len(crcR')]
      OBVIOUS
    <3>2. PICK e : e = tag[Len(crcR)].e
      OBVIOUS
    <3> SUFFICES ASSUME Steady'
                 PROVE  slip' = 0 /\ t.e # <<>> /\ t.j = EntryLen(t.e)
      BY <1>9, <3>1, PlaceAfter DEF Named, RegStates
    <3>3. /\ Due /\ slip' = 0
          /\ Len(crcR') = Len(crcR) + 1 /\ Len(crcR) \in Nat
      BY <1>0, <1>9, ReadKeepsPlace
    <3>4. t = Tag(e, 3) /\ EntryLen(e) = 3
      BY <1>1, <2>1, <3>1, <3>2, <3>3, TargetIsDue
    <3>5. Len(crcR) > 0 /\ e # <<>>
      BY <1>1, <2>1, <3>2, <3>3 DEF ReaderAt, ReaderPlace, Due, Named
    <3>6. t.e = e /\ t.j = 3
      BY <2>1, <3>2, <3>4, <3>5, EntryAt, TagFacts DEF Entries
    <3> QED
      BY <3>3, <3>4, <3>5, <3>6
  <2>2. PackInv' /\ PipeInv' /\ StreamInv'
    BY <1>1, <1>6, <2>1, ReaderKeepsStream DEF ReplyTypes
  <2>3. EntryInv' /\ FileInv'
    BY <1>6, <1>9 DEF EntryInv, Named, RegStates, FileInv, WellFormed
  <2> QED
    BY <1>7, <2>2, <2>3
<1> QED
  BY <1>6, <1>8, <1>9

(* openat(), linkat(), mkdirat(), fchmod() or futimens() fails: the mode   *)
(* may be set, which only finished files and directories come to.          *)
LEMMA FileSystemErrorKeepsOK ==
    ASSUME UnpackOK, UNCHANGED packVars, FileSystemError
    PROVE  UnpackOK'
<1> USE DEF UnpackOK, PackOK
<1>t. dst \in [Paths -> Node] /\ \A p \in Paths : WellFormed(dst[p])
  BY DEF TypeOK, UnpackTypeOK, FileInv
<1>1. /\ rpc \in {"reg", "dir", "fix", "linkat"} /\ Quiet
      /\ UNCHANGED <<rev, spc, full, fileVars, countVars>>
      /\ do_exit(EIO, TRUE)
      /\ rpc = "dir" => DirError(dst, name, validate_flags) = 0
      /\ \/ UNCHANGED dst
         \/ /\ rpc \in {"fix", "dir"} /\ Exists(dst, name)
            /\ dst' = [dst EXCEPT ![name].perm = "final"]
  BY Zenon DEF FileSystemError
<1>2. faults' \in 0..MaxFaults
  BY FaultFacts DEF FileSystemError, TypeOK
<1>3. ReplyTypes' /\ rpc' = "result" /\ (rIn' => rIn)
  <2>1. U32(EIO) \in 0..(U32Modulus - 1)
    BY CodeTypes
  <2> QED
    BY <1>1, <2>1, EndingTypes
<1>4. dst' \in [Paths -> Node] /\ \A p \in Paths : WellFormed(dst'[p])
  <2>1. CASE UNCHANGED dst
    BY <1>t, <2>1
  <2>2. CASE /\ rpc \in {"fix", "dir"} /\ Exists(dst, name)
             /\ dst' = [dst EXCEPT ![name].perm = "final"]
    <3>1. name \in Paths
      BY <2>2, EntryFacts DEF Named, RegStates
    <3>2. dst[name].kind = "dir" \/ (dst[name].kind = "reg" /\ dst[name].size = Len(dst[name].content))
      <4>1. CASE rpc = "dir"
        BY <1>1, <2>2, <4>1, DirErrorZero DEF Exists
      <4>2. CASE rpc = "fix"
        BY <4>2, MkNodeFields DEF FileInv
      <4> QED
        BY <2>2, <4>1, <4>2
    <3> QED
      BY <1>t, <2>2, <3>1, <3>2, NewModeKept
  <2> QED
    BY <1>1, <2>1, <2>2
<1>5. TypeOK'
  BY <1>1, <1>2, <1>3, <1>4
     DEF TypeOK, PackTypeOK, UnpackTypeOK, packVars, fileVars, countVars, ReplyTypes, Quiet
<1> QED
  BY <1>1, <1>3, <1>4, <1>5, StopKeepsOK

(* The tail of do_unpack_ext() and send_status_and_crc(), and a kill.      *)
LEMMA ReplyKeepsOK ==
    ASSUME UnpackOK, UNCHANGED packVars, Sync \/ SendResult \/ SendExt \/ KillUnpacker
    PROVE  UnpackOK'
<1> USE DEF UnpackOK, PackOK
<1>1. /\ Quiet /\ UNCHANGED <<spc, treeVars, fileVars, countVars>>
      /\ rpc' \in {"result", "ext", "exit"}
  BY DEF Sync, SendResult, SendExt, KillUnpacker, Reply
<1>2. faults' \in 0..MaxFaults
  BY FaultFacts DEF Sync, SendResult, SendExt, KillUnpacker, TypeOK
<1>3. rIn' \in BOOLEAN /\ (rIn' => rIn)
  <2>1. CASE Sync
    BY <2>1 DEF Sync, TypeOK, UnpackTypeOK
  <2>2. CASE KillUnpacker
    BY <2>2 DEF KillUnpacker
  <2>3. CASE SendResult \/ SendExt
    <3>1. PICK next : rIn' = (rIn /\ next # "exit")
      BY <2>3 DEF SendResult, SendExt, Reply
    <3> QED
      BY <3>1
  <2> QED
    BY <2>1, <2>2, <2>3
<1>4. rCode' \in 0..(U32Modulus - 1)
  <2>1. rCode \in 0..(U32Modulus - 1) /\ EIO \in 0..(U32Modulus - 1)
    BY CodeTypes DEF TypeOK, UnpackTypeOK
  <2>2. rCode' = rCode \/ rCode' = EIO
    BY Zenon DEF Sync, SendResult, SendExt, KillUnpacker, replyVars
  <2> QED
    BY <2>1, <2>2, Zenon
<1>5. marker' \in BOOLEAN /\ withName' \in BOOLEAN /\ replied' \in BOOLEAN
  BY DEF Sync, SendResult, SendExt, KillUnpacker, replyVars, TypeOK, UnpackTypeOK
<1>6. rev' \in Seq(Replies) /\ Len(rev') <= RevCap
  <2>t. rev \in Seq(Replies) /\ Len(rev) <= RevCap /\ RevCap \in Nat
    BY QfileWireAssumption DEF TypeOK
  <2>1. Ext \in Replies /\ Result(rCode, crcR) \in Replies
    BY DEF Replies, Result, Checksum, TypeOK, UnpackTypeOK
  <2>2. ASSUME NEW item \in Replies, NEW next, Reply(item, next)
        PROVE  rev' \in Seq(Replies) /\ Len(rev') <= RevCap
    BY <2>t, <2>2 DEF Reply, CanWrite
  <2>3. \/ UNCHANGED rev
        \/ \E next : Reply(Ext, next) \/ Reply(Result(rCode, crcR), next)
    BY Zenon DEF Sync, SendResult, SendExt, KillUnpacker
  <2> QED
    BY <2>t, <2>1, <2>2, <2>3
<1>7. TypeOK'
  BY <1>1, <1>2, <1>3, <1>4, <1>5, <1>6
     DEF TypeOK, PackTypeOK, UnpackTypeOK, packVars, treeVars, fileVars, countVars, Quiet
<1>8. \A p \in Paths : WellFormed(dst'[p])
  BY <1>1 DEF FileInv, treeVars
<1> QED
  BY <1>1, <1>3, <1>7, <1>8, StopKeepsOK

(* Another program fills or frees the disk.                                *)
LEMMA DiskKeepsOK ==
    ASSUME UnpackOK, UNCHANGED packVars, DiskFills \/ DiskFrees
    PROVE  UnpackOK'
<1> USE DEF UnpackOK, PackOK
<1>1. /\ UNCHANGED <<fwd, crcR, slip, rev, spc, rpc, rIn, dst, fileVars, countVars, replyVars>>
      /\ full' \in BOOLEAN
  BY DEF DiskFills, DiskFrees, Quiet
<1>2. faults' \in 0..MaxFaults
  BY FaultFacts DEF DiskFills, DiskFrees, TypeOK
<1>3. TypeOK'
  BY <1>1, <1>2
     DEF TypeOK, PackTypeOK, UnpackTypeOK, packVars, fileVars, countVars, replyVars
<1>4. PackInv' /\ EntryInv' /\ FileInv'
  BY <1>1 DEF PackInv, EntryInv, FileInv, packVars, fileVars
<1>5. PipeInv' /\ StreamInv'
  <2>1. \A tag : SenderAt(tag) => SenderAt(tag)'
    BY <1>1 DEF SenderAt, AtEntry, packVars
  <2> QED
    BY <1>1, <2>1, AsideKeepsStream DEF packVars, fileVars, readerVars
<1> QED
  BY <1>3, <1>4, <1>5

(* A read ends inside an item only once a header was garbled.              *)
LEMMA ReadPartKeepsOK ==
    ASSUME UnpackOK, UNCHANGED packVars, ReadPart
    PROVE  UnpackOK'
<1> USE DEF UnpackOK, PackOK
<1>1. /\ Reading /\ rIn /\ fwd # <<>> /\ ~Placed
      /\ fwd' = Tail(fwd) /\ slip' = 1
      /\ UNCHANGED <<faults, rev, spc, rpc, rIn, treeVars, fileVars, countVars, crcR, replyVars>>
  BY DEF ReadPart, NoFault
<1>2. ~Steady
  BY <1>1, DueIsPlaced DEF Due
<1>3. fwd' \in Seq(Items) /\ Len(fwd') <= FwdCap
  BY <1>1, HeadFacts DEF TypeOK
<1>4. slip' \in 0..MaxReads
  BY <1>1, QfileWireAssumption
<1>5. TypeOK'
  BY <1>1, <1>3, <1>4
     DEF TypeOK, PackTypeOK, UnpackTypeOK, packVars, treeVars, fileVars, countVars, replyVars
<1>6. PackInv' /\ EntryInv' /\ FileInv'
  BY <1>1 DEF PackInv, EntryInv, FileInv, packVars, treeVars, fileVars
<1>7. PipeInv'
  BY <1>1 DEF PipeInv, packVars
<1>8. StreamInv'
  <2>1. PICK tag \in Seq(Tags) : Tagged(tag) /\ SenderAt(tag)
    BY DEF StreamInv
  <2>2. Tagged(tag)' /\ SenderAt(tag)'
    BY <1>1, <2>1 DEF Tagged, SenderAt, packVars
  <2>3. ~Steady'
    BY <1>1, <1>2 DEF Steady, packVars
  <2> QED
    BY <2>2, <2>3 DEF StreamInv, ReaderAt
<1> QED
  BY <1>5, <1>6, <1>7, <1>8

(* An item is garbled on its way: it keeps its place.                      *)
LEMMA GarbleKeepsOK ==
    ASSUME UnpackOK, UNCHANGED <<packVars, unpackVars>>,
           NEW i \in 1..Len(fwd), Garble(i)
    PROVE  UnpackOK'
<1> USE DEF UnpackOK, PackOK
<1>t. fwd \in Seq(Items) /\ Len(fwd) <= FwdCap /\ fwd[i] \in Items
  BY DEF TypeOK
<1>1. PICK item \in Garbled(fwd[i]) : fwd' = [fwd EXCEPT ![i] = item]
  BY DEF Garble
<1>2. UNCHANGED <<rev, spc, rpc, rIn>> /\ faults' \in 0..MaxFaults
  BY FaultFacts DEF Garble, Fault, TypeOK
<1>3. item \in Items /\ \A true : Like(fwd[i], true) => Like(item, true)
  <2>1. /\ item \in Garbage /\ item.t = fwd[i].t
        /\ fwd[i].t \in {"name", "target"} => item.len = fwd[i].len
    BY <1>1 DEF Garbled
  <2> QED
    BY <2>1, GarbageAssumption DEF Like
<1>4. /\ fwd' \in Seq(Items) /\ Len(fwd') = Len(fwd)
      /\ fwd'[i] = item /\ \A k \in 1..Len(fwd) : k # i => fwd'[k] = fwd[k]
  BY <1>t, <1>1, <1>3
<1>5. TypeOK'
  BY <1>t, <1>2, <1>4
     DEF TypeOK, PackTypeOK, UnpackTypeOK, packVars, unpackVars, treeVars, fileVars,
         countVars, replyVars
<1>6. PackInv' /\ EntryInv' /\ FileInv'
  BY <1>2 DEF PackInv, EntryInv, FileInv, packVars, unpackVars, treeVars, fileVars
<1>7. StreamInv'
  <2>1. PICK tag \in Seq(Tags) : Tagged(tag) /\ SenderAt(tag) /\ ReaderAt(tag)
    BY DEF StreamInv
  <2>2. (Tagged(tag) /\ SenderAt(tag) /\ ReaderAt(tag))'
    BY <1>2, <2>1 DEF Tagged, Follows, AtEntry, SenderAt, ReaderAt, ReaderPlace, Steady, Clean,
                       packVars, unpackVars, fileVars
  <2> QED
    BY <2>2 DEF StreamInv
<1>8. PipeInv'
  <2>1. UNCHANGED <<crcR, crcS, rIn, slip>>
    BY <1>2 DEF packVars, unpackVars
  <2>2. ASSUME rIn, slip = 0, NEW k \in 1..Len(fwd) PROVE Like(fwd'[k], crcS[Len(crcR) + k])
    <3>1. Like(fwd[k], crcS[Len(crcR) + k])
      BY <2>2 DEF PipeInv
    <3> QED
      BY <1>3, <1>4, <3>1
  <2> QED
    BY <1>4, <2>1, <2>2 DEF PipeInv
<1> QED
  BY <1>5, <1>6, <1>7, <1>8

(***************************************************************************)
(* The theorems                                                            *)
(***************************************************************************)

(* No step of the packer touches what the unpacker works on.               *)
LEMMA PackKeepsReader ==
    ASSUME EntryInv, FileInv, UNCHANGED <<rpc, unpackVars>>
    PROVE  EntryInv' /\ FileInv'
  BY DEF EntryInv, FileInv, unpackVars, treeVars, fileVars

(* Nothing is in the pipes when do_unpack_ext() and the walk begin.        *)
LEMMA InitOK ==
    ASSUME Init
    PROVE  UnpackOK
<1> USE DEF Init, PackInit, UnpackInit
<1>1. TypeOK
  <2>1. PackTypeOK
    <3>1. Children(<<>>) \in SUBSET Names
      BY DEF Children
    <3>2. Frame(<<>>, Children(<<>>)) \in [dir : Paths \cup {<<>>}, todo : SUBSET Names]
      BY <3>1 DEF Frame
    <3>3. stack \in Seq([dir : Paths \cup {<<>>}, todo : SUBSET Names]) /\ stack # <<>>
      BY <3>2
    <3>4. sRes \in Replies \ {Ext}
      <4>1. NoResult.t = "result" /\ Ext.t = "ext"
        BY DEF NoResult, Result, Ext
      <4>2. <<>> \in Checksum
        BY DEF Checksum
      <4>3. NoResult \in Replies
        BY <4>2, CodeTypes DEF NoResult, Result, Replies
      <4> QED
        BY <4>1, <4>3
    <3>5. crcS \in Checksum
      BY DEF Checksum
    <3>6. sBlock \in BOOLEAN
      OBVIOUS
    <3>7. /\ spc \in {"walk", "hdr", "name", "data", "wait", "ext", "end", "exit"}
          /\ cur \in DOMAIN SrcTree \cup {<<>>} /\ sent \in Nat
          /\ cont \in {"walk", "exit1", "exit0"}
          /\ sExit \in {-1, 0, 1} /\ report \in Reports
      BY DEF Reports
    <3> QED
      BY <3>3, <3>4, <3>5, <3>6, <3>7 DEF PackTypeOK
  <2>2. UnpackTypeOK
    <3>1. dst \in [Paths -> Node] /\ use_tmpfile \in BOOLEAN
      BY QfileUnpackAssumption
    <3>2. rCode \in 0..(U32Modulus - 1)
      BY CodeTypes
    <3>3. hdr \in Headers
      BY MarkerType
    <3>4. /\ rpc \in {"hdr", "name", "reg", "quota", "space", "data", "linkat", "fix",
                     "dir", "link", "target", "sync", "result", "ext", "exit"}
          /\ name \in Paths \cup {<<>>} /\ buf \in Seq(Chunks)
          /\ total_bytes \in Nat /\ total_files \in Nat
      OBVIOUS
    <3>5. crcR \in Checksum /\ slip \in 0..MaxReads
      BY QfileWireAssumption DEF Checksum
    <3>6. /\ rIn \in BOOLEAN /\ full \in BOOLEAN /\ linked \in BOOLEAN
          /\ marker \in BOOLEAN /\ withName \in BOOLEAN /\ replied \in BOOLEAN
      OBVIOUS
    <3> QED
      BY <3>1, <3>2, <3>3, <3>4, <3>5, <3>6 DEF UnpackTypeOK
  <2> QED
    BY <2>1, <2>2, QfileWireAssumption DEF TypeOK
<1>2. PackInv
  <2>1. stack = <<Frame(<<>>, Children(<<>>))>>
    OBVIOUS
  <2>2. Frame(<<>>, Children(<<>>)).todo \subseteq Children(Frame(<<>>, Children(<<>>)).dir)
    BY DEF Frame
  <2> QED
    BY <2>1, <2>2 DEF PackInv
<1>3. PipeInv
  BY DEF PipeInv
<1>4. StreamInv
  <2>1. <<>> \in Seq(Tags)
    OBVIOUS
  <2>2. Tagged(<<>>) /\ SenderAt(<<>>) /\ ReaderAt(<<>>)
    BY <2>1 DEF Tagged, SenderAt, ReaderAt, AtEntry, Named, RegStates
  <2> QED
    BY <2>1, <2>2 DEF StreamInv
<1>5. EntryInv
  BY DEF EntryInv, Named, RegStates
<1>6. FileInv
  BY QfileUnpackAssumption DEF FileInv
<1> QED
  BY <1>1, <1>2, <1>3, <1>4, <1>5, <1>6 DEF UnpackOK, PackOK

(* A step in which nothing happens.                                        *)
LEMMA StutterKeepsOK ==
    ASSUME UnpackOK, UNCHANGED vars
    PROVE  UnpackOK'
<1> USE DEF UnpackOK, PackOK, vars, wireVars, packVars, unpackVars, treeVars, fileVars,
            countVars, replyVars
<1>1. TypeOK'
  BY DEF TypeOK, PackTypeOK, UnpackTypeOK
<1>2. PackInv' /\ PipeInv' /\ EntryInv' /\ FileInv'
  BY DEF PackInv, PipeInv, EntryInv, FileInv
<1>3. StreamInv'
  <2>1. \A tag : SenderAt(tag) => SenderAt(tag)'
    BY DEF SenderAt, AtEntry
  <2> QED
    BY <2>1, AsideKeepsStream DEF readerVars
<1> QED
  BY <1>1, <1>2, <1>3

(* Every step of either program, every fault and kill keeps the place.     *)
LEMMA NextKeepsOK ==
    ASSUME UnpackOK, AgreementInv, [Next]_vars
    PROVE  UnpackOK'
<1>1. CASE Pack \/ PackFault
  <2>1. UNCHANGED unpackVars /\ PackOK
    BY <1>1 DEF Pack, PackFault, UnpackOK
  <2>2. PackOK'
    <3>1. CASE Pack
      BY <2>1, <3>1, WalkKeepsPack, SendKeepsPack, EndKeepsPack, WaitKeepsPack DEF Pack, PackStep
    <3>2. CASE PackFault
      BY <2>1, <3>2, WaitKeepsPack DEF PackFault
    <3> QED
      BY <1>1, <3>1, <3>2
  <2>3. UNCHANGED rpc
    BY <1>1 DEF Pack, PackFault, PackStep, WalkEnter, WalkLeave, WalkEnd, SendHeader,
                SendName, SendChunk, SendTarget, NotifyEnd, NoResultYet, ResultEof,
                ReadResult, ReadExt, LocalError, KillPacker
  <2> QED
    BY <2>1, <2>2, <2>3, PackKeepsReader DEF UnpackOK
<1>2. CASE Unpack
  <2>1. UNCHANGED packVars
    BY <1>2 DEF Unpack
  <2>2. CASE ReadHeader \/ ReadHeaderEof \/ ReadName \/ ReadEof \/ ReadPart
    BY <2>1, <2>2, ReadHeaderKeepsOK, HeaderEndKeepsOK, ReadNameKeepsOK, CutKeepsOK,
       ReadPartKeepsOK
  <2>3. CASE OpenReg \/ CheckQuota \/ WaitSpace \/ CopyChunk \/ CopyNoSpace \/ LinkTmpfile \/ FixReg
    BY <2>1, <2>3, OpenRegKeepsOK, SpaceKeepsOK, CopyKeepsOK, FinishKeepsOK
  <2>4. CASE MakeDir \/ LinkQuota \/ MakeLink
    BY <2>1, <2>4, MakeDirKeepsOK, LinkQuotaKeepsOK, MakeLinkKeepsOK
  <2>5. CASE Sync \/ SendResult \/ SendExt
    BY <2>1, <2>5, ReplyKeepsOK
  <2> QED
    BY <1>2, <2>2, <2>3, <2>4, <2>5 DEF Unpack, UnpackStep
<1>3. CASE UnpackFault
  BY <1>3, HeaderEndKeepsOK, CutKeepsOK, SpaceKeepsOK, MakeLinkKeepsOK,
     FileSystemErrorKeepsOK, ReplyKeepsOK, DiskKeepsOK DEF UnpackFault
<1>4. CASE WireFault
  BY <1>4, GarbleKeepsOK DEF WireFault
<1>5. CASE Done \/ UNCHANGED vars
  BY <1>5, StutterKeepsOK DEF Done
<1> QED
  BY <1>1, <1>2, <1>3, <1>4, <1>5 DEF Next

(* What was sent is entry after entry as single_file_processor() writes    *)
(* them, and the packer is where its program counter says.  As long as no  *)
(* header was garbled the unpacker is so as well, in the entry its header  *)
(* is of, and the pipe holds what is between.                              *)
THEOREM StreamInvariant == Spec => [](UnpackOK /\ AgreementInv)
<1>1. Init => UnpackOK /\ AgreementInv
  BY InitOK, InitAgreement
<1>2. UnpackOK /\ AgreementInv /\ [Next]_vars => UnpackOK' /\ AgreementInv'
  BY NextKeepsOK, NextKeepsAgreement
<1> QED
  BY <1>1, <1>2, PTL DEF Spec

(* Every variable of pack.c and unpack.c keeps its type, and no pipe ever  *)
(* holds more than its capacity.                                           *)
THEOREM FileCopy_Types == Spec => []TypeOK
<1>1. UnpackOK => TypeOK
  BY DEF UnpackOK, PackOK
<1> QED
  BY <1>1, StreamInvariant, PTL

(* unpack.c:205: a file that can be opened has all the data its header     *)
(* announced, at every moment, also after a crash or an error.             *)
THEOREM NoPartial_Safe == Spec => []NoPartialFile
<1>1. UnpackOK => NoPartialFile
  BY DEF UnpackOK, FileInv, WellFormed, NoPartialFile
<1> QED
  BY <1>1, StreamInvariant, PTL

(* Whatever lengths, kinds, names and data are garbled, and wherever an    *)
(* entry fails, the reads of process_one_file() end where the writes of    *)
(* single_file_processor() did until the unpacker has taken a header for   *)
(* one it was not: a garbled name, target or chunk, the loss of the packer *)
(* or a refused entry alone never make it read data as a header.           *)
THEOREM InSync_Safe == Spec => []InSync
<1>1. UnpackOK => InSync
  <2>1. ASSUME UnpackOK, slip # 0 PROVE ~Steady
    BY <2>1 DEF UnpackOK, PackOK, StreamInv, ReaderAt
  <2> QED
    BY <2>1 DEF InSync, Steady
<1> QED
  BY <1>1, StreamInvariant, PTL

(***************************************************************************)
(* What a step can do to the receiving directory: create the entry that is *)
(* being unpacked where there is nothing (O_EXCL, linkat, mkdirat,         *)
(* symlinkat), set its mode, or add data to the file without permissions.  *)
(***************************************************************************)
DstStep ==
    \/ UNCHANGED dst
    \/ \E node : ~Exists(dst, name) /\ dst' = [dst EXCEPT ![name] = node]
    \/ dst' = [dst EXCEPT ![name].perm = "final"]
    \/ /\ rpc = "data" /\ dst[name].perm = "none"
       /\ \E c : dst' = [dst EXCEPT ![name].content = c]

(* No step of either program does anything else to it, and it happens      *)
(* while process_one_file() works on an entry.                             *)
LEMMA DstSteps ==
    ASSUME UnpackOK, [Next]_vars
    PROVE  /\ DstStep
           /\ UNCHANGED dst \/ (rpc \in RegStates \cup {"target", "dir"} /\ UNCHANGED <<spc, packVars>>)
<1> USE DEF UnpackOK, PackOK
<1>1. CASE UNCHANGED dst
  BY <1>1 DEF DstStep
<1>2. CASE dst' # dst
  <2>1. /\ \/ OpenReg \/ CopyChunk \/ LinkTmpfile \/ FixReg \/ MakeDir \/ MakeLink
           \/ FileSystemError
        /\ UNCHANGED packVars
    <3>1. ~UNCHANGED treeVars /\ ~UNCHANGED unpackVars /\ ~UNCHANGED vars
      BY <1>2 DEF treeVars, unpackVars, vars
    <3>2. (Unpack \/ UnpackFault) /\ UNCHANGED packVars
      BY <3>1 DEF Next, Pack, Unpack, PackFault, UnpackFault, WireFault, Done
    <3> QED
      BY <1>2, <3>1, <3>2
         DEF Unpack, UnpackStep, UnpackFault, ReadPart, ReadHeader, ReadHeaderEof,
             ReadHeaderError, ReadName, ReadEof, ReadError, CheckQuota, WaitSpace, SpaceUnknown,
             LeaveSpaceCheck, CopyNoSpace, LinkQuota, LinkFails, Sync, SendResult,
             SendExt, KillUnpacker, DiskFills, DiskFrees
  <2>2. UNCHANGED spc
    BY <2>1 DEF OpenReg, CopyChunk, LinkTmpfile, FixReg, MakeDir, MakeLink, FileSystemError
  <2>3. rpc \in RegStates \cup {"target", "dir"}
    BY <2>1 DEF OpenReg, CopyChunk, LinkTmpfile, FixReg, MakeDir, MakeLink, FileSystemError,
                RegStates
  <2>4. DstStep
    <3>1. CASE OpenReg \/ LinkTmpfile
      <4>1. CreateError(dst, name) = 0 /\ \E node : dst' = Put(dst, name, node)
        BY <1>2, <3>1, Zenon DEF OpenReg, CreateTmpfile, CreateExclusive, LinkTmpfile
      <4>2. ~Exists(dst, name)
        BY <4>1 DEF CreateError, EEXIST
      <4> QED
        BY <4>1, <4>2, Zenon DEF DstStep, Put
    <3>2. CASE CopyChunk
      <4>1. linked /\ dst' = [dst EXCEPT ![name].content = buf'] /\ rpc = "data"
        BY <1>2, <3>2 DEF CopyChunk
      <4>2. dst[name].perm = "none"
        BY <4>1, MkNodeFields DEF FileInv
      <4> QED
        BY <4>1, <4>2 DEF DstStep
    <3>3. CASE FixReg \/ FileSystemError
      <4>1. dst' = [dst EXCEPT ![name].perm = "final"]
        BY <1>2, <3>3 DEF FixReg, fix_times_and_perms, FileSystemError
      <4> QED
        BY <4>1 DEF DstStep
    <3>4. CASE MakeDir
      <4>1. \/ CreateError(dst, name) = 0 /\ \E node : dst' = Put(dst, name, node)
            \/ dst' = [dst EXCEPT ![name].perm = "final"]
        BY <1>2, <3>4, Zenon DEF MakeDir, fix_times_and_perms
      <4> QED
        BY <4>1 DEF DstStep, CreateError, EEXIST, Put
    <3>5. CASE MakeLink
      <4>1. \E item \in Incoming :
               /\ LinkError(dst, name, item.v, validate_flags) = 0
               /\ dst' = Put(dst, name, MkNode("link", "final", Len(item.v), <<>>, item.v))
        BY <1>2, <3>5, MakeLinkSteps
      <4>2. PICK target, node :
               /\ LinkError(dst, name, target, validate_flags) = 0
               /\ dst' = [dst EXCEPT ![name] = node]
        BY <4>1, Zenon DEF Put
      <4>3. ~Exists(dst, name)
        BY <4>2, LinkErrorZero
      <4> QED
        BY <4>2, <4>3 DEF DstStep
    <3> QED
      BY <2>1, <3>1, <3>2, <3>3, <3>4, <3>5
  <2> QED
    BY <2>1, <2>2, <2>3, <2>4
<1> QED
  BY <1>1, <1>2

(* Nothing that exists is replaced (O_EXCL, linkat, mkdirat, symlinkat):   *)
(* not by another entry of the stream, not by a later copy of the same     *)
(* one, and not by an error halfway.                                       *)
THEOREM NothingReplaced_Safe == Spec => NothingReplaced
<1>1. ASSUME UnpackOK, [Next]_vars, NEW p \in Paths, Exists(dst, p)
      PROVE  /\ dst'[p].kind = dst[p].kind
             /\ dst'[p].target = dst[p].target
             /\ dst'[p].content # dst[p].content =>
                   rpc = "data" /\ p = name /\ dst[p].perm = "none"
  <2>1. DstStep
    BY <1>1, DstSteps
  <2>2. dst \in [Paths -> Node] /\ dst[p] \in Node
    BY <1>1 DEF UnpackOK, PackOK, TypeOK, UnpackTypeOK
  <2>3. CASE p # name
    BY <2>1, <2>2, <2>3 DEF DstStep
  <2>4. CASE p = name
    <3>1. CASE UNCHANGED dst
      BY <3>1
    <3>2. CASE dst' = [dst EXCEPT ![name].perm = "final"]
      BY <2>2, <2>4, <3>2
    <3>3. ASSUME rpc = "data", dst[name].perm = "none",
                 NEW c, dst' = [dst EXCEPT ![name].content = c]
          PROVE  dst'[p].kind = dst[p].kind /\ dst'[p].target = dst[p].target
      BY <2>2, <2>4, <3>3
    <3> QED
      BY <1>1, <2>1, <2>4, <3>1, <3>2, <3>3 DEF DstStep
  <2> QED
    BY <2>3, <2>4
<1>2. UnpackOK /\ [Next]_vars =>
        [\A p \in Paths : Exists(dst, p) =>
          /\ dst'[p].kind = dst[p].kind
          /\ dst'[p].target = dst[p].target
          /\ dst'[p].content # dst[p].content =>
                rpc = "data" /\ p = name /\ dst[p].perm = "none"]_vars
  BY <1>1
<1> QED
  BY <1>2, StreamInvariant, PTL DEF Spec, NothingReplaced

(***************************************************************************)
(* The sending half                                                        *)
(***************************************************************************)

(* The name of an entry is in the stream, once or twice. *)
Sent(p) == \E i \in 1..Len(crcS) : crcS[i] = NameItem(p)

SentTwice(p) ==
    \E i, j \in 1..Len(crcS) : i < j /\ crcS[i] = NameItem(p) /\ crcS[j] = NameItem(p)

Delivered(p) == IF SrcTree[p].kind = "dir" THEN SentTwice(p) ELSE Sent(p)

(* An open directory of do_fs_walk() still has to give p or one of the     *)
(* directories above it.                                                   *)
Waiting(p) ==
    \E k \in 1..Len(stack), m \in 0..(Len(p) - 1) :
        stack[k].dir = SubSeq(p, 1, m) /\ p[m + 1] \in stack[k].todo

OnStack(p) == \E k \in 2..Len(stack) : stack[k].dir = p

Sending(p) == spc \in {"hdr", "name"} /\ cur = p

OnItsWay(p) ==
    \/ Waiting(p)
    \/ Delivered(p)
    \/ SrcTree[p].kind # "dir" /\ Sending(p)
    \/ SrcTree[p].kind = "dir" /\ \/ OnStack(p) /\ (Sending(p) \/ Sent(p))
                                  \/ Sending(p) /\ Sent(p)

(* The walk forgets no entry. *)
WalkInv ==
    /\ cont = "walk" /\ spc # "exit" => \A p \in ToCopy : OnItsWay(p)
    /\ spc = "end" \/ cont = "exit0" => \A p \in ToCopy : Delivered(p)
    /\ sExit = 0 => cont = "exit0"
    /\ spc # "exit" => sExit = -1

(***************************************************************************)
(* The receiving half                                                      *)
(***************************************************************************)

(* Nothing is unpacked after the marker; without garbling the data at hand *)
(* is that of the entry.                                                   *)
CleanInv ==
    /\ marker => rpc \in {"sync", "result", "ext", "exit"}
    /\ Clean /\ rpc \in RegStates \ {"reg"} =>
         \A i \in 1..Len(buf) : buf[i] = SrcTree[name].content[i]

(* The unpacker works on the entry whose name it read at i. *)
Busy(p, i) ==
    \/ rpc \in RegStates \cup {"link", "target"} /\ name = p
    \/ rpc = "dir" /\ i = Len(crcR)

Present(p) == IF SrcTree[p].kind = "dir" THEN dst[p].kind = "dir" ELSE dst[p] = SrcTree[p]

(* It has not given up on an entry. *)
Working == marker \/ rpc \in RegStates \cup {"hdr", "name", "link", "target", "dir"}

(* An entry that was read and is not being worked on is in its place; a    *)
(* directory has its final mode once it was read a second time.            *)
StoredInv ==
    Clean /\ Working =>
        \A p \in DOMAIN SrcTree, j \in 1..Len(crcR) :
            crcR[j] = NameItem(p) /\ ~Busy(p, j) =>
                /\ Present(p)
                /\ (\E i \in 1..(j - 1) : crcR[i] = NameItem(p)) => dst[p] = SrcTree[p]

(***************************************************************************)
(* The packer                                                              *)
(***************************************************************************)

(* The path of an entry, component by component: readdir() of a directory  *)
(* of the source gives the next component of every path below it.          *)
LEMMA PathSteps ==
    ASSUME NEW p \in DOMAIN SrcTree, NEW m \in 0..(Len(p) - 1)
    PROVE  /\ Append(SubSeq(p, 1, m), p[m + 1]) = SubSeq(p, 1, m + 1)
           /\ SubSeq(p, 1, m + 1) \in DOMAIN SrcTree
           /\ m + 1 = Len(p) => SubSeq(p, 1, m + 1) = p
           /\ m + 1 < Len(p) => SrcTree[SubSeq(p, 1, m + 1)].kind = "dir"
           /\ p[m + 1] \in Children(SubSeq(p, 1, m))
<1>1. p \in Seq(Names) /\ Len(p) \in Nat \ {0}
  BY SourceFacts, PathNotEmpty
<1>2. Append(SubSeq(p, 1, m), p[m + 1]) = SubSeq(p, 1, m + 1)
  <2> DEFINE a == Append(SubSeq(p, 1, m), p[m + 1])
             b == SubSeq(p, 1, m + 1)
  <2>1. \A i \in 1..(m + 1) : p[i] \in Names
    BY <1>1
  <2>2. /\ SubSeq(p, 1, m) \in Seq(Names) /\ Len(SubSeq(p, 1, m)) = m
        /\ \A i \in 1..m : SubSeq(p, 1, m)[i] = p[i]
    BY <1>1, <2>1, SubSeqProperties
  <2>3. /\ b \in Seq(Names) /\ Len(b) = m + 1 /\ \A i \in 1..(m + 1) : b[i] = p[i]
    BY <1>1, <2>1, SubSeqProperties
  <2>4. /\ a \in Seq(Names) /\ Len(a) = m + 1 /\ a[m + 1] = p[m + 1]
        /\ \A i \in 1..m : a[i] = p[i]
    BY <2>1, <2>2, AppendProperties
  <2> HIDE DEF a, b
  <2>5. ASSUME NEW i \in 1..(m + 1) PROVE a[i] = b[i]
    <3>1. i = m + 1 \/ i \in 1..m
      OBVIOUS
    <3> QED
      BY <2>3, <2>4, <3>1
  <2>6. a = b
    BY <2>3, <2>4, <2>5, SeqEqual
  <2> QED
    BY <2>6 DEF a, b
<1>3. m + 1 = Len(p) => SubSeq(p, 1, m + 1) = p
  BY <1>1, SubSeqFull
<1>4. ASSUME m + 1 < Len(p)
      PROVE  SubSeq(p, 1, m + 1) \in DOMAIN SrcTree /\ SrcTree[SubSeq(p, 1, m + 1)].kind = "dir"
  <2>1. m + 1 \in 1..(Len(p) - 1)
    BY <1>1, <1>4
  <2> QED
    BY <2>1, QfileWireAssumption
<1>5. SubSeq(p, 1, m + 1) \in DOMAIN SrcTree
  <2>1. m + 1 = Len(p) \/ m + 1 < Len(p)
    BY <1>1
  <2> QED
    BY <1>3, <1>4, <2>1
<1>6. p[m + 1] \in Names
  BY <1>1
<1> QED
  BY <1>2, <1>3, <1>4, <1>5, <1>6 DEF Children

(* What was sent stays sent.                                               *)
LEMMA SentStays ==
    ASSUME crcS \in Seq(Items), UNCHANGED crcS \/ \E item \in Items : crcS' = Append(crcS, item),
           NEW p
    PROVE  /\ Sent(p) => Sent(p)'
           /\ SentTwice(p) => SentTwice(p)'
           /\ Delivered(p) => Delivered(p)'
<1>1. Len(crcS) \in Nat /\ Len(crcS') \in Nat /\ Len(crcS) <= Len(crcS')
      /\ \A i \in 1..Len(crcS) : crcS'[i] = crcS[i] /\ i \in 1..Len(crcS')
  <2>1. CASE UNCHANGED crcS
    BY <2>1
  <2>2. ASSUME NEW item \in Items, crcS' = Append(crcS, item)
        PROVE  /\ Len(crcS') \in Nat /\ Len(crcS) <= Len(crcS')
               /\ \A i \in 1..Len(crcS) : crcS'[i] = crcS[i] /\ i \in 1..Len(crcS')
    BY <2>2, AppendProperties
  <2> QED
    BY <2>1, <2>2
<1>2. Sent(p) => Sent(p)'
  BY <1>1 DEF Sent
<1>3. SentTwice(p) => SentTwice(p)'
  BY <1>1 DEF SentTwice
<1> QED
  BY <1>2, <1>3 DEF Delivered

(* do_fs_walk() takes the next entry: what was waiting behind it is sent   *)
(* now or waits in the directory that is opened.                           *)
LEMMA EnterKeepsWalk ==
    ASSUME PackOK, WalkInv, NEW n \in Names, WalkEnter(n)
    PROVE  WalkInv'
<1> USE DEF PackOK
<1>t. /\ stack \in Seq(Frames) /\ stack # <<>> /\ Len(stack) \in Nat \ {0}
      /\ crcS \in Seq(Items)
  BY DEF TypeOK, PackTypeOK, Frames, Checksum
<1> DEFINE p == Append(Top.dir, n)
           skip == SrcTree[p].kind = "link" /\ IgnoreSymlinks
           K == Len(stack)
<1>1. /\ spc = "walk" /\ UNCHANGED <<cont, crcS, sExit>>
      /\ \/ skip /\ stack' = Rest(n) /\ UNCHANGED <<spc, cur>>
         \/ /\ ~skip /\ cur' = p /\ spc' = "hdr"
            /\ SrcTree[p].kind = "dir" => stack' = Append(Rest(n), Frame(p, Children(p)))
            /\ SrcTree[p].kind # "dir" => stack' = Rest(n)
  BY DEF WalkEnter, Rest
<1>2. p \in DOMAIN SrcTree /\ p \in Paths /\ cont = "walk"
  <2>1. Top.todo \subseteq Children(Top.dir)
    BY <1>t DEF PackInv, Top
  <2>2. n \in Children(Top.dir)
    BY <2>1 DEF WalkEnter
  <2> QED
    BY <1>1, <2>2, SourceFacts DEF Children, PackInv
<1> HIDE DEF p
<1>3. /\ Rest(n) \in Seq(Frames) /\ Len(Rest(n)) = K
      /\ \A k \in 1..(K - 1) : Rest(n)[k] = stack[k]
      /\ Rest(n)[K].dir = Top.dir /\ Rest(n)[K].todo = Top.todo \ {n}
  <2>1. \A a, b : Frame(a, b).dir = a /\ Frame(a, b).todo = b
    BY DEF Frame
  <2>2. /\ Rest(n) \in Seq(Frames) /\ Len(Rest(n)) = K
        /\ \A k \in 1..(K - 1) : Rest(n)[k] = stack[k]
        /\ Rest(n)[K] = Frame(Top.dir, Top.todo \ {n})
    BY <1>t, RestFacts
  <2> QED
    BY <2>1, <2>2
<1>4. /\ stack' \in Seq(Frames) /\ Len(stack') >= K /\ Len(stack') \in Nat
      /\ \A k \in 1..K : stack'[k] = Rest(n)[k]
      /\ ~skip /\ SrcTree[p].kind = "dir" =>
           /\ Len(stack') = K + 1 /\ stack'[K + 1].dir = p /\ stack'[K + 1].todo = Children(p)
  <2>1. CASE stack' = Rest(n) /\ (skip \/ SrcTree[p].kind # "dir")
    BY <1>t, <1>3, <2>1
  <2>2. CASE stack' = Append(Rest(n), Frame(p, Children(p)))
    <3>1. Frame(p, Children(p)) \in Frames
      BY <1>2 DEF Frame, Frames, Children
    <3>2. /\ stack' \in Seq(Frames) /\ Len(stack') = K + 1
          /\ \A k \in 1..K : stack'[k] = Rest(n)[k]
          /\ stack'[K + 1] = Frame(p, Children(p))
      BY <1>3, <2>2, <3>1, AppendProperties
    <3> QED
      BY <1>t, <3>2 DEF Frame
  <2> QED
    BY <1>1, <2>1, <2>2
<1>5. ASSUME NEW q \in ToCopy, Waiting(q) PROVE OnItsWay(q)'
  <2>1. PICK k \in 1..K, m \in 0..(Len(q) - 1) :
             stack[k].dir = SubSeq(q, 1, m) /\ q[m + 1] \in stack[k].todo
    BY <1>5 DEF Waiting
  <2>2. q \in DOMAIN SrcTree /\ Len(q) \in Nat \ {0}
    BY SourceFacts, PathNotEmpty DEF ToCopy
  <2>3. k \in 1..Len(stack')
    BY <1>t, <1>4
  <2>4. CASE k # K \/ q[m + 1] # n
    <3>1. stack'[k].dir = stack[k].dir /\ q[m + 1] \in stack'[k].todo
      <4>1. CASE k = K
        BY <1>3, <1>4, <2>1, <2>4, <4>1 DEF Top
      <4>2. CASE k \in 1..(K - 1)
        BY <1>3, <1>4, <2>1, <4>2
      <4> QED
        BY <1>t, <4>1, <4>2
    <3>2. Waiting(q)'
      BY <2>1, <2>3, <3>1 DEF Waiting
    <3> QED
      BY <3>2 DEF OnItsWay
  <2>5. CASE k = K /\ q[m + 1] = n
    <3>1. p = SubSeq(q, 1, m + 1)
      BY <2>1, <2>2, <2>5, PathSteps DEF p, Top
    <3>2. CASE m + 1 = Len(q)
      <4>1. p = q
        BY <2>2, <3>1, <3>2, PathSteps
      <4>2. ~skip
        BY <4>1 DEF ToCopy
      <4>3. Sending(q)'
        BY <1>1, <4>1, <4>2 DEF Sending
      <4>4. SrcTree[q].kind = "dir" => OnStack(q)'
        <5>1. SrcTree[q].kind = "dir" => K + 1 \in 2..Len(stack') /\ stack'[K + 1].dir = q
          BY <1>t, <1>4, <4>1, <4>2
        <5> QED
          BY <5>1 DEF OnStack
      <4> QED
        BY <4>3, <4>4 DEF OnItsWay
    <3>3. CASE m + 1 < Len(q)
      <4>1. SrcTree[p].kind = "dir"
        BY <2>2, <3>1, <3>3, PathSteps
      <4>2. m + 1 \in 0..(Len(q) - 1) /\ K + 1 \in 1..(K + 1)
        BY <1>t, <2>2, <3>3
      <4>3. q[(m + 1) + 1] \in Children(p)
        BY <2>2, <3>1, <4>2, PathSteps
      <4>4. Waiting(q)'
        BY <1>4, <3>1, <4>1, <4>2, <4>3 DEF Waiting
      <4> QED
        BY <4>4 DEF OnItsWay
    <3> QED
      BY <2>2, <3>2, <3>3
  <2> QED
    BY <2>4, <2>5
<1>6. ASSUME NEW q, OnStack(q) PROVE OnStack(q)'
  <2>1. PICK k \in 2..K : stack[k].dir = q
    BY <1>6 DEF OnStack
  <2>2. k \in 1..K /\ k \in 2..Len(stack')
    BY <1>t, <1>4
  <2>3. stack'[k].dir = q
    <3>1. CASE k = K
      BY <1>3, <1>4, <2>1, <2>2, <3>1 DEF Top
    <3>2. CASE k \in 1..(K - 1)
      BY <1>3, <1>4, <2>1, <2>2, <3>2
    <3> QED
      BY <1>t, <2>2, <3>1, <3>2
  <2> QED
    BY <2>2, <2>3 DEF OnStack
<1>7. ASSUME NEW q PROVE (Sent(q) => Sent(q)') /\ (Delivered(q) => Delivered(q)')
  BY <1>t, <1>1, SentStays
<1>8. ASSUME NEW q \in ToCopy PROVE OnItsWay(q)'
  <2>1. OnItsWay(q) /\ ~Sending(q)
    BY <1>1, <1>2 DEF WalkInv, Sending
  <2> QED
    BY <1>5, <1>6, <1>7, <2>1 DEF OnItsWay
<1> QED
  BY <1>1, <1>2, <1>8 DEF WalkInv

(* A directory read to its end is sent a second time; the walk ends when   *)
(* nothing waits and no directory is open.                                 *)
LEMMA LeaveKeepsWalk ==
    ASSUME PackOK, WalkInv, WalkLeave \/ WalkEnd
    PROVE  WalkInv'
<1> USE DEF PackOK
<1> DEFINE K == Len(stack)
<1>t. /\ stack \in Seq(Frames) /\ stack # <<>> /\ K \in Nat \ {0}
      /\ crcS \in Seq(Items)
  BY DEF TypeOK, PackTypeOK, Frames, Checksum
<1>1. /\ spc = "walk" /\ Top.todo = {} /\ UNCHANGED <<cont, crcS, sExit>>
      /\ \/ K > 1 /\ cur' = Top.dir /\ spc' = "hdr" /\ stack' = SubSeq(stack, 1, K - 1)
         \/ K = 1 /\ spc' = "end" /\ UNCHANGED <<stack, cur>>
  BY DEF WalkLeave, WalkEnd, packVars
<1>2. cont = "walk"
  BY <1>1 DEF PackInv
<1>3. \A q : ~Sending(q)
  BY <1>1 DEF Sending
<1>4. ASSUME NEW q PROVE (Sent(q) => Sent(q)') /\ (Delivered(q) => Delivered(q)')
  BY <1>t, <1>1, SentStays
<1>5. CASE K > 1 /\ cur' = Top.dir /\ spc' = "hdr" /\ stack' = SubSeq(stack, 1, K - 1)
  <2>1. /\ Len(stack') = K - 1 /\ \A k \in 1..(K - 1) : stack'[k] = stack[k]
    <3>1. \A k \in 1..(K - 1) : stack[k] \in Frames
      BY <1>t
    <3>2. /\ Len(SubSeq(stack, 1, K - 1)) = K - 1
          /\ \A k \in 1..(K - 1) : SubSeq(stack, 1, K - 1)[k] = stack[k]
      BY <1>t, <1>5, <3>1, SubSeqProperties
    <3> QED
      BY <1>5, <3>2
  <2>2. ASSUME NEW q \in ToCopy, Waiting(q) PROVE Waiting(q)'
    <3>1. PICK k \in 1..K, m \in 0..(Len(q) - 1) :
               stack[k].dir = SubSeq(q, 1, m) /\ q[m + 1] \in stack[k].todo
      BY <2>2 DEF Waiting
    <3>2. k # K
      BY <1>1, <3>1 DEF Top
    <3>3. k \in 1..(K - 1)
      BY <1>t, <3>2
    <3> QED
      BY <2>1, <3>1, <3>3 DEF Waiting
  <2>3. ASSUME NEW q, OnStack(q) PROVE OnStack(q)' \/ Sending(q)'
    <3>1. PICK k \in 2..K : stack[k].dir = q
      BY <2>3 DEF OnStack
    <3>2. CASE k = K
      BY <1>5, <3>1, <3>2 DEF Sending, Top
    <3>3. CASE k \in 2..(K - 1)
      <4>1. k \in 1..(K - 1)
        BY <1>t, <3>3
      <4> QED
        BY <2>1, <3>1, <3>3, <4>1 DEF OnStack
    <3> QED
      BY <1>t, <3>2, <3>3
  <2>4. ASSUME NEW q \in ToCopy PROVE OnItsWay(q)'
    <3>1. OnItsWay(q)
      BY <1>1, <1>2 DEF WalkInv
    <3> QED
      BY <1>3, <1>4, <2>2, <2>3, <3>1 DEF OnItsWay
  <2> QED
    BY <1>1, <1>2, <1>5, <2>4 DEF WalkInv
<1>6. CASE K = 1 /\ spc' = "end" /\ UNCHANGED <<stack, cur>>
  <2>1. ASSUME NEW q \in ToCopy PROVE Delivered(q)'
    <3>1. ~Waiting(q)
      BY <1>1, <1>6 DEF Waiting, Top
    <3>2. ~OnStack(q)
      BY <1>6 DEF OnStack
    <3>3. OnItsWay(q)
      BY <1>1, <1>2 DEF WalkInv
    <3> QED
      BY <1>3, <1>4, <3>1, <3>2, <3>3 DEF OnItsWay
  <2> QED
    BY <1>1, <1>2, <1>6, <2>1 DEF WalkInv, OnItsWay
<1> QED
  BY <1>1, <1>5, <1>6

(* single_file_processor() sends the header, then the name, which is what  *)
(* counts; the data and the target change nothing.                         *)
LEMMA SendKeepsWalk ==
    ASSUME PackOK, WalkInv, SendHeader \/ SendName \/ SendChunk \/ SendTarget
    PROVE  WalkInv'
<1> USE DEF PackOK
<1>t. crcS \in Seq(Items) /\ Len(crcS) \in Nat
  BY DEF TypeOK, PackTypeOK, Checksum
<1>1. PICK item, next :
        /\ write_all_with_crc(item, next) /\ UNCHANGED <<stack, cur>>
        /\ next \in {"name", "data", "wait"}
        /\ \/ spc = "hdr" /\ next = "name" /\ item = HeaderOf(cur)
           \/ spc = "name" /\ item = NameItem(cur) /\ next # "name"
           \/ spc = "data" /\ next # "name"
              /\ \/ SrcTree[cur].kind = "reg" /\ item = DataItem(SrcTree[cur].content[sent + 1])
                 \/ SrcTree[cur].kind = "link" /\ item = LinkItem(SrcTree[cur].target)
  BY DEF SendHeader, SendName, SendChunk, SendTarget, AfterName
<1>2. crcS' = Append(crcS, item) /\ UNCHANGED sExit /\ spc' \in {next, "wait"}
      /\ (cont' = "exit1" \/ (UNCHANGED cont /\ spc' = next))
  BY <1>1 DEF write_all_with_crc, Goto
<1>3. cont = "walk" /\ spc # "exit"
  BY <1>1 DEF PackInv
<1>4. sExit = -1
  BY <1>3 DEF WalkInv
<1>5. CASE cont' = "exit1"
  BY <1>1, <1>2, <1>4, <1>5 DEF WalkInv
<1>6. CASE UNCHANGED cont /\ spc' = next
  <2>1. /\ Len(crcS') = Len(crcS) + 1 /\ crcS'[Len(crcS) + 1] = item
        /\ \A i \in 1..Len(crcS) : crcS'[i] = crcS[i]
    BY <1>t, <1>2
  <2>2. ASSUME NEW q PROVE (Sent(q) => Sent(q)') /\ (SentTwice(q) => SentTwice(q)')
    BY <1>t, <2>1 DEF Sent, SentTwice
  <2>3. ASSUME NEW q PROVE (Waiting(q) => Waiting(q)') /\ (OnStack(q) => OnStack(q)')
    BY <1>1 DEF Waiting, OnStack
  <2>4. ASSUME NEW q, Sending(q)
        PROVE  Sending(q)' \/ (Sent(q)' /\ (Sent(q) => SentTwice(q)'))
    <3>1. CASE spc = "hdr"
      BY <1>1, <1>6, <2>4, <3>1 DEF Sending
    <3>2. CASE spc = "name"
      <4>1. Len(crcS) + 1 \in 1..Len(crcS') /\ crcS'[Len(crcS) + 1] = NameItem(q)
        BY <1>t, <1>1, <2>1, <2>4, <3>2 DEF Sending
      <4>2. Sent(q)'
        BY <4>1 DEF Sent
      <4>3. ASSUME Sent(q) PROVE SentTwice(q)'
        <5>1. PICK i \in 1..Len(crcS) : crcS[i] = NameItem(q)
          BY <4>3 DEF Sent
        <5>2. i \in 1..Len(crcS') /\ i < Len(crcS) + 1 /\ crcS'[i] = NameItem(q)
          BY <1>t, <2>1, <5>1
        <5> QED
          BY <4>1, <5>2 DEF SentTwice
      <4> QED
        BY <4>2, <4>3
    <3> QED
      BY <2>4, <3>1, <3>2 DEF Sending
  <2>5. ASSUME NEW q \in ToCopy PROVE OnItsWay(q)'
    <3>1. OnItsWay(q)
      BY <1>3 DEF WalkInv
    <3> QED
      BY <2>2, <2>3, <2>4, <3>1 DEF OnItsWay, Delivered
  <2> QED
    BY <1>1, <1>2, <1>3, <1>4, <1>6, <2>5 DEF WalkInv
<1> QED
  BY <1>2, <1>5, <1>6

(* notify_end_and_wait_for_result() and wait_for_result(): the packer      *)
(* exits 0 only after the walk has come to its end.                        *)
LEMMA EndKeepsWalk ==
    ASSUME PackOK, WalkInv,
           \/ NotifyEnd \/ NoResultYet \/ ResultEof \/ ReadResult \/ ReadExt
           \/ LocalError \/ KillPacker
    PROVE  WalkInv'
<1> USE DEF PackOK
<1>t. crcS \in Seq(Items)
  BY DEF TypeOK, PackTypeOK, Checksum
<1>0. spc # "exit" /\ sExit = -1
  BY DEF NotifyEnd, NoResultYet, ResultEof, ReadResult, ReadExt, LocalError, KillPacker, WalkInv
<1>1. CASE NotifyEnd
  <2>1. /\ spc = "end" /\ crcS' = Append(crcS, EndMarker) /\ cont' = "exit0"
        /\ spc' = "wait" /\ UNCHANGED sExit
    BY <1>1 DEF NotifyEnd, Goto
  <2>2. ASSUME NEW q \in ToCopy PROVE Delivered(q)'
    <3>1. Delivered(q)
      BY <2>1 DEF WalkInv
    <3> QED
      BY <1>t, <2>1, <3>1, MarkerType, SentStays
  <2> QED
    BY <1>0, <2>1, <2>2 DEF WalkInv
<1>2. CASE ~NotifyEnd
  <2>1. UNCHANGED <<crcS, cont, stack, cur>>
    BY <1>2 DEF NoResultYet, ResultEof, ReadResult, ReadExt, LocalError, KillPacker
  <2>2. \/ spc' = "exit" /\ sExit' = 1
        \/ spc' = "exit" /\ sExit' = 0 /\ cont = "exit0"
        \/ /\ spc' \in {"walk", "ext"} /\ spc \in {"wait", "ext"}
           /\ UNCHANGED sExit
    BY <1>2, Zenon DEF NoResultYet, ResultEof, ReadResult, ReadExt, LocalError, KillPacker,
              Judge, Return, Goto, Exit, call_error_handler
  <2>3. \A q : Delivered(q) => Delivered(q)'
    BY <2>1 DEF Delivered, Sent, SentTwice
  <2>4. ASSUME spc \in {"wait", "ext"}, NEW q, OnItsWay(q) PROVE OnItsWay(q)'
    BY <2>1, <2>4 DEF OnItsWay, Delivered, Sent, SentTwice, Waiting, OnStack, Sending
  <2> QED
    BY <1>0, <2>1, <2>2, <2>3, <2>4 DEF WalkInv
<1> QED
  BY <1>1, <1>2

(***************************************************************************)
(* The unpacker                                                            *)
(***************************************************************************)

(* A read that leaves all as it was sent had its place and read what was   *)
(* sent.                                                                   *)
LEMMA CleanRead ==
    ASSUME UnpackOK, UNCHANGED crcS, Receive, Clean'
    PROVE  /\ Clean /\ Due /\ Head(fwd).t = rpc
           /\ Incoming = {crcS[Len(crcR) + 1]} /\ Head(fwd) = crcS[Len(crcR) + 1]
           /\ Len(crcR) \in Nat /\ Len(crcR') = Len(crcR) + 1
           /\ \A i \in 1..Len(crcR) : crcR'[i] = crcR[i]
           /\ crcR'[Len(crcR) + 1] = Head(fwd)
<1> USE DEF UnpackOK, PackOK
<1>1. Steady'
  BY DEF Clean, Steady
<1>2. /\ Due /\ Placed /\ Clean /\ Head(fwd) = crcS[Len(crcR) + 1]
      /\ Len(crcR) \in Nat /\ Incoming = {Head(fwd)}
  BY <1>1, ReadKeepsPlace
<1>3. Head(fwd).t = rpc
  BY <1>2 DEF Placed, Fits
<1>4. /\ Len(crcR') = Len(crcR) + 1
      /\ \A i \in 1..Len(crcR) : crcR'[i] = crcR[i]
      /\ crcR'[Len(crcR) + 1] = Head(fwd)
  BY <1>2, ReceiveFacts
<1> QED
  BY <1>2, <1>3, <1>4

(* A stream that is clean now was clean before.                            *)
LEMMA CleanBefore ==
    ASSUME UnpackOK, Clean',
           \/ UNCHANGED crcR /\ (UNCHANGED crcS \/ \E item : crcS' = Append(crcS, item))
           \/ UNCHANGED crcS /\ Receive
    PROVE  Clean
<1> USE DEF UnpackOK, PackOK
<1>t. /\ crcR \in Seq(Items) /\ crcS \in Seq(Items) /\ Len(crcR) <= Len(crcS)
      /\ Len(crcR) \in Nat /\ Len(crcS) \in Nat
  BY DEF TypeOK, PackTypeOK, UnpackTypeOK, Checksum, PipeInv
<1>1. ASSUME UNCHANGED crcS, Receive PROVE Clean
  BY <1>1, CleanRead
<1>2. ASSUME UNCHANGED crcR, UNCHANGED crcS PROVE Clean
  BY <1>2 DEF Clean
<1>3. ASSUME UNCHANGED crcR, NEW item, crcS' = Append(crcS, item) PROVE Clean
  <2>1. \A i \in 1..Len(crcS) : crcS'[i] = crcS[i]
    BY <1>t, <1>3
  <2> QED
    BY <1>t, <1>3, <2>1 DEF Clean
<1> QED
  BY <1>1, <1>2, <1>3

(* The two invariants of the receiving side, together. *)
ReceivedInv == CleanInv /\ StoredInv

(* Steps of the packer, of the wire and of the disk.                       *)
LEMMA AsideKeepsReceived ==
    ASSUME ReceivedInv, UNCHANGED <<rpc, dst, hdr, name, buf, crcR, marker>>, Clean' => Clean
    PROVE  ReceivedInv'
<1>1. CleanInv'
  BY DEF ReceivedInv, CleanInv
<1>2. ASSUME NEW p, NEW j PROVE Busy(p, j)' <=> Busy(p, j)
  BY DEF Busy
<1>3. ASSUME NEW p PROVE Present(p)' <=> Present(p)
  BY DEF Present
<1>4. StoredInv'
  BY <1>2, <1>3 DEF ReceivedInv, StoredInv, Working
<1> QED
  BY <1>1, <1>4 DEF ReceivedInv

(* do_exit() or errx() before the marker: nothing is promised any more.    *)
LEMMA StopKeepsReceived ==
    ASSUME ~marker', rpc' \in {"sync", "result", "ext", "exit"}
    PROVE  ReceivedInv'
  BY DEF ReceivedInv, CleanInv, StoredInv, Working, RegStates

(* Nothing is written after the marker.                                    *)
LEMMA ReplyKeepsReceived ==
    ASSUME ReceivedInv, Sync \/ SendResult \/ SendExt \/ KillUnpacker, UNCHANGED crcS
    PROVE  ReceivedInv'
<1>1. /\ UNCHANGED <<dst, hdr, name, buf, crcR, marker>>
      /\ rpc' \in {"result", "ext", "exit"}
  BY DEF Sync, SendResult, SendExt, KillUnpacker, Reply, Quiet, treeVars, fileVars, replyVars
<1>2. CASE ~marker
  BY <1>1, <1>2, StopKeepsReceived
<1>3. CASE marker
  <2>1. rpc \in {"sync", "result", "ext", "exit"}
    BY <1>3 DEF ReceivedInv, CleanInv
  <2>2. ASSUME NEW p, NEW j PROVE ~Busy(p, j) /\ ~Busy(p, j)' /\ (Present(p) <=> Present(p)')
    BY <1>1, <2>1 DEF Busy, RegStates, Present
  <2>3. Clean' => Clean
    BY <1>1 DEF Clean
  <2>4. StoredInv'
    BY <1>1, <1>3, <2>2, <2>3 DEF ReceivedInv, StoredInv, Working
  <2>5. CleanInv'
    BY <1>1, <1>3 DEF CleanInv, RegStates
  <2> QED
    BY <2>4, <2>5 DEF ReceivedInv
<1> QED
  BY <1>2, <1>3

(* A step of process_one_file_reg() or _link() on the entry at hand: the   *)
(* others stay as they are, and this one is in its place when it is done.  *)
LEMMA EntryKeepsStored ==
    ASSUME UnpackOK, StoredInv, rpc \in RegStates \cup {"link", "target"},
           UNCHANGED <<name, crcS, marker>>,
           UNCHANGED crcR \/ Receive,
           \A p \in Paths \ {name} : dst'[p] = dst[p],
           Clean' /\ rpc' \notin RegStates \cup {"link", "target"} => dst'[name] = SrcTree[name]
    PROVE  StoredInv'
<1> USE DEF UnpackOK, PackOK
<1>1. SUFFICES ASSUME Clean', NEW p \in DOMAIN SrcTree, NEW j \in 1..Len(crcR'),
                      crcR'[j] = NameItem(p), ~Busy(p, j)'
               PROVE  /\ Present(p)'
                      /\ (\E i \in 1..(j - 1) : crcR'[i] = NameItem(p)) => dst'[p] = SrcTree[p]
  BY DEF StoredInv
<1>2. Clean
  BY <1>1, CleanBefore
<1>3. crcR \in Seq(Items) /\ Len(crcR) \in Nat
  BY DEF TypeOK, UnpackTypeOK, Checksum
<1>4. j \in 1..Len(crcR) /\ \A i \in 1..j : crcR'[i] = crcR[i]
  <2>1. CASE UNCHANGED crcR
    BY <1>3, <2>1
  <2>2. CASE Receive
    <3>1. /\ Len(crcR') = Len(crcR) + 1 /\ crcR'[Len(crcR) + 1] = Head(fwd)
          /\ \A i \in 1..Len(crcR) : crcR'[i] = crcR[i]
          /\ Head(fwd).t # "name"
      BY <1>1, <2>2, CleanRead DEF RegStates
    <3>2. NameItem(p).t = "name"
      BY DEF NameItem
    <3>3. j # Len(crcR) + 1
      BY <1>1, <2>2, <3>1, <3>2
    <3> QED
      BY <1>3, <3>1, <3>3
  <2> QED
    BY <2>1, <2>2
<1>5. CASE p = name
  <2>1. dst'[p] = SrcTree[p]
    BY <1>1, <1>5 DEF Busy
  <2> QED
    BY <2>1 DEF Present
<1>6. CASE p # name
  <2>1. dst'[p] = dst[p]
    BY <1>6, SourceFacts
  <2>2. ~Busy(p, j)
    BY <1>6 DEF Busy, RegStates
  <2>3. /\ Present(p)
        /\ (\E i \in 1..(j - 1) : crcR[i] = NameItem(p)) => dst[p] = SrcTree[p]
    BY <1>1, <1>2, <1>4, <2>2 DEF StoredInv, Working
  <2>4. \A i \in 1..(j - 1) : i \in 1..j
    OBVIOUS
  <2> QED
    BY <1>4, <2>1, <2>3, <2>4 DEF Present
<1> QED
  BY <1>5, <1>6

(* do_unpack_ext() reads a header between two entries, when all that was   *)
(* read is in its place.                                                   *)
LEMMA HeaderKeepsReceived ==
    ASSUME UnpackOK, ReceivedInv, UNCHANGED packVars,
           ReadHeader \/ ReadHeaderEof \/ ReadHeaderError
    PROVE  ReceivedInv'
<1> USE DEF UnpackOK, PackOK
<1>0. rpc = "hdr" /\ ~marker /\ UNCHANGED <<crcS, dst>>
  BY DEF ReadHeader, ReadHeaderEof, ReadHeaderError, ReceivedInv, CleanInv, packVars, treeVars
<1>1. CASE ~ReadHeader
  BY <1>0, <1>1, StopKeepsReceived DEF ReadHeaderEof, ReadHeaderError
<1>2. CASE ReadHeader
  <2>1. Receive
    BY <1>2 DEF ReadHeader
  <2>2. \/ rpc' = "sync" /\ marker'
        \/ rpc' = "result" /\ ~marker'
        \/ rpc' = "name" /\ ~marker'
    BY <1>0, <1>2 DEF ReadHeader, do_exit, GoOn, replyVars
  <2>4. CASE rpc' = "result" /\ ~marker'
    BY <2>4, StopKeepsReceived
  <2>5. CASE (rpc' = "sync" /\ marker') \/ (rpc' = "name" /\ ~marker')
    <3>1. CleanInv'
      BY <2>5 DEF CleanInv, RegStates
    <3>2. ASSUME Clean', NEW p \in DOMAIN SrcTree, NEW j \in 1..Len(crcR'),
                 crcR'[j] = NameItem(p)
          PROVE  /\ Present(p)'
                 /\ (\E i \in 1..(j - 1) : crcR'[i] = NameItem(p)) => dst'[p] = SrcTree[p]
      <4>1. /\ Len(crcR') = Len(crcR) + 1 /\ crcR'[Len(crcR) + 1] = Head(fwd)
            /\ \A i \in 1..Len(crcR) : crcR'[i] = crcR[i]
            /\ Len(crcR) \in Nat /\ Clean /\ Head(fwd).t = "hdr"
        BY <1>0, <2>1, <3>2, CleanRead
      <4>2. NameItem(p).t = "name"
        BY DEF NameItem
      <4>3. j # Len(crcR) + 1
        BY <3>2, <4>1, <4>2
      <4>4. j \in 1..Len(crcR) /\ \A i \in 1..j : crcR'[i] = crcR[i]
        BY <4>1, <4>3
      <4>5. ~Busy(p, j)
        BY <1>0 DEF Busy, RegStates
      <4>6. /\ Present(p)
            /\ (\E i \in 1..(j - 1) : crcR[i] = NameItem(p)) => dst[p] = SrcTree[p]
        BY <1>0, <3>2, <4>1, <4>4, <4>5 DEF ReceivedInv, StoredInv, Working
      <4>7. \A i \in 1..(j - 1) : i \in 1..j
        OBVIOUS
      <4> QED
        BY <1>0, <4>4, <4>6, <4>7 DEF Present
    <3>3. StoredInv'
      BY <3>2 DEF StoredInv
    <3> QED
      BY <3>1, <3>3 DEF ReceivedInv
  <2> QED
    BY <2>2, <2>4, <2>5
<1> QED
  BY <1>1, <1>2

(* process_one_file() reads the name: in a clean stream it is that of the  *)
(* entry whose header it holds.                                            *)
LEMMA NameKeepsReceived ==
    ASSUME UnpackOK, ReceivedInv, UNCHANGED packVars, ReadName
    PROVE  ReceivedInv'
<1> USE DEF UnpackOK, PackOK
<1>0. /\ rpc = "name" /\ ~marker /\ UNCHANGED <<crcS, dst, hdr, marker>>
      /\ Receive /\ \E item \in Incoming : name' = item.name
      /\ rpc' \in {"reg", "link", "dir", "result"}
  BY DEF ReadName, Dispatch, GoOn, do_exit, replyVars, ReceivedInv, CleanInv, packVars, treeVars
<1>1. CASE rpc' = "result"
  BY <1>0, <1>1, StopKeepsReceived
<1>2. CASE rpc' # "result"
  <2>1. PICK tag : Tagged(tag) /\ ReaderAt(tag)
    BY DEF StreamInv
  <2>2. PICK e : e = tag[Len(crcR)].e
    OBVIOUS
  <2>3. ASSUME Clean'
        PROVE  /\ Clean /\ name' = e
               /\ Len(crcR') = Len(crcR) + 1 /\ crcR'[Len(crcR) + 1] = NameItem(e)
               /\ \A i \in 1..Len(crcR) : crcR'[i] = crcR[i]
               /\ Len(crcR) \in Nat
    <3>1. /\ Clean /\ Due /\ Head(fwd) = crcS[Len(crcR) + 1]
          /\ Len(crcR') = Len(crcR) + 1 /\ crcR'[Len(crcR) + 1] = Head(fwd)
          /\ \A i \in 1..Len(crcR) : crcR'[i] = crcR[i]
          /\ Len(crcR) \in Nat /\ Incoming = {crcS[Len(crcR) + 1]}
      BY <1>0, <2>3, CleanRead
    <3>2. crcS[Len(crcR) + 1] = NameItem(e)
      BY <1>0, <2>1, <2>2, <3>1, NameIsDue
    <3>3. NameItem(e).name = e
      BY DEF NameItem
    <3> QED
      BY <1>0, <3>1, <3>2, <3>3
  <2>4. CleanInv'
    BY <1>0, <1>2 DEF CleanInv, RegStates
  <2>5. ASSUME Clean', NEW p \in DOMAIN SrcTree, NEW j \in 1..Len(crcR'),
               crcR'[j] = NameItem(p), ~Busy(p, j)'
        PROVE  /\ Present(p)'
               /\ (\E i \in 1..(j - 1) : crcR'[i] = NameItem(p)) => dst'[p] = SrcTree[p]
    <3>1. j # Len(crcR) + 1
      <4>1. SUFFICES ASSUME j = Len(crcR) + 1 PROVE FALSE
        OBVIOUS
      <4>2. NameItem(p) = NameItem(e)
        BY <2>3, <2>5, <4>1
      <4>3. p = e
        BY <4>2 DEF NameItem
      <4>4. Busy(p, j)'
        BY <1>0, <1>2, <2>3, <2>5, <4>1, <4>3 DEF Busy, RegStates
      <4> QED
        BY <2>5, <4>4
    <3>2. j \in 1..Len(crcR) /\ \A i \in 1..j : crcR'[i] = crcR[i]
      BY <2>3, <2>5, <3>1
    <3>3. ~Busy(p, j)
      BY <1>0 DEF Busy, RegStates
    <3>4. /\ Present(p)
          /\ (\E i \in 1..(j - 1) : crcR[i] = NameItem(p)) => dst[p] = SrcTree[p]
      BY <1>0, <2>3, <2>5, <3>2, <3>3 DEF ReceivedInv, StoredInv, Working
    <3>5. \A i \in 1..(j - 1) : i \in 1..j
      OBVIOUS
    <3> QED
      BY <1>0, <3>2, <3>4, <3>5 DEF Present
  <2>6. StoredInv'
    BY <2>5 DEF StoredInv
  <2> QED
    BY <2>4, <2>6 DEF ReceivedInv
<1> QED
  BY <1>1, <1>2

(* EOF or an error of read() in the middle of an entry, a full disk or a   *)
(* failing file system call: the unpacker gives up.                        *)
LEMMA CutKeepsReceived ==
    ASSUME ReceivedInv,
           ReadEof \/ ReadError \/ CopyNoSpace \/ LinkFails \/ FileSystemError
    PROVE  ReceivedInv'
<1>1. ~marker
  <2>1. rpc \in {"name", "data", "target", "reg", "dir", "fix", "linkat"}
    BY DEF ReadEof, ReadError, CopyNoSpace, LinkFails, FileSystemError, Reading
  <2> QED
    BY <2>1 DEF ReceivedInv, CleanInv
<1>2. UNCHANGED marker /\ rpc' = "result"
  BY DEF ReadEof, ReadError, CopyNoSpace, LinkFails, FileSystemError, do_exit
<1> QED
  BY <1>1, <1>2, StopKeepsReceived

(* What a clean header tells process_one_file(): the truth.                *)
LEMMA CleanEntry ==
    ASSUME UnpackOK, Clean, rpc \in Named
    PROVE  /\ name \in DOMAIN SrcTree /\ name \in Paths
           /\ hdr = HeaderOf(name) /\ hdr.nsec = TRUE /\ hdr.filelen = FileLen(name)
           /\ hdr.kind = SrcTree[name].kind
           /\ \E tag : /\ Tagged(tag) /\ ReaderAt(tag) /\ Len(crcR) > 0
                       /\ tag[Len(crcR)].e = name /\ ReaderPlace(tag[Len(crcR)])
<1> USE DEF UnpackOK, PackOK
<1>1. Steady
  BY DEF Steady, Clean
<1>2. PICK tag : Tagged(tag) /\ ReaderAt(tag)
  BY DEF StreamInv
<1>3. PICK e \in DOMAIN SrcTree :
         /\ e = tag[Len(crcR)].e /\ Len(crcR) > 0 /\ ReaderPlace(tag[Len(crcR)])
  BY <1>1, <1>2, PlaceFacts
<1>4. name = e /\ hdr = HeaderOf(e)
  BY <1>3 DEF ReaderPlace
<1>5. /\ HeaderOf(e).nsec = TRUE /\ HeaderOf(e).filelen = FileLen(e)
      /\ HeaderOf(e).kind = SrcTree[e].kind
  BY <1>3, ItemTypes
<1> QED
  BY <1>2, <1>3, <1>4, <1>5, EntryFacts

(* An entry of the source is made of what lstat(), read() and readlink()   *)
(* say about it.                                                           *)
LEMMA SourceNode ==
    ASSUME NEW p \in DOMAIN SrcTree
    PROVE  /\ SrcTree[p].kind = "reg" =>
                SrcTree[p] = MkNode("reg", "final", FileLen(p), SrcTree[p].content, <<>>)
           /\ SrcTree[p].kind = "link" =>
                SrcTree[p] = MkNode("link", "final", Len(SrcTree[p].target), <<>>, SrcTree[p].target)
           /\ SrcTree[p].kind = "dir" => SrcTree[p] = MkNode("dir", "final", 0, <<>>, <<>>)
<1>1. PICK node : node = SrcTree[p]
  OBVIOUS
<1>2. node \in Node /\ node.perm = "final" /\ WellFormed(node)
  BY <1>1, QfileWireAssumption
<1>3. node = MkNode(node.kind, node.perm, node.size, node.content, node.target)
  BY <1>2, NodeFields
<1>4. /\ node.kind # "reg" => node.content = <<>>
      /\ node.kind # "link" => node.target = <<>>
      /\ node.kind = "dir" => node.size = 0
      /\ node.kind = "link" => node.size = Len(node.target)
  BY <1>2 DEF WellFormed
<1>5. node.kind = "reg" => FileLen(p) = node.size
  BY <1>1 DEF FileLen
<1> QED
  BY <1>1, <1>2, <1>3, <1>4, <1>5

(* The steps of process_one_file_reg() that neither read nor finish, and   *)
(* the length check of process_one_file_link().                            *)
LEMMA RegKeepsReceived ==
    ASSUME UnpackOK, ReceivedInv, UNCHANGED packVars, [Next]_vars,
           \/ OpenReg \/ CheckQuota \/ WaitSpace \/ SpaceUnknown \/ LinkTmpfile \/ LinkQuota
    PROVE  ReceivedInv'
<1> USE DEF UnpackOK, PackOK
<1>0. /\ rpc \in {"reg", "quota", "space", "linkat", "link"}
      /\ UNCHANGED <<crcR, crcS, hdr, name, marker>>
      /\ buf' = IF rpc = "reg" THEN <<>> ELSE buf
  BY DEF OpenReg, CheckQuota, WaitSpace, SpaceUnknown, LeaveSpaceCheck, LinkTmpfile, LinkQuota,
         CreateTmpfile, CreateExclusive, GoOn, do_exit, Quiet, replyVars, fileVars, packVars
<1>1. rpc' \in {"result", "quota", "space", "data", "linkat", "fix", "target"}
      /\ (rpc' = "target" => rpc = "link") /\ (rpc = "link" => rpc' \in {"target", "result"})
  BY DEF OpenReg, CheckQuota, WaitSpace, SpaceUnknown, LeaveSpaceCheck, LinkTmpfile, LinkQuota,
         CreateTmpfile, CreateExclusive, GoOn, do_exit, AfterData
<1>2. ~marker
  BY <1>0 DEF ReceivedInv, CleanInv
<1>3. CASE rpc' = "result"
  BY <1>0, <1>2, <1>3, StopKeepsReceived
<1>4. CASE rpc' # "result"
  <2>1. Clean' => Clean
    BY <1>0 DEF Clean
  <2>3. \A p \in Paths \ {name} : dst'[p] = dst[p]
    <3>1. DstStep /\ dst \in [Paths -> Node]
      BY DstSteps DEF TypeOK, UnpackTypeOK
    <3> QED
      BY <3>1 DEF DstStep
  <2>4. rpc \in RegStates \cup {"link", "target"} /\ rpc' \in RegStates \cup {"link", "target"}
    BY <1>0, <1>1, <1>4 DEF RegStates
  <2>5. StoredInv'
    BY <1>0, <2>3, <2>4, EntryKeepsStored DEF ReceivedInv
  <2>6. CleanInv'
    <3>3. ASSUME Clean, rpc' \in RegStates \ {"reg"}, NEW i \in 1..Len(buf')
          PROVE  buf'[i] = SrcTree[name].content[i]
      <4>1. CASE rpc = "reg"
        BY <1>0, <3>3, <4>1
      <4>2. CASE rpc \in {"quota", "space", "linkat"}
        BY <1>0, <3>3, <4>2 DEF ReceivedInv, CleanInv, RegStates
      <4> QED
        BY <1>0, <1>1, <3>3, <4>1, <4>2 DEF RegStates
    <3> QED
      BY <1>0, <1>1, <1>2, <1>4, <2>1, <3>3 DEF CleanInv
  <2> QED
    BY <2>5, <2>6 DEF ReceivedInv
<1> QED
  BY <1>3, <1>4

(* copy_file() appends the chunk that was sent.                            *)
LEMMA CopyKeepsReceived ==
    ASSUME UnpackOK, ReceivedInv, UNCHANGED packVars, [Next]_vars, CopyChunk
    PROVE  ReceivedInv'
<1> USE DEF UnpackOK, PackOK
<1>0. /\ rpc = "data" /\ Receive /\ UNCHANGED <<crcS, hdr, name, marker>>
      /\ rpc' \in {"linkat", "fix", "data"}
  BY DEF CopyChunk, GoOn, AfterData, replyVars, packVars
<1>1. ~marker
  BY <1>0 DEF ReceivedInv, CleanInv
<1>2. PICK item \in Incoming : buf' = Append(buf, item.v)
  BY DEF CopyChunk
<1>3. buf \in Seq(Chunks) /\ Len(buf) \in Nat /\ item.v \in Chunks
  BY <1>0, IncomingFacts DEF TypeOK, UnpackTypeOK
<1>4. rpc \in RegStates \ {"reg"} /\ rpc \in Named
  BY <1>0 DEF RegStates, Named
<1>5. StoredInv'
  <2>1. \A p \in Paths \ {name} : dst'[p] = dst[p]
    <3>1. DstStep /\ dst \in [Paths -> Node]
      BY DstSteps DEF TypeOK, UnpackTypeOK
    <3> QED
      BY <3>1 DEF DstStep
  <2>2. rpc \in RegStates \cup {"link", "target"} /\ rpc' \in RegStates \cup {"link", "target"}
    BY <1>0 DEF RegStates
  <2> QED
    BY <1>0, <2>1, <2>2, EntryKeepsStored DEF ReceivedInv
<1>6. ASSUME Clean', NEW i \in 1..Len(buf') PROVE buf'[i] = SrcTree[name].content[i]
  <2>1. Clean /\ Due /\ Incoming = {crcS[Len(crcR) + 1]}
    BY <1>0, <1>6, CleanRead
  <2>2. PICK tag : Tagged(tag) /\ ReaderAt(tag) /\ tag[Len(crcR)].e = name
    BY <1>4, <2>1, CleanEntry
  <2>3. crcS[Len(crcR) + 1] = DataItem(SrcTree[name].content[Len(buf) + 1])
    BY <1>0, <2>1, <2>2, DataIsDue
  <2>4. item.v = SrcTree[name].content[Len(buf) + 1]
    BY <1>2, <2>1, <2>3 DEF DataItem
  <2>5. /\ Len(buf') = Len(buf) + 1 /\ buf'[Len(buf) + 1] = item.v
        /\ \A k \in 1..Len(buf) : buf'[k] = buf[k]
    BY <1>2, <1>3, AppendProperties
  <2>6. CASE i = Len(buf) + 1
    BY <2>4, <2>5, <2>6
  <2>7. CASE i \in 1..Len(buf)
    BY <1>4, <2>1, <2>5, <2>7 DEF ReceivedInv, CleanInv
  <2> QED
    BY <1>3, <2>5, <2>6, <2>7
<1>7. CleanInv'
  BY <1>0, <1>1, <1>6 DEF CleanInv
<1> QED
  BY <1>5, <1>7 DEF ReceivedInv

(* fix_times_and_perms() finishes the file: it is the one of the source.   *)
LEMMA FixKeepsReceived ==
    ASSUME UnpackOK, ReceivedInv, UNCHANGED packVars, [Next]_vars, FixReg
    PROVE  ReceivedInv'
<1> USE DEF UnpackOK, PackOK
<1>0. /\ rpc = "fix" /\ UNCHANGED <<crcR, crcS, name, marker>>
      /\ \/ hdr.nsec /\ dst' = [dst EXCEPT ![name].perm = "final"] /\ rpc' = "hdr"
         \/ ~hdr.nsec /\ rpc' = "exit"
  BY DEF FixReg, fix_times_and_perms, GoOn, errx, Quiet, replyVars, packVars
<1>1. ~marker
  BY <1>0 DEF ReceivedInv, CleanInv
<1>2. CASE rpc' = "exit"
  BY <1>0, <1>1, <1>2, StopKeepsReceived
<1>3. CASE dst' = [dst EXCEPT ![name].perm = "final"] /\ rpc' = "hdr"
  <2>1. name \in Paths /\ dst \in [Paths -> Node] /\ rpc \in Named /\ hdr.kind = "reg"
    BY <1>0, EntryFacts DEF Named, RegStates, EntryInv, TypeOK, UnpackTypeOK
  <2>2. ASSUME Clean' PROVE dst'[name] = SrcTree[name]
    <3>1. Clean
      BY <1>0, <2>2 DEF Clean
    <3>2. /\ hdr.filelen = FileLen(name) /\ name \in DOMAIN SrcTree
          /\ SrcTree[name].kind = "reg"
      BY <2>1, <3>1, CleanEntry
    <3>3. PICK perm : dst[name] = MkNode("reg", perm, hdr.filelen, buf, <<>>)
      BY <1>0 DEF FileInv
    <3>4. buf = SrcTree[name].content
      <4>1. buf \in Seq(Chunks) /\ Len(buf) = FileLen(name)
        BY <1>0, <3>2 DEF FileInv, TypeOK, UnpackTypeOK
      <4>2. SrcTree[name].content \in Seq(Chunks) /\ Len(SrcTree[name].content) = FileLen(name)
        BY <3>2, SourceFacts
      <4>3. \A i \in 1..Len(buf) : buf[i] = SrcTree[name].content[i]
        BY <1>0, <3>1 DEF ReceivedInv, CleanInv, RegStates
      <4> QED
        BY <4>1, <4>2, <4>3, SeqEqual
    <3>5. dst'[name] = MkNode("reg", "final", FileLen(name), SrcTree[name].content, <<>>)
      <4>1. dst' = Put(dst, name, MkNode(dst[name].kind, "final", dst[name].size,
                                         dst[name].content, dst[name].target))
        BY <1>3, <2>1, ExceptIsPut
      <4>2. dst'[name] = MkNode(dst[name].kind, "final", dst[name].size,
                                dst[name].content, dst[name].target)
        BY <2>1, <4>1 DEF Put
      <4> QED
        BY <3>2, <3>3, <3>4, <4>2, MkNodeFields
    <3> QED
      BY <3>2, <3>5, SourceNode
  <2>3. \A p \in Paths \ {name} : dst'[p] = dst[p]
    BY <1>3, <2>1
  <2>4. rpc \in RegStates \cup {"link", "target"}
    BY <1>0 DEF RegStates
  <2>5. StoredInv'
    BY <1>0, <2>2, <2>3, <2>4, EntryKeepsStored DEF ReceivedInv
  <2>6. CleanInv'
    BY <1>0, <1>1, <1>3 DEF CleanInv, RegStates
  <2> QED
    BY <2>5, <2>6 DEF ReceivedInv
<1> QED
  BY <1>0, <1>2, <1>3

(* process_one_file_link() makes the link of the source.                   *)
LEMMA LinkKeepsReceived ==
    ASSUME UnpackOK, ReceivedInv, UNCHANGED packVars, MakeLink
    PROVE  ReceivedInv'
<1> USE DEF UnpackOK, PackOK
<1>0. /\ rpc = "target" /\ UNCHANGED <<crcS, name, marker>>
      /\ \/ rpc' = "result"
         \/ /\ Receive /\ rpc' = "hdr"
            /\ \E item \in Incoming :
                  dst' = Put(dst, name, MkNode("link", "final", Len(item.v), <<>>, item.v))
  <2>1. UNCHANGED <<crcS, name, marker>>
    BY Zenon DEF MakeLink, StoreLink, GoOn, do_exit, replyVars, fileVars, packVars
  <2>2. \A code : do_exit(code, TRUE) => rpc' = "result"
    BY DEF do_exit
  <2> QED
    BY <2>1, <2>2, MakeLinkSteps DEF GoOn
<1>1. ~marker
  BY <1>0 DEF ReceivedInv, CleanInv
<1>2. CASE rpc' = "result"
  BY <1>0, <1>1, <1>2, StopKeepsReceived
<1>3. ASSUME Receive, rpc' = "hdr", NEW item \in Incoming,
             dst' = Put(dst, name, MkNode("link", "final", Len(item.v), <<>>, item.v))
      PROVE  ReceivedInv'
  <2>1. /\ name \in Paths /\ dst \in [Paths -> Node] /\ rpc \in Named /\ hdr.kind = "link"
    BY <1>0, EntryFacts DEF Named, EntryInv, TypeOK, UnpackTypeOK
  <2>2. ASSUME Clean' PROVE dst'[name] = SrcTree[name]
    <3>1. Clean /\ Due /\ Incoming = {crcS[Len(crcR) + 1]}
      BY <1>0, <1>3, <2>2, CleanRead
    <3>2. name \in DOMAIN SrcTree /\ SrcTree[name].kind = "link"
      BY <2>1, <3>1, CleanEntry
    <3>3. PICK tag : Tagged(tag) /\ ReaderAt(tag) /\ tag[Len(crcR)].e = name
      BY <2>1, <3>1, CleanEntry
    <3>4. crcS[Len(crcR) + 1] = LinkItem(SrcTree[name].target)
      BY <1>0, <3>1, <3>3, TargetIsDue
    <3>5. item.v = SrcTree[name].target
      BY <1>3, <3>1, <3>4 DEF LinkItem
    <3>6. dst'[name] = MkNode("link", "final", Len(item.v), <<>>, item.v)
      BY <1>3, <2>1 DEF Put
    <3> QED
      BY <3>2, <3>5, <3>6, SourceNode
  <2>3. \A p \in Paths \ {name} : dst'[p] = dst[p]
    BY <1>3, <2>1 DEF Put
  <2>4. StoredInv'
    BY <1>0, <1>3, <2>2, <2>3, EntryKeepsStored DEF ReceivedInv
  <2>5. CleanInv'
    BY <1>0, <1>1, <1>3 DEF CleanInv, RegStates
  <2> QED
    BY <2>4, <2>5 DEF ReceivedInv
<1> QED
  BY <1>0, <1>2, <1>3

(* process_one_file_dir() makes the directory when it is announced the     *)
(* first time and sets its mode when it is announced again.                *)
LEMMA DirKeepsReceived ==
    ASSUME UnpackOK, ReceivedInv, UNCHANGED packVars, MakeDir
    PROVE  ReceivedInv'
<1> USE DEF UnpackOK, PackOK
<1> DEFINE k == Len(crcR)
<1>0. /\ rpc = "dir" /\ UNCHANGED <<crcR, crcS, name, hdr, marker>>
      /\ \/ rpc' \in {"result", "exit"}
         \/ /\ rpc' = "hdr" /\ ~Exists(dst, name)
            /\ dst' = Put(dst, name, MkNode("dir", "rwx", 0, <<>>, <<>>))
         \/ /\ rpc' = "hdr" /\ Exists(dst, name)
            /\ dst[name].kind \in {"none", "dir"}
            /\ dst' = [dst EXCEPT ![name].perm = "final"]
  <2>1. /\ rpc = "dir" /\ UNCHANGED <<crcR, crcS, name, hdr, marker>>
    BY DEF MakeDir, fix_times_and_perms, errx, GoOn, do_exit, replyVars, fileVars, packVars, Quiet
  <2>2. \/ rpc' \in {"result", "exit"}
        \/ /\ rpc' = "hdr" /\ CreateError(dst, name) = 0
           /\ dst' = Put(dst, name, MkNode("dir", "rwx", 0, <<>>, <<>>))
        \/ /\ rpc' = "hdr" /\ CreateError(dst, name) # 0
           /\ DirError(dst, name, validate_flags) = 0
           /\ dst' = [dst EXCEPT ![name].perm = "final"]
    BY Zenon DEF MakeDir, fix_times_and_perms, errx, GoOn, do_exit
  <2>3. CreateError(dst, name) = 0 <=> ~Exists(dst, name)
    BY DEF CreateError, EEXIST
  <2> QED
    BY <2>1, <2>2, <2>3, DirErrorZero
<1>1. ~marker
  BY <1>0 DEF ReceivedInv, CleanInv
<1>2. CASE rpc' \in {"result", "exit"}
  BY <1>0, <1>1, <1>2, StopKeepsReceived
<1>3. CASE rpc' = "hdr"
  <2>2. CleanInv'
    BY <1>0, <1>1, <1>3 DEF CleanInv, RegStates
  <2>3. SUFFICES ASSUME Clean', NEW p \in DOMAIN SrcTree, NEW j \in 1..k,
                        crcR[j] = NameItem(p)
                 PROVE  /\ Present(p)'
                        /\ (\E i \in 1..(j - 1) : crcR[i] = NameItem(p)) => dst'[p] = SrcTree[p]
    BY <1>0, <2>2 DEF ReceivedInv, StoredInv
  <2>4. Clean /\ k \in Nat /\ rpc \in Named /\ hdr.kind = "dir"
    BY <1>0, <2>3 DEF Clean, TypeOK, UnpackTypeOK, Checksum, Named, EntryInv
  <2>1. /\ name \in DOMAIN SrcTree /\ name \in Paths /\ SrcTree[name].kind = "dir"
        /\ dst \in [Paths -> Node] /\ WellFormed(dst[name]) /\ dst[name] \in Node
    BY <2>4, CleanEntry DEF TypeOK, UnpackTypeOK, FileInv
  <2>5. ASSUME NEW m \in 1..k, m # k, NEW q \in DOMAIN SrcTree, crcR[m] = NameItem(q)
        PROVE  /\ Present(q)
               /\ (\E i \in 1..(m - 1) : crcR[i] = NameItem(q)) => dst[q] = SrcTree[q]
    <3>1. ~Busy(q, m)
      BY <1>0, <2>5 DEF Busy, RegStates
    <3> QED
      BY <1>0, <2>4, <2>5, <3>1 DEF ReceivedInv, StoredInv, Working
  <2>6. k > 0 /\ crcR[k] = NameItem(name)
    <3>1. PICK tag : /\ Tagged(tag) /\ ReaderAt(tag) /\ k > 0
                     /\ tag[k].e = name /\ ReaderPlace(tag[k])
      BY <2>4, CleanEntry
    <3>2. tag[k].j = 2 /\ name # <<>>
      BY <1>0, <3>1 DEF ReaderPlace
    <3>3. crcS[k] = ItemOf(name, 2)
      BY <3>1, <3>2, EntryAt
    <3>4. k \in 1..k
      BY <2>4, <3>1
    <3>5. crcS[k] = NameItem(name)
      BY <3>2, <3>3 DEF ItemOf
    <3> QED
      BY <2>4, <3>1, <3>4, <3>5 DEF Clean
  <2>7. CASE p # name
    <3>1. j # k
      BY <2>3, <2>6, <2>7 DEF NameItem
    <3>2. dst'[p] = dst[p]
      BY <1>0, <1>3, <2>1, <2>7, SourceFacts DEF Put
    <3> QED
      BY <2>3, <2>5, <3>1, <3>2 DEF Present
  <2>8. CASE p = name
    <3>1. CASE ~Exists(dst, name)
      <4>1. dst'[name] = MkNode("dir", "rwx", 0, <<>>, <<>>)
        BY <1>0, <1>3, <2>1, <3>1 DEF Put
      <4>2. Present(p)'
        BY <2>1, <2>8, <4>1, MkNodeFields DEF Present
      <4>3. ASSUME NEW i \in 1..(j - 1), crcR[i] = NameItem(p) PROVE FALSE
        <5>1. i \in 1..k /\ i # k
          BY <2>4
        <5>2. Present(p)
          BY <2>5, <4>3, <5>1
        <5> QED
          BY <2>1, <2>8, <3>1, <5>2 DEF Present, Exists
      <4> QED
        BY <4>2, <4>3
    <3>2. CASE Exists(dst, name)
      <4>1. dst[name].kind = "dir" /\ dst' = [dst EXCEPT ![name].perm = "final"]
        BY <1>0, <1>3, <3>2 DEF Exists
      <4>2. dst[name].size = 0 /\ dst[name].content = <<>> /\ dst[name].target = <<>>
        BY <2>1, <4>1 DEF WellFormed
      <4>3. dst'[name] = MkNode(dst[name].kind, "final", dst[name].size,
                                dst[name].content, dst[name].target)
        <5>1. dst' = Put(dst, name, MkNode(dst[name].kind, "final", dst[name].size,
                                           dst[name].content, dst[name].target))
          BY <2>1, <4>1, ExceptIsPut
        <5> QED
          BY <2>1, <5>1 DEF Put
      <4>4. dst'[name] = SrcTree[name]
        BY <2>1, <4>1, <4>2, <4>3, SourceNode
      <4> QED
        BY <2>1, <2>8, <4>4 DEF Present
    <3> QED
      BY <3>1, <3>2
  <2> QED
    BY <2>7, <2>8
<1> QED
  BY <1>0, <1>2, <1>3

(***************************************************************************)
(* The theorems                                                            *)
(***************************************************************************)

CompleteInv == WalkInv /\ ReceivedInv

(* Everything waits in the caller's list of arguments, nothing was read.   *)
LEMMA InitComplete == Init => CompleteInv
<1> SUFFICES ASSUME Init PROVE CompleteInv
  OBVIOUS
<1> USE DEF Init, PackInit, UnpackInit
<1>1. ASSUME NEW p \in ToCopy PROVE Waiting(p)
  <2>1. p \in DOMAIN SrcTree /\ p \in Seq(Names) /\ Len(p) \in Nat \ {0}
    BY SourceFacts, PathNotEmpty DEF ToCopy
  <2>2. 0 \in 0..(Len(p) - 1) /\ SubSeq(p, 1, 0) = <<>>
    BY <2>1
  <2>3. p[0 + 1] \in Children(<<>>)
    BY <2>1, <2>2, PathSteps
  <2>4. 1 \in 1..Len(stack) /\ stack[1].dir = <<>> /\ stack[1].todo = Children(<<>>)
    BY DEF Frame
  <2> QED
    BY <2>2, <2>3, <2>4 DEF Waiting
<1>2. WalkInv
  BY <1>1 DEF WalkInv, OnItsWay
<1>3. ReceivedInv
  BY DEF ReceivedInv, CleanInv, StoredInv, RegStates
<1> QED
  BY <1>2, <1>3 DEF CompleteInv

(* What the steps of the packer and of the wire leave alone.               *)
LEMMA PackFrames ==
    ASSUME Pack \/ PackFault
    PROVE  /\ UNCHANGED <<rpc, unpackVars>>
           /\ UNCHANGED crcS \/ \E item : crcS' = Append(crcS, item)
<1>1. UNCHANGED unpackVars
  BY DEF Pack, PackFault
<1>2. CASE WalkLeave \/ WalkEnd \/ NoResultYet \/ ResultEof \/ ReadResult \/ ReadExt
           \/ LocalError \/ KillPacker \/ \E n \in Names : WalkEnter(n)
  BY <1>1, <1>2 DEF WalkEnter, WalkLeave, WalkEnd, NoResultYet, ResultEof, ReadResult, ReadExt,
                    LocalError, KillPacker, packVars
<1>3. CASE SendHeader \/ SendName \/ SendChunk \/ SendTarget \/ NotifyEnd
  <2>1. UNCHANGED rpc
    BY <1>3 DEF SendHeader, SendName, SendChunk, SendTarget, NotifyEnd
  <2>2. \E item : crcS' = Append(crcS, item)
    BY <1>3 DEF SendHeader, SendName, SendChunk, SendTarget, NotifyEnd, write_all_with_crc
  <2> QED
    BY <1>1, <2>1, <2>2
<1> QED
  BY <1>2, <1>3 DEF Pack, PackFault, PackStep

(* No step of the unpacker moves the packer.                               *)
LEMMA UnpackKeepsWalk ==
    ASSUME WalkInv, UNCHANGED <<spc, packVars>>
    PROVE  WalkInv'
<1> USE DEF packVars
<1>1. ASSUME NEW p PROVE (OnItsWay(p) => OnItsWay(p)') /\ (Delivered(p) => Delivered(p)')
  BY DEF OnItsWay, Delivered, Sent, SentTwice, Waiting, OnStack, Sending
<1> QED
  BY <1>1 DEF WalkInv

(* Every step of either program, every fault and kill keeps both halves.   *)
LEMMA NextKeepsComplete ==
    ASSUME UnpackOK, CompleteInv, [Next]_vars
    PROVE  CompleteInv'
<1> USE DEF UnpackOK, PackOK, CompleteInv
<1>1. CASE Pack \/ PackFault
  <2>1. WalkInv'
    BY <1>1, EnterKeepsWalk, LeaveKeepsWalk, SendKeepsWalk, EndKeepsWalk
       DEF Pack, PackFault, PackStep
  <2>2. UNCHANGED <<rpc, unpackVars>> /\ (Clean' => Clean)
    BY <1>1, PackFrames, CleanBefore DEF unpackVars
  <2>3. ReceivedInv'
    BY <2>2, AsideKeepsReceived DEF unpackVars, treeVars, fileVars, replyVars
  <2> QED
    BY <2>1, <2>3
<1>2. CASE Unpack \/ UnpackFault
  <2>1. UNCHANGED <<spc, packVars>>
    BY <1>2 DEF Unpack, UnpackFault, UnpackStep, ReadPart, ReadHeader, ReadHeaderEof,
                ReadHeaderError, ReadName, ReadEof, ReadError, OpenReg, CheckQuota, WaitSpace, SpaceUnknown,
                LeaveSpaceCheck, CopyChunk, CopyNoSpace, LinkTmpfile, FixReg, MakeDir,
                LinkQuota, MakeLink, LinkFails, FileSystemError, Sync, SendResult, SendExt,
                KillUnpacker, DiskFills, DiskFrees
  <2>2. WalkInv'
    BY <2>1, UnpackKeepsWalk
  <2>3. CASE ReadHeader \/ ReadHeaderEof \/ ReadHeaderError \/ ReadName
    BY <2>1, <2>2, <2>3, HeaderKeepsReceived, NameKeepsReceived
  <2>4. CASE ReadEof \/ ReadError \/ CopyNoSpace \/ LinkFails \/ FileSystemError
    BY <2>2, <2>4, CutKeepsReceived
  <2>5. CASE OpenReg \/ CheckQuota \/ WaitSpace \/ SpaceUnknown \/ LinkTmpfile \/ LinkQuota
    BY <2>1, <2>2, <2>5, RegKeepsReceived
  <2>6. CASE CopyChunk \/ FixReg \/ MakeDir \/ MakeLink
    BY <2>1, <2>2, <2>6, CopyKeepsReceived, FixKeepsReceived, DirKeepsReceived, LinkKeepsReceived
  <2>7. CASE Sync \/ SendResult \/ SendExt \/ KillUnpacker
    BY <2>1, <2>2, <2>7, ReplyKeepsReceived DEF packVars
  <2>8. CASE DiskFills \/ DiskFrees \/ ReadPart
    <3>1. UNCHANGED <<rpc, dst, hdr, name, buf, crcR, marker, crcS>>
      BY <2>1, <2>8 DEF DiskFills, DiskFrees, ReadPart, Quiet, treeVars, fileVars, replyVars,
                        packVars
    <3>2. Clean' => Clean
      BY <3>1 DEF Clean
    <3> QED
      BY <2>2, <3>1, <3>2, AsideKeepsReceived
  <2> QED
    BY <1>2, <2>3, <2>4, <2>5, <2>6, <2>7, <2>8 DEF Unpack, UnpackFault, UnpackStep
<1>3. CASE WireFault \/ Done \/ UNCHANGED vars
  <2>1. UNCHANGED <<spc, rpc, packVars, unpackVars>>
    BY <1>3 DEF WireFault, Garble, Done, vars, wireVars
  <2>2. Clean' => Clean
    BY <2>1 DEF Clean, packVars, unpackVars
  <2>3. ReceivedInv'
    BY <2>1, <2>2, AsideKeepsReceived DEF unpackVars, treeVars, fileVars, replyVars
  <2> QED
    BY <2>1, <2>3, UnpackKeepsWalk
<1> QED
  BY <1>1, <1>2, <1>3 DEF Next

(* The walk forgets no entry and the unpacker loses none that arrives      *)
(* unchanged.                                                              *)
THEOREM CompleteInvariant == Spec => [](UnpackOK /\ AgreementInv /\ CompleteInv)
<1>1. UnpackOK /\ AgreementInv /\ CompleteInv /\ [Next]_vars => CompleteInv'
  BY NextKeepsComplete
<1> QED
  BY <1>1, InitComplete, StreamInvariant, PTL DEF Spec

(* All that was sent has been read and unpacked when the packer succeeds.  *)
LEMMA SuccessMeansComplete ==
    ASSUME UnpackOK, AgreementInv, CompleteInv
    PROVE  SuccessIsComplete
<1> SUFFICES ASSUME sExit = 0, sRes.code = 0, NEW p \in ToCopy PROVE dst[p] = SrcTree[p]
  BY DEF SuccessIsComplete
<1>1. crcR = crcS /\ rpc \in {"ext", "exit"} /\ marker
  BY DEF AgreementInv, SuccessIsVerdict, VerdictGiven, TheResult, Result
<1>2. Clean /\ Working
  BY <1>1 DEF Clean, Working
<1>3. Delivered(p) /\ p \in DOMAIN SrcTree
  BY DEF CompleteInv, WalkInv, ToCopy
<1>4. \A j : ~Busy(p, j)
  BY <1>1 DEF Busy, RegStates
<1>5. ASSUME NEW j \in 1..Len(crcR), crcR[j] = NameItem(p)
      PROVE  /\ Present(p)
             /\ (\E i \in 1..(j - 1) : crcR[i] = NameItem(p)) => dst[p] = SrcTree[p]
  BY <1>2, <1>3, <1>4, <1>5 DEF CompleteInv, ReceivedInv, StoredInv
<1>6. CASE SrcTree[p].kind # "dir"
  BY <1>1, <1>3, <1>5, <1>6 DEF Delivered, Sent, Present
<1>7. CASE SrcTree[p].kind = "dir"
  <2>1. PICK i, j \in 1..Len(crcR) : i < j /\ crcR[i] = NameItem(p) /\ crcR[j] = NameItem(p)
    BY <1>1, <1>3, <1>7 DEF Delivered, SentTwice
  <2>2. i \in 1..(j - 1)
    BY <2>1
  <2> QED
    BY <1>5, <2>1, <2>2
<1> QED
  BY <1>6, <1>7

(* A packer that exits 0 on a result of 0 (pack.c wait_for_result) has     *)
(* every entry of its source in the receiving directory, with its data,    *)
(* its target and its final mode, whatever was garbled, killed or full.    *)
THEOREM Complete_Safe == Spec => []SuccessIsComplete
<1>1. UnpackOK /\ AgreementInv /\ CompleteInv => SuccessIsComplete
  BY SuccessMeansComplete
<1> QED
  BY <1>1, CompleteInvariant, PTL

(***************************************************************************)
(* The copy service                                                        *)
(***************************************************************************)

(* The verdict is given once, when the packer ends.                        *)
LEMMA VerdictOnce ==
    ASSUME WalkInv, [Next]_vars
    PROVE  UNCHANGED Verdict \/ (Verdict = "none" /\ UNCHANGED dst)
<1>1. CASE Pack \/ PackFault
  <2>1. UNCHANGED dst
    BY <1>1, PackFrames DEF unpackVars, treeVars
  <2>2. spc # "exit"
    BY <1>1 DEF Pack, PackFault, PackStep, WalkEnter, WalkLeave, WalkEnd, SendHeader, SendName,
                SendChunk, SendTarget, NotifyEnd, NoResultYet, ResultEof, ReadResult, ReadExt,
                LocalError, KillPacker
  <2> QED
    BY <2>1, <2>2 DEF WalkInv, Verdict
<1>2. CASE UNCHANGED packVars
  BY <1>2 DEF packVars, Verdict
<1> QED
  BY <1>1, <1>2 DEF Next, Unpack, UnpackFault, WireFault, Done, vars

(* An entry that has arrived stays, and one arrives at a time.             *)
LEMMA ArrivalSteps ==
    ASSUME UnpackOK, [Next]_vars
    PROVE  Arrived \subseteq Arrived' /\ Arrived' \subseteq Arrived \cup {name}
<1>1. DstStep /\ dst \in [Paths -> Node]
  BY DstSteps DEF UnpackOK, PackOK, TypeOK, UnpackTypeOK
<1>2. ASSUME NEW p \in ToCopy, p # name PROVE dst'[p] = dst[p]
  BY <1>1, <1>2, SourceFacts DEF DstStep, ToCopy
<1>3. ASSUME name \in ToCopy, dst[name] = SrcTree[name] PROVE dst'[name] = SrcTree[name]
  <2>1. name \in Paths /\ SrcTree[name].perm = "final" /\ SrcTree[name].kind # "none"
        /\ SrcTree[name] \in Node
    BY <1>3, SourceFacts DEF ToCopy
  <2>2. CASE dst' = [dst EXCEPT ![name].perm = "final"]
    <3>1. dst' = Put(dst, name, MkNode(dst[name].kind, "final", dst[name].size,
                                       dst[name].content, dst[name].target))
      BY <1>1, <2>1, <2>2, ExceptIsPut
    <3>2. dst'[name] = MkNode(dst[name].kind, "final", dst[name].size,
                              dst[name].content, dst[name].target)
      BY <1>1, <2>1, <3>1 DEF Put
    <3> QED
      BY <1>3, <2>1, <3>2, NodeFields
  <2> QED
    BY <1>1, <1>3, <2>1, <2>2 DEF DstStep, Exists
<1>4. ToCopy' = ToCopy
  BY DEF ToCopy
<1> QED
  BY <1>2, <1>3, <1>4 DEF Arrived

(* Every behaviour of the two programs, whatever is garbled, killed or     *)
(* full, is one of the copy service: entries arrive one by one and stay,   *)
(* one verdict is given, success only with everything in place, and        *)
(* nothing is stored after it.                                             *)
THEOREM Service_Implemented == Spec => ImplementsService
<1>1. Init => Service!Init
  BY DEF Init, PackInit, Service!Init, Arrived, Verdict
<1>2. ASSUME UnpackOK, AgreementInv, CompleteInv, [Next]_vars,
             SuccessIsComplete', TypeOK'
      PROVE  [Service!Next]_(Service!vars)
  <2>0. /\ Verdict = "success" => sExit = 0 /\ sRes.code = 0
        /\ Verdict' = "success" => sExit' = 0 /\ sRes'.code = 0
    <3>1. sExit \in {-1, 0, 1} /\ sExit' \in {-1, 0, 1}
      BY <1>2 DEF UnpackOK, PackOK, TypeOK, PackTypeOK
    <3> QED
      BY <3>1 DEF Verdict
  <2>1. CASE UNCHANGED Verdict
    <3>1. Arrived \subseteq Arrived' /\ Arrived' \subseteq Arrived \cup {name}
      BY <1>2, ArrivalSteps
    <3>2. CASE Arrived' = Arrived
      BY <2>1, <3>2 DEF Service!vars
    <3>3. CASE Arrived' # Arrived
      <4>1. /\ name \in Arrived' /\ name \notin Arrived /\ Arrived' = Arrived \cup {name}
        BY <3>1, <3>3
      <4>2. name \in ToCopy
        BY <4>1 DEF Arrived, ToCopy
      <4>3. Verdict # "success"
        <5>1. rpc \in RegStates \cup {"target", "dir"}
          <6>1. dst' # dst
            BY <3>3 DEF Arrived, ToCopy
          <6> QED
            BY <1>2, <6>1, DstSteps
        <5>2. rpc \notin {"ext", "exit"}
          BY <5>1 DEF RegStates
        <5> QED
          BY <1>2, <2>0, <5>2 DEF AgreementInv, SuccessIsVerdict, VerdictGiven
      <4> QED
        BY <2>1, <4>1, <4>2, <4>3 DEF Service!Next, Service!Arrive
    <3> QED
      BY <3>2, <3>3
  <2>2. CASE Verdict' # Verdict
    <3>1. Verdict = "none" /\ UNCHANGED dst
      BY <1>2, <2>2, VerdictOnce DEF CompleteInv
    <3>2. UNCHANGED Arrived
      BY <3>1 DEF Arrived, ToCopy
    <3>3. Verdict' \in {"failure", "cut", "success"}
      BY <2>2, <3>1 DEF Verdict
    <3>4. CASE Verdict' = "success"
      <4>1. \A p \in ToCopy : dst'[p] = SrcTree[p]
        BY <1>2, <2>0, <3>4 DEF SuccessIsComplete, ToCopy
      <4>2. Arrived = ToCopy
        BY <3>1, <4>1 DEF Arrived
      <4> QED
        BY <3>1, <3>2, <3>4, <4>2 DEF Service!Next, Service!Succeed
    <3>5. CASE Verdict' \in {"failure", "cut"}
      BY <3>1, <3>2, <3>5 DEF Service!Next, Service!Fail
    <3> QED
      BY <3>3, <3>4, <3>5
  <2> QED
    BY <2>1, <2>2
<1>3. UnpackOK => TypeOK
  BY DEF UnpackOK, PackOK
<1> QED
  BY <1>1, <1>2, <1>3, CompleteInvariant, Complete_Safe, PTL
     DEF Spec, ImplementsService, Service!Spec

(***************************************************************************)
(* The reason for a failure                                                *)
(***************************************************************************)

(* A result that set_ignore_quota_error() lets the packer pass over. *)
Ignored == IgnoreQuotaError /\ sRes.code = EDQUOT

Differ == \E i \in 1..Len(crcS) : i > Len(crcR) \/ crcR[i] # crcS[i]

(* Only the end of the walk sends the marker, so a result of 0 with the    *)
(* right checksum is read only there; a status that was sent is in the     *)
(* pipe until it is read.                                                  *)
ExplainInv ==
    /\ spc # "exit" => report = "none"
    /\ (\E i \in 1..Len(crcS) : crcS[i] = EndMarker) \/ (marker /\ Clean) => cont = "exit0"
    /\ cont = "exit1" => sBlock
    /\ replied /\ spc \notin {"ext", "exit"} => rev # <<>> \/ Ignored
    /\ report = "eof" => rpc = "exit" /\ (~replied \/ Ignored)
    /\ report = "refused" => Ignored
    /\ report = "checksum" => rpc \in {"ext", "exit"} /\ Differ

(* The texts of wait_for_result() for a code are none of its other ends.   *)
LEMMA ErrorTexts ==
    ASSUME NEW code
    PROVE  ErrorText(code) \in {"exists", "corrupted", "forbidden", "badlink", "other"}
  BY Zenon DEF ErrorText

(* The packer walks and sends, and does not read the reply pipe.           *)
LEMMA SendKeepsExplained ==
    ASSUME UnpackOK, ExplainInv, UNCHANGED unpackVars, Clean' => Clean,
           \/ \E n \in Names : WalkEnter(n)
           \/ WalkLeave \/ WalkEnd
           \/ SendHeader \/ SendName \/ SendChunk \/ SendTarget \/ NotifyEnd
    PROVE  ExplainInv'
<1> USE DEF UnpackOK, PackOK
<1>t. crcS \in Seq(Items) /\ Len(crcS) \in Nat
  BY DEF TypeOK, PackTypeOK, Checksum
<1>0. /\ spc \in {"walk", "hdr", "name", "data", "end"} /\ spc' \notin {"ext", "exit"}
      /\ UNCHANGED <<rev, sRes, report>>
  BY DEF WalkEnter, WalkLeave, WalkEnd, SendHeader, SendName, SendChunk, SendTarget, NotifyEnd,
         write_all_with_crc, Goto, AfterName, packVars
<1>1. report = "none" /\ cont = "walk" /\ UNCHANGED <<marker, replied, crcR>>
  BY <1>0 DEF ExplainInv, PackInv, unpackVars, replyVars
<1>2. ~(marker' /\ Clean') /\ \A i \in 1..Len(crcS) : crcS[i] # EndMarker
  BY <1>1 DEF ExplainInv
<1>3. (\E i \in 1..Len(crcS') : crcS'[i] = EndMarker) => cont' = "exit0"
  <2>1. CASE UNCHANGED crcS
    BY <1>2, <2>1
  <2>2. ASSUME NEW item, crcS' = Append(crcS, item), item # EndMarker
        PROVE  \A i \in 1..Len(crcS') : crcS'[i] # EndMarker
    BY <1>t, <1>2, <2>2
  <2>3. CASE NotifyEnd
    BY <2>3 DEF NotifyEnd
  <2>4. CASE SendHeader \/ SendName \/ SendChunk \/ SendTarget
    <3>1. PICK item : crcS' = Append(crcS, item) /\
             (item = HeaderOf(cur) \/ item = NameItem(cur) \/ (\E v : item = DataItem(v) \/ item = LinkItem(v)))
      BY <2>4 DEF SendHeader, SendName, SendChunk, SendTarget, write_all_with_crc
    <3>2. cur \in DOMAIN SrcTree
      BY <2>4 DEF SendHeader, SendName, SendChunk, SendTarget, PackInv
    <3>3. item # EndMarker
      <4>1. CASE item = HeaderOf(cur)
        BY <3>2, <4>1, ItemTypes, MarkerType
      <4>2. CASE item = NameItem(cur)
        BY <4>2, MarkerType DEF NameItem
      <4>3. ASSUME NEW v, item = DataItem(v) PROVE item # EndMarker
        BY <4>3, MarkerType DEF DataItem
      <4>4. ASSUME NEW v, item = LinkItem(v) PROVE item # EndMarker
        BY <4>4, MarkerType DEF LinkItem
      <4> QED
        BY <3>1, <4>1, <4>2, <4>3, <4>4
    <3> QED
      BY <2>2, <3>1, <3>3
  <2>5. CASE WalkLeave \/ WalkEnd \/ \E n \in Names : WalkEnter(n)
    <3>1. UNCHANGED crcS
      BY <2>5 DEF WalkLeave, WalkEnd, WalkEnter, packVars
    <3> QED
      BY <2>1, <3>1
  <2> QED
    BY <2>3, <2>4, <2>5
<1>4. cont' = "exit1" => sBlock'
  <2>1. CASE SendHeader \/ SendName \/ SendChunk \/ SendTarget
    <3>1. PICK item, next : write_all_with_crc(item, next)
      BY <2>1 DEF SendHeader, SendName, SendChunk, SendTarget
    <3> QED
      BY <1>1, <3>1 DEF write_all_with_crc
  <2>2. CASE NotifyEnd
    BY <2>2 DEF NotifyEnd
  <2>3. CASE WalkLeave \/ WalkEnd \/ \E n \in Names : WalkEnter(n)
    BY <1>1, <2>3 DEF WalkLeave, WalkEnd, WalkEnter, packVars
  <2> QED
    BY <2>1, <2>2, <2>3
<1>5. replied' => rev' # <<>> \/ Ignored'
  BY <1>0, <1>1 DEF ExplainInv, Ignored
<1> QED
  BY <1>0, <1>1, <1>2, <1>3, <1>4, <1>5 DEF ExplainInv

(* wait_for_result(), and an end that no result explains.                  *)
LEMMA WaitKeepsExplained ==
    ASSUME PackOK, AgreementInv, ExplainInv, UNCHANGED unpackVars,
           \/ NoResultYet \/ ResultEof \/ ReadResult \/ ReadExt
           \/ LocalError \/ KillPacker
    PROVE  ExplainInv'
<1> USE DEF PackOK
<1>0. /\ UNCHANGED <<crcS, cont, rpc, marker, replied, crcR>>
      /\ sBlock => sBlock'
  BY DEF NoResultYet, ResultEof, ReadResult, ReadExt, LocalError, KillPacker,
         unpackVars, replyVars
<1>1. spc # "exit" /\ report = "none"
  BY DEF NoResultYet, ResultEof, ReadResult, ReadExt, LocalError, KillPacker, ExplainInv
<1>2. /\ ((\E i \in 1..Len(crcS) : crcS[i] = EndMarker) \/ (marker /\ Clean) => cont = "exit0")'
      /\ (cont = "exit1" => sBlock)'
  BY <1>0 DEF ExplainInv, Clean
<1>3. CASE NoResultYet
  <2>1. cont = "walk" /\ Goto("walk") /\ UNCHANGED <<rev, sRes>>
    BY <1>3 DEF NoResultYet, Return, ExplainInv, AgreementInv, LastWaitBlocks
  <2> QED
    BY <1>0, <1>1, <1>2, <1>3, <2>1 DEF NoResultYet, Goto, ExplainInv, Ignored
<1>4. CASE ResultEof
  <2>1. ~replied \/ Ignored
    BY <1>4 DEF ResultEof, RevEof, ExplainInv
  <2> QED
    BY <1>0, <1>2, <1>4, <2>1 DEF ResultEof, RevEof, UnpackerGone, Exit, ExplainInv, Ignored
<1>5. CASE ReadResult
  BY <1>0, <1>1, <1>2, <1>5 DEF ReadResult, ExplainInv
<1>6. CASE LocalError \/ KillPacker
  BY <1>0, <1>2, <1>6 DEF LocalError, KillPacker, call_error_handler, Exit, ExplainInv
<1>7. CASE ReadExt
  <2>1. UNCHANGED sRes /\ spc = "ext" /\ Judge
    BY <1>7 DEF ReadExt
  <2>2. sRes = TheResult /\ VerdictGiven
    BY <2>1 DEF AgreementInv, ReplyIsVerdict
  <2>3. sRes.code = 0 /\ sRes.crc = crcS => cont = "exit0"
    BY <2>2 DEF VerdictGiven, TheResult, Result, ExplainInv, Clean
  <2>4. CASE Ignored /\ Return
    <3>1. Ignored'
      BY <2>1, <2>4 DEF Ignored
    <3>2. \/ spc' = "walk" /\ report' = report
          \/ spc' = "exit" /\ report' \in {"refused", "success"}
      BY <2>4 DEF Return, Goto, Exit
    <3> QED
      BY <1>1, <1>2, <3>1, <3>2 DEF ExplainInv
  <2>5. CASE Exit(1, ErrorText(sRes.code))
    <3>1. report' \in {"exists", "corrupted", "forbidden", "badlink", "other"} /\ spc' = "exit"
      BY <2>5, ErrorTexts DEF Exit
    <3> QED
      BY <1>2, <3>1 DEF ExplainInv
  <2>6. CASE sRes.crc # crcS /\ Exit(1, "checksum")
    <3>1. crcR # crcS
      BY <2>2, <2>6 DEF TheResult, Result
    <3>2. Differ
      <4>1. crcR \in Seq(Items) /\ crcS \in Seq(Items) /\ Len(crcR) <= Len(crcS)
        BY DEF TypeOK, PackTypeOK, UnpackTypeOK, Checksum, PipeInv
      <4>2. SUFFICES ASSUME \A i \in 1..Len(crcS) : i <= Len(crcR) /\ crcR[i] = crcS[i]
                     PROVE  FALSE
        BY <4>1 DEF Differ
      <4>3. Len(crcR) = Len(crcS)
        BY <4>1, <4>2
      <4>4. crcR = crcS
        BY <4>1, <4>2, <4>3, SeqEqual
      <4> QED
        BY <3>1, <4>4
    <3>3. Differ'
      BY <1>0, <3>2 DEF Differ
    <3> QED
      BY <1>0, <1>2, <2>2, <2>6, <3>3 DEF Exit, ExplainInv, VerdictGiven
  <2>7. CASE cont = "exit0" /\ Return
    <3>1. spc' = "exit" /\ report' = "success"
      BY <2>7 DEF Return, Exit
    <3> QED
      BY <1>2, <3>1 DEF ExplainInv
  <2> QED
    BY <2>1, <2>3, <2>4, <2>5, <2>6, <2>7 DEF Judge, call_error_handler, Ignored
<1> QED
  BY <1>3, <1>4, <1>5, <1>6, <1>7

(* A step of the unpacker does not undo what was garbled.                  *)
LEMMA UnpackCleanBefore ==
    ASSUME UnpackOK, Unpack \/ UnpackFault
    PROVE  Clean' => Clean
<1>1. UNCHANGED crcS
  BY DEF Unpack, UnpackFault, packVars
<1>2. Receive \/ UNCHANGED crcR
  BY DEF Unpack, UnpackFault, UnpackStep, ReadPart, ReadHeader, ReadHeaderEof, ReadHeaderError,
         ReadName, ReadEof, ReadError, OpenReg, CheckQuota, WaitSpace, SpaceUnknown,
         LeaveSpaceCheck, CopyChunk, CopyNoSpace, LinkTmpfile, FixReg, MakeDir, LinkQuota,
         MakeLink, LinkFails, FileSystemError, Sync, SendResult, SendExt, KillUnpacker,
         DiskFills, DiskFrees, Quiet
<1> QED
  BY <1>1, <1>2, CleanBefore

(* The unpacker takes something else for the end of the copy only once a   *)
(* header was garbled.                                                     *)
LEMMA MarkerWasSent ==
    ASSUME UnpackOK, UNCHANGED packVars, ReadHeader, hdr'.namelen = 0, Clean'
    PROVE  \E i \in 1..Len(crcS) : crcS[i] = EndMarker
<1> USE DEF UnpackOK, PackOK
<1> DEFINE k == Len(crcR)
<1>1. Receive /\ rpc = "hdr" /\ hdr' \in Incoming /\ UNCHANGED crcS
  BY DEF ReadHeader, packVars
<1>2. Due /\ hdr' = crcS[k + 1] /\ k \in Nat /\ Placed
  <2>1. Due /\ Incoming = {crcS[k + 1]} /\ k \in Nat
    BY <1>1, CleanRead
  <2> QED
    BY <1>1, <2>1, DueIsPlaced
<1>3. k + 1 \in 1..Len(crcS)
  <2>1. k \in 0..(Len(crcS) - 1)
    BY <1>1, <1>2, ReceiveFacts
  <2>2. Len(crcS) \in Nat
    BY DEF TypeOK, PackTypeOK, Checksum
  <2> QED
    BY <2>1, <2>2
<1>4. PICK tag : Tagged(tag) /\ ReaderAt(tag)
  BY DEF StreamInv
<1>5. tag[k + 1].e = <<>> /\ crcS[k + 1] = ItemOf(tag[k + 1].e, 1)
  BY <1>1, <1>2, <1>4, HeaderIsDue
<1>6. crcS[k + 1] = EndMarker
  BY <1>5 DEF ItemOf
<1> QED
  BY <1>3, <1>6

(* A step before the verdict changes neither what was sent nor what was    *)
(* replied.                                                                *)
LEMMA UnpackingKeepsExplained ==
    ASSUME ExplainInv, Unpacking, UNCHANGED replied,
           Clean' => Clean,
           marker' = marker \/ ~Clean' \/ \E i \in 1..Len(crcS) : crcS[i] = EndMarker
    PROVE  ExplainInv'
<1>1. /\ rpc \notin {"ext", "exit"}
      /\ UNCHANGED <<spc, rev, report, cont, sBlock, sRes, crcS, replied>>
  BY DEF Unpacking, packVars
<1>2. report # "eof" /\ report # "checksum"
  BY <1>1 DEF ExplainInv
<1>3. (\E i \in 1..Len(crcS) : crcS[i] = EndMarker) \/ (marker' /\ Clean') => cont = "exit0"
  BY DEF ExplainInv
<1> QED
  BY <1>1, <1>2, <1>3 DEF ExplainInv, Ignored

(* Sync and the reply (unpack.c send_status_and_crc): a status that was    *)
(* sent is in the pipe.                                                    *)
LEMMA ReplyKeepsExplained ==
    ASSUME UnpackOK, ExplainInv, UNCHANGED packVars,
           Sync \/ SendResult \/ SendExt \/ KillUnpacker
    PROVE  ExplainInv'
<1> USE DEF UnpackOK, PackOK
<1>1. /\ rpc # "exit"
      /\ UNCHANGED <<spc, report, cont, sBlock, sRes, crcS, crcR, marker>>
      /\ rpc \in {"ext", "exit"} => rpc' \in {"ext", "exit"}
  BY DEF Sync, SendResult, SendExt, KillUnpacker, Reply, Quiet, replyVars, packVars
<1>2. report # "eof"
  BY <1>1 DEF ExplainInv
<1>3. replied' /\ spc \notin {"ext", "exit"} => rev' # <<>> \/ Ignored
  <2>1. rev \in Seq(Replies)
    BY DEF TypeOK
  <2>2. CASE Sync \/ KillUnpacker
    BY <2>2 DEF Sync, KillUnpacker, replyVars, ExplainInv
  <2>3. CASE SendResult
    <3>1. CASE PackerGone
      BY <2>3, <3>1 DEF SendResult
    <3>2. CASE rev' = Append(rev, Result(rCode, crcR))
      BY <2>1, <3>2
    <3> QED
      BY <2>3, <3>1, <3>2 DEF SendResult, Reply
  <2>4. CASE SendExt
    <3>1. UNCHANGED replied /\ (UNCHANGED rev \/ rev' = Append(rev, Ext))
      BY <2>4 DEF SendExt, Reply, replyVars
    <3>2. CASE rev' = Append(rev, Ext)
      BY <2>1, <3>2
    <3>3. CASE UNCHANGED rev
      BY <3>1, <3>3 DEF ExplainInv
    <3> QED
      BY <3>1, <3>2, <3>3
  <2> QED
    BY <2>2, <2>3, <2>4
<1>4. Ignored' = Ignored /\ (Differ => Differ') /\ (Clean' => Clean)
  BY <1>1 DEF Ignored, Differ, Clean
<1> QED
  BY <1>1, <1>2, <1>3, <1>4 DEF ExplainInv

(* Every step.                                                             *)
LEMMA NextKeepsExplained ==
    ASSUME UnpackOK, AgreementInv, ExplainInv, [Next]_vars
    PROVE  ExplainInv'
<1> USE DEF UnpackOK, PackOK
<1>1. CASE Pack \/ PackFault
  <2>1. UNCHANGED unpackVars /\ (Clean' => Clean)
    BY <1>1, PackFrames, CleanBefore DEF unpackVars
  <2> QED
    BY <1>1, <2>1, SendKeepsExplained, WaitKeepsExplained DEF Pack, PackFault, PackStep
<1>2. CASE Unpack \/ UnpackFault
  <2>1. UNCHANGED packVars /\ (Clean' => Clean)
    BY <1>2, UnpackCleanBefore DEF Unpack, UnpackFault
  <2>2. CASE ReadHeader
    <3>1. Unpacking
      BY <2>1, <2>2, HeaderStepsAreUnpacking
    <3>2. /\ UNCHANGED replied
          /\ marker' = marker \/ hdr'.namelen = 0
      BY <2>2 DEF ReadHeader, do_exit, GoOn, replyVars
    <3>3. marker' = marker \/ ~Clean' \/ \E i \in 1..Len(crcS) : crcS[i] = EndMarker
      BY <2>1, <2>2, <3>2, MarkerWasSent
    <3> QED
      BY <2>1, <3>1, <3>2, <3>3, UnpackingKeepsExplained
  <2>3. CASE ReadPart \/ ReadHeaderEof \/ ReadHeaderError \/ ReadName \/ ReadEof \/ ReadError
    <3>1. Unpacking
      BY <2>1, <2>3, HeaderStepsAreUnpacking
    <3>2. UNCHANGED <<marker, replied>>
      BY <2>3 DEF ReadPart, ReadHeaderEof, ReadHeaderError, ReadName, ReadEof, ReadError,
                  Dispatch, do_exit, GoOn, replyVars
    <3> QED
      BY <2>1, <3>1, <3>2, UnpackingKeepsExplained
  <2>4. CASE \/ OpenReg \/ CheckQuota \/ WaitSpace \/ SpaceUnknown \/ CopyChunk
             \/ CopyNoSpace \/ LinkTmpfile \/ FixReg
    <3>1. Unpacking
      BY <2>1, <2>4, RegStepsAreUnpacking
    <3>2. UNCHANGED <<marker, replied>>
      <4>1. CASE OpenReg
        BY <4>1, Zenon DEF OpenReg, CreateTmpfile, CreateExclusive, do_exit, GoOn, replyVars
      <4>2. CASE CheckQuota \/ WaitSpace \/ SpaceUnknown
        BY <4>2 DEF CheckQuota, WaitSpace, SpaceUnknown, LeaveSpaceCheck, do_exit, GoOn, replyVars
      <4>3. CASE CopyChunk \/ CopyNoSpace
        BY <4>3 DEF CopyChunk, CopyNoSpace, do_exit, GoOn, replyVars
      <4>4. CASE LinkTmpfile \/ FixReg
        BY <4>4, Zenon DEF LinkTmpfile, FixReg, fix_times_and_perms, errx, do_exit, GoOn, replyVars
      <4> QED
        BY <2>4, <4>1, <4>2, <4>3, <4>4
    <3> QED
      BY <2>1, <3>1, <3>2, UnpackingKeepsExplained
  <2>5. CASE MakeDir \/ LinkQuota \/ MakeLink \/ LinkFails \/ FileSystemError
    <3>1. Unpacking
      BY <2>1, <2>5, DirAndLinkStepsAreUnpacking
    <3>2. UNCHANGED <<marker, replied>>
      <4>1. CASE MakeDir
        BY <4>1, Zenon DEF MakeDir, fix_times_and_perms, errx, do_exit, GoOn, replyVars
      <4>2. CASE LinkQuota \/ LinkFails \/ FileSystemError
        BY <4>2 DEF LinkQuota, LinkFails, FileSystemError, do_exit, GoOn, replyVars
      <4>3. CASE MakeLink
        BY <4>3, Zenon DEF MakeLink, StoreLink, do_exit, GoOn, replyVars
      <4> QED
        BY <2>5, <4>1, <4>2, <4>3
    <3> QED
      BY <2>1, <3>1, <3>2, UnpackingKeepsExplained
  <2>6. CASE Sync \/ SendResult \/ SendExt \/ KillUnpacker
    BY <2>1, <2>6, ReplyKeepsExplained
  <2>7. CASE DiskFills \/ DiskFrees
    <3>1. UNCHANGED <<rev, spc, rpc, packVars, replyVars, crcR>>
      BY <2>1, <2>7 DEF DiskFills, DiskFrees, Quiet
    <3> QED
      BY <2>1, <3>1 DEF packVars, replyVars, ExplainInv, Ignored, Differ
  <2> QED
    BY <1>2, <2>2, <2>3, <2>4, <2>5, <2>6, <2>7 DEF Unpack, UnpackFault, UnpackStep
<1>3. CASE WireFault \/ Done \/ UNCHANGED vars
  <2>1. UNCHANGED <<rev, spc, rpc, packVars, replyVars, crcR>>
    BY <1>3 DEF WireFault, Garble, Done, vars, wireVars, unpackVars
  <2> QED
    BY <2>1 DEF packVars, replyVars, ExplainInv, Ignored, Differ, Clean
<1> QED
  BY <1>1, <1>2, <1>3 DEF Next

(* The reason for a failure reaches the packer: it ends on EOF or without  *)
(* a message only if the unpacker died without a status, or if the packer  *)
(* went on after an ignored quota error, and it blames the checksum only   *)
(* when the streams differ (pack.c wait_for_result, unpack.c do_exit).     *)
THEOREM Explained_Safe == Spec => []FailureIsExplained
<1>1. Init => ExplainInv
  BY DEF Init, PackInit, UnpackInit, ExplainInv
<1>2. UnpackOK /\ AgreementInv /\ ExplainInv /\ [Next]_vars => ExplainInv'
  BY NextKeepsExplained
<1>3. ExplainInv => FailureIsExplained
  BY DEF ExplainInv, FailureIsExplained, Ignored, Differ
<1> QED
  BY <1>1, <1>2, <1>3, StreamInvariant, PTL DEF Spec

(***************************************************************************)
(* Sums over finite sets: what SumFunctionOnSet() gives, from its          *)
(* definition as a recursive function on subsets                           *)
(***************************************************************************)

(* A set of numbers has a smallest one.                                    *)
LEMMA LeastNat ==
    ASSUME NEW S \in SUBSET Nat, S # {}
    PROVE  \E x \in S : \A y \in S : x <= y
<1> DEFINE R == {ss \in Nat \X Nat : ss[1] < ss[2]}
<1>1. IsWellFoundedOn(R, Nat)
  BY NatLessThanWellFounded DEF OpToRel
<1>2. \A y, x \in Nat : <<y, x>> \in R <=> y < x
  OBVIOUS
<1> HIDE DEF R
<1>3. PICK x \in S : \A y \in S : ~(<<y, x>> \in R)
  BY <1>1, WFMin
<1>4. ASSUME NEW y \in S PROVE x <= y
  <2>1. x \in Nat /\ y \in Nat /\ ~(<<y, x>> \in R)
    BY <1>3, <1>4
  <2>2. ~(y < x)
    BY <1>2, <2>1, Zenon
  <2> QED
    BY <2>1, <2>2
<1> QED
  BY <1>4

(* A finite set of finite sets that is not empty has a smallest one. *)
LEMMA SmallestSet ==
    ASSUME NEW F, F # {}, \A s \in F : IsFiniteSet(s)
    PROVE  \E s \in F : \A t \in F : Cardinality(s) <= Cardinality(t)
<1> DEFINE C == {Cardinality(s) : s \in F}
<1>1. \A s \in F : Cardinality(s) \in Nat
  BY FS_CardinalityType
<1>2. C \in SUBSET Nat /\ C # {}
  BY <1>1
<1>3. PICK x \in C : \A y \in C : x <= y
  BY <1>2, LeastNat
<1> QED
  BY <1>3

(* The element that SumFunctionOnSet() takes first. *)
AnyOf(s) == CHOOSE x \in s : TRUE

(* iter sums f over the subsets of S, as SumFunctionOnSet() does. *)
IsSum(iter, f, S) ==
    iter = [s \in SUBSET S |-> IF s = {} THEN 0 ELSE f[AnyOf(s)] + iter[s \ {AnyOf(s)}]]

(* It is one of them. *)
LEMMA AnyOfIn ==
    ASSUME NEW s, s # {}
    PROVE  AnyOf(s) \in s
  BY DEF AnyOf

(* The community module's fold, spelled out                               *)
LEMMA SumUnfold ==
    ASSUME NEW f, NEW S
    PROVE  SumFunctionOnSet(f, S) = (CHOOSE iter : IsSum(iter, f, S))[S]
  BY Zenon DEF SumFunctionOnSet, FoldFunctionOnSet, MapThenFoldSet, IsSum, AnyOf

(* The subsets of at most n elements: a sum over them exists for each n.   *)
UpTo(S, n) == {s \in SUBSET S : Cardinality(s) <= n}

(* g sums f over them. *)
SumUpTo(g, f, S, n) ==
    /\ g \in [UpTo(S, n) -> Nat]
    /\ \A s \in UpTo(S, n) :
          g[s] = IF s = {} THEN 0 ELSE f[AnyOf(s)] + g[s \ {AnyOf(s)}]

(* A set without one of its elements is smaller.                           *)
LEMMA OneLess ==
    ASSUME NEW S, IsFiniteSet(S), NEW s \in SUBSET S, NEW x \in s
    PROVE  /\ s \ {x} \in SUBSET S
           /\ IsFiniteSet(s) /\ IsFiniteSet(s \ {x})
           /\ Cardinality(s) \in Nat /\ Cardinality(s \ {x}) \in Nat
           /\ Cardinality(s \ {x}) = Cardinality(s) - 1
<1>1. IsFiniteSet(s)
  BY FS_Subset
<1>2. IsFiniteSet(s \ {x}) /\ Cardinality(s \ {x}) = Cardinality(s) - 1
  BY <1>1, FS_RemoveElement
<1> QED
  BY <1>1, <1>2, FS_CardinalityType

(* From the sums over n elements to those over one more                    *)
LEMMA NextSum ==
    ASSUME NEW S, IsFiniteSet(S), NEW f, \A x \in S : f[x] \in Nat,
           NEW n \in Nat, NEW g, SumUpTo(g, f, S, n)
    PROVE  \E h : SumUpTo(h, f, S, n + 1)
<1> DEFINE h == [s \in UpTo(S, n + 1) |->
                    IF s = {} THEN 0 ELSE f[AnyOf(s)] + g[s \ {AnyOf(s)}]]
<1>1. ASSUME NEW s \in UpTo(S, n + 1), s # {}
      PROVE  s \ {AnyOf(s)} \in UpTo(S, n) /\ AnyOf(s) \in S
  <2>1. s \in SUBSET S /\ Cardinality(s) <= n + 1 /\ AnyOf(s) \in s
    BY <1>1, AnyOfIn DEF UpTo
  <2>2. /\ s \ {AnyOf(s)} \in SUBSET S
        /\ Cardinality(s) \in Nat /\ Cardinality(s \ {AnyOf(s)}) \in Nat
        /\ Cardinality(s \ {AnyOf(s)}) = Cardinality(s) - 1
    BY <2>1, OneLess
  <2> QED
    BY <2>1, <2>2 DEF UpTo
<1>2. \A s \in UpTo(S, n) : s \in UpTo(S, n + 1)
  <2>1. ASSUME NEW s \in UpTo(S, n) PROVE s \in UpTo(S, n + 1)
    <3>1. s \in SUBSET S /\ Cardinality(s) <= n
      BY DEF UpTo
    <3>2. Cardinality(s) \in Nat
      BY <3>1, FS_Subset, FS_CardinalityType
    <3> QED
      BY <3>1, <3>2 DEF UpTo
  <2> QED
    BY <2>1
<1>3. \A s \in UpTo(S, n) : h[s] = g[s]
  BY <1>2 DEF SumUpTo
<1>4. \A s \in UpTo(S, n + 1) : h[s] = IF s = {} THEN 0 ELSE f[AnyOf(s)] + g[s \ {AnyOf(s)}]
  OBVIOUS
<1>5. \A s \in UpTo(S, n) : g[s] \in Nat
  BY DEF SumUpTo
<1>6. h \in [UpTo(S, n + 1) -> Nat]
  <2>1. ASSUME NEW s \in UpTo(S, n + 1)
        PROVE  (IF s = {} THEN 0 ELSE f[AnyOf(s)] + g[s \ {AnyOf(s)}]) \in Nat
    BY <1>1, <1>5
  <2> QED
    BY <2>1
<1> HIDE DEF h
<1>7. \A s \in UpTo(S, n + 1) : h[s] = IF s = {} THEN 0 ELSE f[AnyOf(s)] + h[s \ {AnyOf(s)}]
  BY <1>1, <1>3, <1>4
<1>8. SumUpTo(h, f, S, n + 1)
  BY <1>6, <1>7 DEF SumUpTo
<1> QED
  BY <1>8

(* There are sums over any number of elements.                             *)
LEMMA SumsExist ==
    ASSUME NEW S, IsFiniteSet(S), NEW f, \A x \in S : f[x] \in Nat
    PROVE  \A n \in Nat : \E g : SumUpTo(g, f, S, n)
<1> DEFINE Bad == {n \in Nat : ~ \E g : SumUpTo(g, f, S, n)}
<1>1. 0 \notin Bad
  <2>1. UpTo(S, 0) = {{}}
    <3>1. ASSUME NEW s \in UpTo(S, 0) PROVE s = {}
      <4>1. s \in SUBSET S /\ Cardinality(s) <= 0
        BY DEF UpTo
      <4>2. IsFiniteSet(s) /\ Cardinality(s) \in Nat
        BY <4>1, FS_Subset, FS_CardinalityType
      <4> QED
        BY <4>1, <4>2, FS_EmptySet
    <3>2. {} \in UpTo(S, 0)
      BY FS_EmptySet DEF UpTo
    <3> QED
      BY <3>1, <3>2
  <2>2. SumUpTo([s \in UpTo(S, 0) |-> 0], f, S, 0)
    BY <2>1 DEF SumUpTo
  <2> QED
    BY <2>2
<1>2. \A n \in Nat : n + 1 \in Bad => n \in Bad
  BY NextSum
<1>3. Bad \in SUBSET Nat
  OBVIOUS
<1> HIDE DEF Bad
<1>4. CASE Bad # {}
  <2>1. PICK m \in Bad : \A n \in Bad : m <= n
    BY <1>3, <1>4, LeastNat
  <2>2. m \in Nat /\ m # 0
    BY <1>1, <1>3, <2>1
  <2>3. m - 1 \in Nat /\ (m - 1) + 1 = m
    BY <2>2
  <2>4. m - 1 \in Bad
    BY <1>2, <2>1, <2>3
  <2> QED
    BY <2>1, <2>2, <2>4
<1>5. CASE Bad = {}
  BY <1>5 DEF Bad
<1> QED
  BY <1>4, <1>5

(* The recursive function of SumFunctionOnSet() exists. *)
LEMMA SumExists ==
    ASSUME NEW S, IsFiniteSet(S), NEW f, \A x \in S : f[x] \in Nat
    PROVE  \E iter : IsSum(iter, f, S) /\ \A s \in SUBSET S : iter[s] \in Nat
<1>1. Cardinality(S) \in Nat
  BY FS_CardinalityType
<1>2. PICK g : SumUpTo(g, f, S, Cardinality(S))
  BY <1>1, SumsExist
<1>3. UpTo(S, Cardinality(S)) = SUBSET S
  BY FS_Subset DEF UpTo
<1>4. g \in [SUBSET S -> Nat]
  BY <1>2, <1>3 DEF SumUpTo
<1>5. \A s \in SUBSET S : g[s] = IF s = {} THEN 0 ELSE f[AnyOf(s)] + g[s \ {AnyOf(s)}]
  BY <1>2, <1>3 DEF SumUpTo
<1>6. IsSum(g, f, S)
  BY <1>4, <1>5 DEF IsSum
<1> QED
  BY <1>4, <1>6

(* i sums f over every subset of S.                                        *)
Sums(i, f, S) ==
    \A s \in SUBSET S :
       /\ i[s] \in Nat
       /\ i[s] = IF s = {} THEN 0 ELSE f[AnyOf(s)] + i[s \ {AnyOf(s)}]

(* ... and it is the one that SumFunctionOnSet() uses.                     *)
LEMMA SumChosen ==
    ASSUME NEW S, IsFiniteSet(S), NEW f, \A x \in S : f[x] \in Nat
    PROVE  \E i : SumFunctionOnSet(f, S) = i[S] /\ Sums(i, f, S)
<1> DEFINE it == CHOOSE iter : IsSum(iter, f, S)
<1>1. \E iter : IsSum(iter, f, S)
  BY SumExists
<1>2. IsSum(it, f, S)
  BY <1>1, Zenon
<1>3. SumFunctionOnSet(f, S) = it[S]
  BY SumUnfold
<1> HIDE DEF it
<1>4. \A s \in SUBSET S : it[s] = IF s = {} THEN 0 ELSE f[AnyOf(s)] + it[s \ {AnyOf(s)}]
  BY <1>2 DEF IsSum
<1>5. \A s \in SUBSET S : it[s] \in Nat
  <2> DEFINE Bad == {s \in SUBSET S : it[s] \notin Nat}
  <2>1. \A s \in Bad : IsFiniteSet(s)
    BY FS_Subset
  <2>2. \A s \in Bad : s \in SUBSET S /\ it[s] \notin Nat
    OBVIOUS
  <2>3. \A s \in SUBSET S : it[s] \notin Nat => s \in Bad
    OBVIOUS
  <2> HIDE DEF Bad
  <2>4. SUFFICES ASSUME Bad # {} PROVE FALSE
    BY <2>3
  <2>5. PICK s \in Bad : \A t \in Bad : Cardinality(s) <= Cardinality(t)
    BY <2>1, <2>4, SmallestSet
  <2>6. s # {}
    <3>1. it[{}] = 0
      BY <1>4
    <3>2. it[s] # 0
      BY <2>2
    <3> QED
      BY <3>1, <3>2
  <2>7. AnyOf(s) \in s /\ s \in SUBSET S
    BY <2>2, <2>6, AnyOfIn
  <2>8. /\ s \ {AnyOf(s)} \in SUBSET S
        /\ Cardinality(s) \in Nat /\ Cardinality(s \ {AnyOf(s)}) \in Nat
        /\ Cardinality(s \ {AnyOf(s)}) = Cardinality(s) - 1
    BY <2>7, OneLess
  <2>9. it[s \ {AnyOf(s)}] \in Nat
    BY <2>3, <2>5, <2>8
  <2>10. it[s] = f[AnyOf(s)] + it[s \ {AnyOf(s)}]
    BY <1>4, <2>2, <2>6
  <2>11. f[AnyOf(s)] \in Nat
    BY <2>2, <2>7
  <2> QED
    BY <2>2, <2>9, <2>10, <2>11
<1> QED
  BY <1>3, <1>4, <1>5 DEF Sums

(* Two sums over the same set, of functions that agree on it, are equal,   *)
(* whatever sets they are part of.                                         *)
LEMMA SumsAgree ==
    ASSUME NEW S, NEW T, IsFiniteSet(S), IsFiniteSet(T), NEW f, NEW g, NEW i, NEW j,
           Sums(i, f, S), Sums(j, g, T),
           NEW U \in SUBSET S, U \in SUBSET T, \A x \in U : f[x] = g[x]
    PROVE  i[U] = j[U]
<1> DEFINE Bad == {s \in SUBSET U : i[s] # j[s]}
<1>1. \A s \in Bad : IsFiniteSet(s)
  BY FS_Subset
<1>2. \A s \in Bad : s \in SUBSET U /\ i[s] # j[s]
  OBVIOUS
<1>3. \A s \in SUBSET U : i[s] # j[s] => s \in Bad
  OBVIOUS
<1> HIDE DEF Bad
<1>4. SUFFICES ASSUME Bad # {} PROVE FALSE
  BY <1>3
<1>5. PICK s \in Bad : \A t \in Bad : Cardinality(s) <= Cardinality(t)
  BY <1>1, <1>4, SmallestSet
<1>6. s \in SUBSET S /\ s \in SUBSET T /\ s \in SUBSET U
  BY <1>2
<1>7. s # {}
  <2>1. i[{}] = 0 /\ j[{}] = 0
    BY DEF Sums
  <2> QED
    BY <1>2, <2>1
<1>8. AnyOf(s) \in s
  BY <1>7, AnyOfIn
<1>9. /\ s \ {AnyOf(s)} \in SUBSET S
      /\ Cardinality(s) \in Nat /\ Cardinality(s \ {AnyOf(s)}) \in Nat
      /\ Cardinality(s \ {AnyOf(s)}) = Cardinality(s) - 1
  BY <1>6, <1>8, OneLess
<1>10. i[s \ {AnyOf(s)}] = j[s \ {AnyOf(s)}]
  BY <1>3, <1>5, <1>6, <1>9
<1>11. i[s] = f[AnyOf(s)] + i[s \ {AnyOf(s)}] /\ j[s] = g[AnyOf(s)] + j[s \ {AnyOf(s)}]
  BY <1>6, <1>7 DEF Sums
<1>12. f[AnyOf(s)] = g[AnyOf(s)]
  BY <1>6, <1>8
<1> QED
  BY <1>2, <1>10, <1>11, <1>12

(* The order does not matter: any element may be taken out first.          *)
LEMMA SumAnyOrder ==
    ASSUME NEW S, IsFiniteSet(S), NEW f, \A x \in S : f[x] \in Nat, NEW i, Sums(i, f, S)
    PROVE  \A x \in S : i[S] = f[x] + i[S \ {x}]
<1> DEFINE Bad == {s \in SUBSET S : \E x \in s : i[s] # f[x] + i[s \ {x}]}
<1>1. \A s \in Bad : IsFiniteSet(s)
  BY FS_Subset
<1>2. \A s \in Bad : s \in SUBSET S /\ \E x \in s : i[s] # f[x] + i[s \ {x}]
  OBVIOUS
<1>3. \A s \in SUBSET S : s \notin Bad => \A x \in s : i[s] = f[x] + i[s \ {x}]
  OBVIOUS
<1> HIDE DEF Bad
<1>4. SUFFICES ASSUME Bad # {} PROVE FALSE
  <2>1. S \in SUBSET S
    OBVIOUS
  <2> QED
    BY <1>3, <2>1
<1>5. PICK s \in Bad : \A t \in Bad : Cardinality(s) <= Cardinality(t)
  BY <1>1, <1>4, SmallestSet
<1>6. PICK x \in s : i[s] # f[x] + i[s \ {x}]
  BY <1>2
<1>7. s \in SUBSET S /\ s # {}
  BY <1>2
<1>8. PICK c \in s : c = AnyOf(s)
  BY <1>7, AnyOfIn
<1>9. i[s] = f[c] + i[s \ {c}]
  BY <1>7, <1>8 DEF Sums
<1>10. c # x
  BY <1>6, <1>9
<1>11. /\ s \ {c} \in SUBSET S /\ s \ {x} \in SUBSET S
       /\ Cardinality(s) \in Nat /\ Cardinality(s \ {c}) \in Nat
       /\ Cardinality(s \ {x}) \in Nat
       /\ Cardinality(s \ {c}) = Cardinality(s) - 1
       /\ Cardinality(s \ {x}) = Cardinality(s) - 1
  BY <1>7, OneLess
<1>12. s \ {c} \notin Bad /\ s \ {x} \notin Bad
  BY <1>5, <1>11
<1>13. i[s \ {c}] = f[x] + i[(s \ {c}) \ {x}]
  BY <1>3, <1>10, <1>11, <1>12
<1>14. i[s \ {x}] = f[c] + i[(s \ {x}) \ {c}]
  BY <1>3, <1>10, <1>11, <1>12
<1>15. PICK r \in SUBSET S : r = (s \ {c}) \ {x}
  BY <1>7
<1>16. (s \ {c}) \ {x} = r /\ (s \ {x}) \ {c} = r
  BY <1>15
<1>17. i[r] \in Nat /\ f[c] \in Nat /\ f[x] \in Nat
  BY <1>7, <1>15 DEF Sums
<1>18. i[s] = f[c] + (f[x] + i[r]) /\ i[s \ {x}] = f[c] + i[r]
  BY <1>9, <1>13, <1>14, <1>16
<1> QED
  BY <1>6, <1>17, <1>18

(***************************************************************************)
(* What SumFunctionOnSet() gives on a finite set                           *)
(***************************************************************************)

(* The sum over nothing *)
LEMMA SumOfNone ==
    ASSUME NEW f
    PROVE  SumFunctionOnSet(f, {}) = 0
<1>1. IsFiniteSet({})
  BY FS_EmptySet
<1>2. PICK i : SumFunctionOnSet(f, {}) = i[{}] /\ Sums(i, f, {})
  BY <1>1, SumChosen
<1> QED
  BY <1>2 DEF Sums

(* Functions that agree on the set have the same sum.                      *)
LEMMA SumSame ==
    ASSUME NEW S, IsFiniteSet(S), NEW f, NEW g, \A x \in S : f[x] \in Nat,
           \A x \in S : f[x] = g[x]
    PROVE  SumFunctionOnSet(f, S) = SumFunctionOnSet(g, S)
<1>1. PICK i : SumFunctionOnSet(f, S) = i[S] /\ Sums(i, f, S)
  BY SumChosen
<1>2. \A x \in S : g[x] \in Nat
  OBVIOUS
<1>3. PICK j : SumFunctionOnSet(g, S) = j[S] /\ Sums(j, g, S)
  BY <1>2, SumChosen
<1>4. i[S] = j[S]
  <2>1. S \in SUBSET S
    OBVIOUS
  <2> QED
    BY <1>1, <1>3, <2>1, SumsAgree
<1> QED
  BY <1>1, <1>3, <1>4

(* One element is taken out of the sum.                                    *)
LEMMA SumWithout ==
    ASSUME NEW S, IsFiniteSet(S), NEW f, \A x \in S : f[x] \in Nat, NEW x \in S
    PROVE  /\ SumFunctionOnSet(f, S \ {x}) \in Nat
           /\ SumFunctionOnSet(f, S) = f[x] + SumFunctionOnSet(f, S \ {x})
<1>1. PICK R \in SUBSET S : R = S \ {x}
  OBVIOUS
<1>2. IsFiniteSet(R) /\ \A y \in R : f[y] \in Nat
  BY FS_Subset
<1>3. PICK i : SumFunctionOnSet(f, S) = i[S] /\ Sums(i, f, S)
  BY SumChosen
<1>4. PICK j : SumFunctionOnSet(f, R) = j[R] /\ Sums(j, f, R)
  BY <1>2, SumChosen
<1>5. i[R] = j[R]
  <2>1. R \in SUBSET R /\ \A y \in R : f[y] = f[y]
    OBVIOUS
  <2> QED
    BY <1>2, <1>3, <1>4, <2>1, SumsAgree
<1>6. i[S] = f[x] + i[S \ {x}]
  <2>1. Sums(i, f, S)
    BY <1>3
  <2>2. \A y \in S : i[S] = f[y] + i[S \ {y}]
    BY <2>1, SumAnyOrder
  <2> QED
    BY <2>2
<1>7. i[R] \in Nat
  BY <1>3 DEF Sums
<1> QED
  BY <1>1, <1>3, <1>4, <1>5, <1>6, <1>7

(* The sum is a number.                                                    *)
LEMMA SumIsNat ==
    ASSUME NEW S, IsFiniteSet(S), NEW f, \A x \in S : f[x] \in Nat
    PROVE  SumFunctionOnSet(f, S) \in Nat
<1>1. PICK i : SumFunctionOnSet(f, S) = i[S] /\ Sums(i, f, S)
  BY SumChosen
<1> QED
  BY <1>1 DEF Sums

(* From A and f to B and g, x may join, leave or change.                   *)
OneChange(A, B, f, g, x) ==
    /\ IsFiniteSet(A)
    /\ A \ {x} = B \ {x}
    /\ \A y \in A : f[y] \in Nat
    /\ \A y \in A \ {x} : g[y] = f[y]
    /\ x \in B => g[x] \in Nat

(* The rest of the sum and of the count stay.                              *)
LEMMA OneChanges ==
    ASSUME NEW A, NEW B, NEW f, NEW g, NEW x, OneChange(A, B, f, g, x)
    PROVE  /\ IsFiniteSet(B)
           /\ SumFunctionOnSet(f, A \ {x}) \in Nat /\ SumFunctionOnSet(f, A) \in Nat
           /\ SumFunctionOnSet(f, A \ {x}) <= SumFunctionOnSet(f, A)
           /\ SumFunctionOnSet(g, B \ {x}) = SumFunctionOnSet(f, A \ {x})
           /\ SumFunctionOnSet(g, B) =
                SumFunctionOnSet(f, A \ {x}) + (IF x \in B THEN g[x] ELSE 0)
           /\ Cardinality(A) \in Nat /\ Cardinality(A \ {x}) \in Nat
           /\ Cardinality(A \ {x}) <= Cardinality(A)
           /\ Cardinality(B) \in Nat
           /\ Cardinality(B) <= Cardinality(A \ {x}) + 1
<1> USE DEF OneChange
<1>1. PICK R : R = A \ {x}
  OBVIOUS
<1>2. /\ IsFiniteSet(R) /\ Cardinality(A) \in Nat /\ Cardinality(R) \in Nat
      /\ Cardinality(R) <= Cardinality(A)
  <2>1. R \in SUBSET A
    BY <1>1
  <2> QED
    BY <2>1, FS_Subset, FS_CardinalityType
<1>3. IsFiniteSet(B) /\ Cardinality(B) \in Nat /\ Cardinality(B) <= Cardinality(R) + 1
  <2>1. CASE x \in B
    <3>1. B = R \cup {x} /\ x \notin R
      BY <1>1, <2>1
    <3> QED
      BY <1>2, <3>1, FS_AddElement
  <2>2. CASE x \notin B
    <3>1. B = R
      BY <1>1, <2>2
    <3> QED
      BY <1>2, <3>1
  <2> QED
    BY <2>1, <2>2
<1>4. \A y \in R : f[y] \in Nat /\ g[y] \in Nat /\ f[y] = g[y]
  BY <1>1
<1>5. SumFunctionOnSet(f, R) \in Nat
  BY <1>2, <1>4, SumIsNat
<1>6. SumFunctionOnSet(g, R) = SumFunctionOnSet(f, R)
  <2>1. \A y \in R : g[y] = f[y]
    BY <1>4
  <2>2. \A y \in R : g[y] \in Nat
    BY <1>4
  <2> QED
    BY <1>2, <2>1, <2>2, SumSame
<1>7. /\ SumFunctionOnSet(f, A) \in Nat
      /\ SumFunctionOnSet(f, R) <= SumFunctionOnSet(f, A)
  <2>1. CASE x \in A
    <3>1. SumFunctionOnSet(f, A) = f[x] + SumFunctionOnSet(f, A \ {x})
      BY <2>1, SumWithout
    <3> QED
      BY <1>1, <1>5, <2>1, <3>1
  <2>2. CASE x \notin A
    BY <1>1, <1>5, <2>2
  <2> QED
    BY <2>1, <2>2
<1>8. SumFunctionOnSet(g, B) = SumFunctionOnSet(f, R) + (IF x \in B THEN g[x] ELSE 0)
  <2>1. CASE x \in B
    <3>1. \A y \in B : g[y] \in Nat
      BY <1>1, <1>4, <2>1
    <3>2. SumFunctionOnSet(g, B) = g[x] + SumFunctionOnSet(g, B \ {x})
      BY <1>3, <2>1, <3>1, SumWithout
    <3>3. SumFunctionOnSet(g, B) = g[x] + SumFunctionOnSet(g, R)
      BY <1>1, <3>2
    <3> QED
      BY <1>5, <1>6, <2>1, <3>3
  <2>2. CASE x \notin B
    <3>1. B = R
      BY <1>1, <2>2
    <3> QED
      BY <1>5, <1>6, <2>2, <3>1
  <2> QED
    BY <2>1, <2>2
<1> QED
  BY <1>1, <1>2, <1>3, <1>5, <1>6, <1>7, <1>8

(***************************************************************************)
(* The limits                                                              *)
(***************************************************************************)

(* What this transfer has stored, without the entry being unpacked.        *)
TotalStored  == SumFunctionOnSet(Stored, New)
OthersStored == SumFunctionOnSet(Stored, New \ {name})

(* Where process_one_file() is between the name and the finished object.   *)
Creating == {"reg", "quota", "space", "data", "linkat", "link", "target", "dir"}

(* total_bytes bounds what is stored: before an entry adds to it, the      *)
(* length its header announced has been added to the counter, and has been *)
(* found to fit.  total_files has counted the entry that is being unpacked.*)
LimitInv ==
    /\ IsFiniteSet(New)
    /\ TotalStored <= total_bytes
    /\ bytes_limit # 0 => TotalStored <= bytes_limit
    /\ rpc \in {"data", "linkat", "target"} => OthersStored + hdr.filelen <= total_bytes
    /\ rpc \in {"space", "data", "linkat", "target"} /\ bytes_limit # 0 =>
         OthersStored + hdr.filelen <= bytes_limit
    /\ rpc = "target" => hdr.filelen <= MAX_PATH_LENGTH - 1
    /\ Cardinality(New) <= total_files
    /\ files_limit # 0 => Cardinality(New) <= files_limit
    /\ rpc = "name" => Cardinality(New) < total_files
    /\ rpc \in Creating => Cardinality(New \ {name}) < total_files
    /\ rpc \in Creating \cup {"name"} /\ files_limit # 0 => total_files <= files_limit

(* What is new takes a number of chunks or components.                     *)
LEMMA StoredType ==
    ASSUME dst \in [Paths -> Node]
    PROVE  /\ New \subseteq Paths
           /\ \A p \in Paths : /\ Stored[p] \in Nat
                               /\ Stored[p] = IF dst[p].kind = "reg" THEN Len(dst[p].content)
                                              ELSE dst[p].size
<1>1. New \subseteq Paths
  BY DEF New
<1>2. ASSUME NEW p \in Paths
      PROVE  /\ Stored[p] = IF dst[p].kind = "reg" THEN Len(dst[p].content) ELSE dst[p].size
             /\ dst[p].size \in Nat /\ Len(dst[p].content) \in Nat
  <2>1. dst[p] \in Node
    OBVIOUS
  <2>2. dst[p].size \in Nat /\ dst[p].content \in Seq(Chunks)
    BY <2>1, NodeFields
  <2> QED
    BY <2>2 DEF Stored
<1> QED
  BY <1>1, <1>2

(* A step that changes at most the entry being unpacked keeps the rest.    *)
LEMMA EntryChanges ==
    ASSUME dst \in [Paths -> Node], dst' \in [Paths -> Node], IsFiniteSet(New), UNCHANGED name,
           \A p \in Paths \ {name} : dst'[p] = dst[p]
    PROVE  /\ IsFiniteSet(New')
           /\ OthersStored \in Nat /\ TotalStored \in Nat /\ OthersStored <= TotalStored
           /\ OthersStored' = OthersStored
           /\ TotalStored' = OthersStored + (IF name \in New' THEN Stored'[name] ELSE 0)
           /\ Cardinality(New) \in Nat /\ Cardinality(New \ {name}) \in Nat
           /\ Cardinality(New \ {name}) <= Cardinality(New)
           /\ Cardinality(New') \in Nat
           /\ Cardinality(New') <= Cardinality(New \ {name}) + 1
           /\ New' \ {name} = New \ {name}
<1>1. New \ {name} = New' \ {name}
  BY DEF New
<1>2. \A p \in Paths \ {name} : Stored'[p] = Stored[p]
  BY DEF Stored
<1>3. New \subseteq Paths /\ \A p \in Paths : Stored[p] \in Nat
  BY StoredType
<1>4. New' \subseteq Paths
  BY DEF New
<1>5. ASSUME NEW p \in Paths PROVE Stored'[p] \in Nat
  <2>1. dst'[p] \in Node
    OBVIOUS
  <2>2. dst'[p].size \in Nat /\ dst'[p].content \in Seq(Chunks)
    BY <2>1, NodeFields
  <2> QED
    BY <2>2 DEF Stored
<1>6. PICK A, B, f, g, x : A = New /\ B = New' /\ f = Stored /\ g = Stored' /\ x = name
  OBVIOUS
<1>7. OneChange(A, B, f, g, x)
  BY <1>1, <1>2, <1>3, <1>4, <1>5, <1>6 DEF OneChange
<1>8. /\ IsFiniteSet(B)
      /\ SumFunctionOnSet(f, A \ {x}) \in Nat /\ SumFunctionOnSet(f, A) \in Nat
      /\ SumFunctionOnSet(f, A \ {x}) <= SumFunctionOnSet(f, A)
      /\ SumFunctionOnSet(g, B \ {x}) = SumFunctionOnSet(f, A \ {x})
      /\ SumFunctionOnSet(g, B) =
           SumFunctionOnSet(f, A \ {x}) + (IF x \in B THEN g[x] ELSE 0)
      /\ Cardinality(A) \in Nat /\ Cardinality(A \ {x}) \in Nat
      /\ Cardinality(A \ {x}) <= Cardinality(A)
      /\ Cardinality(B) \in Nat
      /\ Cardinality(B) <= Cardinality(A \ {x}) + 1
  BY <1>7, OneChanges
<1>9. /\ TotalStored = SumFunctionOnSet(f, A) /\ OthersStored = SumFunctionOnSet(f, A \ {x})
      /\ TotalStored' = SumFunctionOnSet(g, B) /\ OthersStored' = SumFunctionOnSet(g, B \ {x})
  BY <1>6 DEF TotalStored, OthersStored
<1> QED
  BY <1>1, <1>6, <1>8, <1>9

(* The sums and the counts are numbers.                                    *)
LEMMA LimitTypes ==
    ASSUME dst \in [Paths -> Node], IsFiniteSet(New)
    PROVE  /\ OthersStored \in Nat /\ TotalStored \in Nat /\ OthersStored <= TotalStored
           /\ Cardinality(New) \in Nat
           /\ \A x : /\ Cardinality(New \ {x}) \in Nat
                     /\ Cardinality(New \ {x}) <= Cardinality(New)
<1>1. New \subseteq Paths /\ \A p \in Paths : Stored[p] \in Nat
  BY StoredType
<1>2. PICK A, f : A = New /\ f = Stored
  OBVIOUS
<1>3. \A x : OneChange(A, A, f, f, x)
  BY <1>1, <1>2 DEF OneChange
<1>4. ASSUME NEW x
      PROVE  /\ SumFunctionOnSet(f, A \ {x}) \in Nat /\ SumFunctionOnSet(f, A) \in Nat
             /\ SumFunctionOnSet(f, A \ {x}) <= SumFunctionOnSet(f, A)
             /\ Cardinality(A) \in Nat /\ Cardinality(A \ {x}) \in Nat
             /\ Cardinality(A \ {x}) <= Cardinality(A)
  <2>1. OneChange(A, A, f, f, x)
    BY <1>3
  <2> QED
    BY <2>1, OneChanges
<1> QED
  BY <1>2, <1>4 DEF TotalStored, OthersStored

(* The step stores nothing. *)
SameStored == New' = New /\ Stored' = Stored

(* Changing a mode or nothing stores nothing.                              *)
LEMMA ModeStoresNothing ==
    ASSUME dst \in [Paths -> Node],
           \/ UNCHANGED dst
           \/ name \in Paths /\ dst' = [dst EXCEPT ![name].perm = "final"]
    PROVE  SameStored
<1>1. ASSUME NEW p \in Paths
      PROVE  dst'[p].kind = dst[p].kind /\ dst'[p].content = dst[p].content
             /\ dst'[p].size = dst[p].size
  <2>1. CASE UNCHANGED dst
    BY <2>1
  <2>2. CASE name \in Paths /\ dst' = [dst EXCEPT ![name].perm = "final"]
    <3>1. CASE p # name
      BY <2>2, <3>1
    <3>2. CASE p = name
      <4>1. dst'[p] = MkNode(dst[p].kind, "final", dst[p].size, dst[p].content, dst[p].target)
        <5>1. dst' = Put(dst, name, MkNode(dst[name].kind, "final", dst[name].size,
                                           dst[name].content, dst[name].target))
          BY <2>2, ExceptIsPut
        <5> QED
          BY <3>2, <5>1 DEF Put
      <4> QED
        BY <4>1, MkNodeFields
    <3> QED
      BY <3>1, <3>2
  <2> QED
    BY <2>1, <2>2
<1> QED
  BY <1>1 DEF SameStored, New, Stored

(* A step that stores nothing and leaves process_one_file(), or that is    *)
(* none of its steps.                                                      *)
LEMMA LeavingKeepsLimits ==
    ASSUME TypeOK, LimitInv, SameStored, rpc' \notin Creating \cup {"name"},
           total_bytes' \in Nat, total_bytes' >= total_bytes,
           total_files' \in Nat, total_files' >= total_files
    PROVE  LimitInv'
<1>1. /\ OthersStored \in Nat /\ TotalStored \in Nat /\ Cardinality(New) \in Nat
      /\ total_bytes \in Nat /\ total_files \in Nat
  BY LimitTypes DEF LimitInv, TypeOK, UnpackTypeOK
<1>2. New' = New /\ TotalStored' = TotalStored
  BY DEF SameStored, TotalStored
<1> QED
  BY <1>1, <1>2 DEF LimitInv, Creating

(* A step in which the unpacker stays where it is.                         *)
LEMMA StayingKeepsLimits ==
    ASSUME LimitInv, SameStored, UNCHANGED <<rpc, hdr, name, total_bytes, total_files>>
    PROVE  LimitInv'
<1>1. New' = New /\ TotalStored' = TotalStored /\ OthersStored' = OthersStored
  BY DEF SameStored, TotalStored, OthersStored
<1> QED
  BY <1>1 DEF LimitInv

(* A header is counted before its entry is looked at (unpack.c:378).       *)
LEMMA HeaderKeepsLimits ==
    ASSUME TypeOK, LimitInv, ReadHeader
    PROVE  LimitInv'
<1>1. /\ OthersStored \in Nat /\ TotalStored \in Nat /\ Cardinality(New) \in Nat
      /\ total_bytes \in Nat /\ total_files \in Nat /\ dst \in [Paths -> Node]
  BY LimitTypes DEF LimitInv, TypeOK, UnpackTypeOK
<1>2. /\ SameStored /\ UNCHANGED <<name, total_bytes>>
      /\ \/ rpc' \in {"sync", "result"} /\ total_files' \in {total_files, total_files + 1}
         \/ /\ rpc' = "name" /\ total_files' = total_files + 1
            /\ files_limit # 0 => ~(total_files' > files_limit)
  BY <1>1, ModeStoresNothing DEF ReadHeader, treeVars, do_exit, GoOn
<1>3. New' = New /\ TotalStored' = TotalStored
  BY <1>2 DEF SameStored, TotalStored
<1>4. CASE rpc' \in {"sync", "result"}
  BY <1>1, <1>2, <1>4, LeavingKeepsLimits DEF Creating
<1>5. CASE rpc' = "name"
  BY <1>1, <1>2, <1>3, <1>5, QfileUnpackAssumption DEF LimitInv, Creating
<1> QED
  BY <1>2, <1>4, <1>5

(* A name adds nothing (unpack.c:335).                                     *)
LEMMA NameKeepsLimits ==
    ASSUME TypeOK, LimitInv, ReadName
    PROVE  LimitInv'
<1>1. /\ OthersStored \in Nat /\ TotalStored \in Nat /\ Cardinality(New) \in Nat
      /\ total_bytes \in Nat /\ total_files \in Nat /\ dst \in [Paths -> Node]
      /\ \A x : /\ Cardinality(New \ {x}) \in Nat
                /\ Cardinality(New \ {x}) <= Cardinality(New)
  BY LimitTypes DEF LimitInv, TypeOK, UnpackTypeOK
<1>2. /\ SameStored /\ UNCHANGED <<hdr, total_bytes, total_files>> /\ rpc = "name"
      /\ rpc' \in {"reg", "link", "dir", "result"}
  BY <1>1, ModeStoresNothing DEF ReadName, treeVars, countVars, Dispatch, do_exit, GoOn
<1>3. New' = New /\ TotalStored' = TotalStored
  BY <1>2 DEF SameStored, TotalStored
<1>4. CASE rpc' = "result"
  BY <1>1, <1>2, <1>4, LeavingKeepsLimits DEF Creating
<1>5. CASE rpc' \in {"reg", "link", "dir"}
  <2>1. Cardinality(New') < total_files'
    BY <1>2, <1>3 DEF LimitInv
  <2>2. PICK x : x = name'
    OBVIOUS
  <2>3. Cardinality(New' \ {x}) < total_files' 
    BY <1>1, <1>2, <1>3, <2>1
  <2> QED
    BY <1>1, <1>2, <1>3, <1>5, <2>2, <2>3 DEF LimitInv, Creating
<1> QED
  BY <1>2, <1>4, <1>5

(* The data of a file is compared with the limit and then counted, both    *)
(* before the first chunk (unpack.c:223-231).                              *)
LEMMA SpaceKeepsLimits ==
    ASSUME TypeOK, EntryInv, LimitInv, CheckQuota \/ WaitSpace \/ SpaceUnknown
    PROVE  LimitInv'
<1>1. /\ OthersStored \in Nat /\ TotalStored \in Nat /\ OthersStored <= TotalStored
      /\ Cardinality(New) \in Nat /\ Cardinality(New \ {name}) \in Nat
      /\ total_bytes \in Nat /\ total_files \in Nat /\ dst \in [Paths -> Node]
  BY LimitTypes DEF LimitInv, TypeOK, UnpackTypeOK
<1>2. hdr.filelen \in Nat
  BY EntryFacts DEF Named, CheckQuota, WaitSpace, SpaceUnknown, RegStates
<1>3. bytes_limit \in Nat
  BY QfileUnpackAssumption
<1>4. TotalStored <= total_bytes
  BY DEF LimitInv
<1>5. CASE CheckQuota
  <2>1. /\ SameStored /\ UNCHANGED <<hdr, name, total_bytes, total_files>> /\ rpc = "quota"
        /\ rpc' = "result" \/ (rpc' = "space" /\ ~OverQuota(hdr.filelen))
    BY <1>1, <1>5, ModeStoresNothing
       DEF CheckQuota, treeVars, fileVars, countVars, do_exit, GoOn
  <2>2. CASE rpc' = "result"
    BY <1>1, <2>1, <2>2, LeavingKeepsLimits DEF Creating
  <2>3. CASE rpc' = "space" /\ ~OverQuota(hdr.filelen)
    <3>1. bytes_limit # 0 => OthersStored + hdr.filelen <= bytes_limit
      BY <1>1, <1>2, <1>3, <1>4, <2>3 DEF OverQuota
    <3>2. New' = New /\ TotalStored' = TotalStored /\ OthersStored' = OthersStored
      BY <2>1 DEF SameStored, TotalStored, OthersStored
    <3> QED
      BY <2>1, <2>3, <3>1, <3>2 DEF LimitInv, Creating
  <2> QED
    BY <2>1, <2>2, <2>3
<1>6. CASE WaitSpace \/ SpaceUnknown
  <2>1. /\ rpc = "space" /\ total_bytes' = total_bytes + hdr.filelen
        /\ UNCHANGED <<hdr, name, total_files>> /\ SameStored
        /\ rpc' \in {"data", "linkat", "fix"}
    BY <1>1, <1>6, ModeStoresNothing
       DEF WaitSpace, SpaceUnknown, LeaveSpaceCheck, treeVars, fileVars, GoOn, AfterData
  <2>2. New' = New /\ TotalStored' = TotalStored /\ OthersStored' = OthersStored
    BY <2>1 DEF SameStored, TotalStored, OthersStored
  <2>3. OthersStored + hdr.filelen <= total_bytes' /\ total_bytes' \in Nat
        /\ total_bytes' >= total_bytes /\ TotalStored <= total_bytes'
    BY <1>1, <1>2, <1>4, <2>1
  <2> QED
    BY <1>1, <2>1, <2>2, <2>3 DEF LimitInv, Creating
<1> QED
  BY <1>5, <1>6

(* The target of a link is counted and then compared (unpack.c:303).       *)
LEMMA LinkQuotaKeepsLimits ==
    ASSUME TypeOK, EntryInv, LimitInv, LinkQuota
    PROVE  LimitInv'
<1>1. /\ OthersStored \in Nat /\ TotalStored \in Nat /\ OthersStored <= TotalStored
      /\ Cardinality(New) \in Nat /\ Cardinality(New \ {name}) \in Nat
      /\ total_bytes \in Nat /\ total_files \in Nat /\ dst \in [Paths -> Node]
  BY LimitTypes DEF LimitInv, TypeOK, UnpackTypeOK
<1>2. hdr.filelen \in Nat
  BY EntryFacts DEF Named, LinkQuota
<1>3. bytes_limit \in Nat /\ MAX_PATH_LENGTH \in Nat
  BY QfileUnpackAssumption, QfileWireAssumption
<1>4. TotalStored <= total_bytes
  BY DEF LimitInv
<1>5. /\ SameStored /\ UNCHANGED <<hdr, name, total_files>> /\ rpc = "link"
      /\ \/ rpc' = "result" /\ total_bytes' \in {total_bytes, total_bytes + hdr.filelen}
         \/ /\ rpc' = "target" /\ total_bytes' = total_bytes + hdr.filelen
            /\ ~(hdr.filelen > MAX_PATH_LENGTH - 1)
            /\ bytes_limit # 0 => ~(total_bytes' > bytes_limit)
  BY <1>1, ModeStoresNothing DEF LinkQuota, treeVars, fileVars, do_exit, GoOn
<1>6. CASE rpc' = "result"
  <2>1. total_bytes' \in Nat /\ total_bytes' >= total_bytes
    BY <1>1, <1>2, <1>5
  <2> QED
    BY <1>1, <1>5, <1>6, <2>1, LeavingKeepsLimits DEF Creating
<1>7. CASE rpc' = "target"
  <2>1. New' = New /\ TotalStored' = TotalStored /\ OthersStored' = OthersStored
    BY <1>5 DEF SameStored, TotalStored, OthersStored
  <2>2. /\ total_bytes' = total_bytes + hdr.filelen
        /\ hdr.filelen <= MAX_PATH_LENGTH - 1
        /\ bytes_limit # 0 => total_bytes + hdr.filelen <= bytes_limit
    BY <1>1, <1>2, <1>3, <1>5, <1>7
  <2>3. OthersStored + hdr.filelen <= total_bytes' /\ TotalStored <= total_bytes'
    BY <1>1, <1>2, <1>4, <2>2
  <2>4. bytes_limit # 0 => OthersStored + hdr.filelen <= bytes_limit
    BY <1>1, <1>2, <1>3, <1>4, <2>2
  <2> QED
    BY <1>5, <1>7, <2>1, <2>2, <2>3, <2>4 DEF LimitInv, Creating
<1> QED
  BY <1>5, <1>6, <1>7

(* A step of process_one_file() that stores at most w under the name, for  *)
(* which there is room.                                                    *)
LEMMA StoringKeepsLimits ==
    ASSUME TypeOK, TypeOK', LimitInv, UNCHANGED <<name, hdr, total_bytes, total_files>>,
           \A p \in Paths \ {name} : dst'[p] = dst[p],
           rpc \in Creating, rpc' \notin {"name", "reg", "link", "target", "dir", "space"},
           rpc' \in {"data", "linkat"} => rpc = "data",
           NEW w \in Nat, name \in New' => Stored'[name] \in Nat /\ Stored'[name] <= w,
           OthersStored + w <= total_bytes,
           bytes_limit # 0 => OthersStored + w <= bytes_limit
    PROVE  LimitInv'
<1>1. /\ dst \in [Paths -> Node] /\ dst' \in [Paths -> Node] /\ IsFiniteSet(New)
      /\ total_bytes \in Nat /\ total_files \in Nat /\ bytes_limit \in Nat
  BY QfileUnpackAssumption DEF TypeOK, UnpackTypeOK, LimitInv
<1>2. /\ IsFiniteSet(New')
      /\ OthersStored \in Nat /\ TotalStored \in Nat /\ OthersStored <= TotalStored
      /\ OthersStored' = OthersStored
      /\ TotalStored' = OthersStored + (IF name \in New' THEN Stored'[name] ELSE 0)
      /\ Cardinality(New) \in Nat /\ Cardinality(New \ {name}) \in Nat
      /\ Cardinality(New \ {name}) <= Cardinality(New)
      /\ Cardinality(New') \in Nat
      /\ Cardinality(New') <= Cardinality(New \ {name}) + 1
      /\ New' \ {name} = New \ {name}
  BY <1>1, EntryChanges
<1>3. TotalStored' <= OthersStored + w /\ TotalStored' \in Nat
  BY <1>2
<1>4. TotalStored' <= total_bytes /\ (bytes_limit # 0 => TotalStored' <= bytes_limit)
  BY <1>1, <1>2, <1>3
<1>5. /\ Cardinality(New \ {name}) < total_files
      /\ files_limit # 0 => total_files <= files_limit
  BY DEF LimitInv, Creating
<1>6. files_limit \in Nat
  BY QfileUnpackAssumption
<1>7. /\ Cardinality(New') <= total_files
      /\ files_limit # 0 => Cardinality(New') <= files_limit
  BY <1>1, <1>2, <1>5, <1>6
<1>8. Cardinality(New' \ {name'}) < total_files'
  BY <1>2, <1>5
<1>9. rpc' \in {"data", "linkat"} =>
        /\ OthersStored' + hdr'.filelen <= total_bytes'
        /\ bytes_limit # 0 => OthersStored' + hdr'.filelen <= bytes_limit
  BY <1>2 DEF LimitInv
<1> QED
  BY <1>2, <1>4, <1>5, <1>7, <1>8, <1>9 DEF LimitInv

(* A new file takes nothing yet, and one without a name is not seen        *)
(* (unpack.c:204-222).                                                     *)
LEMMA OpenKeepsLimits ==
    ASSUME UnpackOK, UnpackOK', LimitInv, OpenReg
    PROVE  LimitInv'
<1>1. /\ TypeOK /\ TypeOK' /\ EntryInv /\ dst \in [Paths -> Node]
      /\ total_bytes \in Nat /\ total_files \in Nat
  BY DEF UnpackOK, PackOK, TypeOK, UnpackTypeOK
<1>2. /\ rpc = "reg" /\ UNCHANGED <<hdr, name, total_bytes, total_files>>
      /\ \/ rpc' \in {"result", "quota"} /\ UNCHANGED dst
         \/ /\ rpc' = "quota"
            /\ dst' = Put(dst, name, MkNode("reg", "none", hdr.filelen, <<>>, <<>>))
  BY DEF OpenReg, CreateTmpfile, CreateExclusive, do_exit, GoOn, countVars
<1>3. name \in Paths /\ hdr.filelen \in Nat
  BY <1>1, <1>2, EntryFacts DEF Named, RegStates
<1>4. CASE rpc' = "result" /\ UNCHANGED dst
  BY <1>1, <1>2, <1>4, ModeStoresNothing, LeavingKeepsLimits DEF Creating
<1>5. CASE rpc' = "quota" /\ UNCHANGED dst
  <2>1. New' = New /\ TotalStored' = TotalStored
    BY <1>1, <1>5, ModeStoresNothing DEF SameStored, TotalStored
  <2> QED
    BY <1>2, <1>5, <2>1 DEF LimitInv, Creating
<1>6. CASE /\ rpc' = "quota"
           /\ dst' = Put(dst, name, MkNode("reg", "none", hdr.filelen, <<>>, <<>>))
  <2>1. PICK node : node = MkNode("reg", "none", hdr.filelen, <<>>, <<>>)
    OBVIOUS
  <2>2. node.kind = "reg" /\ node.content = <<>>
    BY <2>1, MkNodeFields
  <2>3. dst'[name] = node /\ \A p \in Paths \ {name} : dst'[p] = dst[p]
    BY <1>1, <1>3, <1>6, <2>1 DEF Put
  <2>4. Stored'[name] = 0
    BY <1>2, <1>3, <2>2, <2>3 DEF Stored
  <2>5. OthersStored \in Nat /\ TotalStored \in Nat /\ OthersStored <= TotalStored
    BY <1>1, LimitTypes DEF LimitInv
  <2>6. OthersStored + 0 <= total_bytes /\ (bytes_limit # 0 => OthersStored + 0 <= bytes_limit)
    BY <1>1, <2>5, QfileUnpackAssumption DEF LimitInv
  <2> QED
    BY <1>1, <1>2, <1>6, <2>3, <2>4, <2>6, StoringKeepsLimits DEF Creating
<1> QED
  BY <1>2, <1>4, <1>5, <1>6

(* A chunk is part of the data that was counted, whether the file has its  *)
(* name already or gets it from linkat() (unpack.c:232-248).               *)
LEMMA DataKeepsLimits ==
    ASSUME UnpackOK, UnpackOK', LimitInv, CopyChunk \/ CopyNoSpace \/ LinkTmpfile
    PROVE  LimitInv'
<1>1. /\ TypeOK /\ TypeOK' /\ EntryInv /\ FileInv /\ EntryInv' /\ FileInv'
      /\ dst \in [Paths -> Node] /\ total_bytes \in Nat /\ total_files \in Nat
      /\ buf \in Seq(Chunks) /\ buf' \in Seq(Chunks)
  BY DEF UnpackOK, PackOK, TypeOK, UnpackTypeOK
<1>2. /\ rpc \in {"data", "linkat"} /\ UNCHANGED <<hdr, name, total_bytes, total_files>>
      /\ \/ rpc' = "result" /\ UNCHANGED dst
         \/ /\ rpc = "data" /\ rpc' \in {"data", "linkat", "fix"}
            /\ \/ linked /\ dst' = [dst EXCEPT ![name].content = buf'] /\ linked'
               \/ ~linked /\ UNCHANGED dst
         \/ /\ rpc = "linkat" /\ rpc' = "fix"
            /\ dst' = Put(dst, name, MkNode("reg", "rwx", hdr.filelen, buf, <<>>))
  BY DEF CopyChunk, CopyNoSpace, LinkTmpfile, do_exit, GoOn, countVars, treeVars, fileVars, AfterData
<1>3. name \in Paths /\ hdr.filelen \in Nat
  BY <1>1, <1>2, EntryFacts DEF Named, RegStates
<1>4. /\ OthersStored \in Nat /\ OthersStored + hdr.filelen <= total_bytes
      /\ bytes_limit # 0 => OthersStored + hdr.filelen <= bytes_limit
  BY <1>1, <1>2, LimitTypes DEF LimitInv
<1>5. CASE rpc' = "result" /\ UNCHANGED dst
  BY <1>1, <1>2, <1>5, ModeStoresNothing, LeavingKeepsLimits DEF Creating
<1>6. CASE rpc = "data" /\ rpc' \in {"data", "linkat", "fix"} /\ UNCHANGED dst
  <2>1. New' = New /\ TotalStored' = TotalStored /\ OthersStored' = OthersStored
    BY <1>1, <1>2, <1>6, ModeStoresNothing DEF SameStored, TotalStored, OthersStored
  <2> QED
    BY <1>2, <1>6, <2>1 DEF LimitInv, Creating
<1>7. ASSUME NEW node, dst' = Put(dst, name, node), node.kind = "reg",
             Len(node.content) \in Nat, Len(node.content) <= hdr.filelen,
             rpc' \in {"data", "linkat", "fix"}, rpc' \in {"data", "linkat"} => rpc = "data"
      PROVE  LimitInv'
  <2>1. dst'[name] = node /\ \A p \in Paths \ {name} : dst'[p] = dst[p]
    BY <1>1, <1>3, <1>7 DEF Put
  <2>2. Stored'[name] = Len(node.content)
    BY <1>2, <1>3, <1>7, <2>1 DEF Stored
  <2>3. PICK w \in Nat : w = hdr.filelen
    BY <1>3
  <2>4. /\ Stored'[name] \in Nat /\ Stored'[name] <= w
        /\ OthersStored + w <= total_bytes
        /\ bytes_limit # 0 => OthersStored + w <= bytes_limit
    BY <1>4, <1>7, <2>2, <2>3
  <2>5. rpc \in Creating /\ rpc' \notin {"name", "reg", "link", "target", "dir", "space"}
    BY <1>2, <1>7 DEF Creating
  <2> QED
    BY <1>1, <1>2, <1>7, <2>1, <2>4, <2>5, StoringKeepsLimits
<1>8. CASE /\ rpc = "data" /\ rpc' \in {"data", "linkat", "fix"}
           /\ linked /\ dst' = [dst EXCEPT ![name].content = buf'] /\ linked'
  <2>1. PICK c : c = buf'
    OBVIOUS
  <2>2. PICK node : node = MkNode(dst[name].kind, dst[name].perm, dst[name].size,
                                  c, dst[name].target)
    OBVIOUS
  <2>3. dst' = Put(dst, name, node)
    BY <1>1, <1>3, <1>8, <2>1, <2>2, ExceptIsPut
  <2>4. dst[name].kind = "reg"
    <3>1. dst[name] = MkNode("reg", "none", hdr.filelen, buf, <<>>)
      BY <1>1, <1>8 DEF FileInv
    <3> QED
      BY <3>1, MkNodeFields
  <2>5. node.kind = "reg" /\ node.content = c
    BY <2>2, <2>4, MkNodeFields
  <2>6. Len(c) \in Nat
    BY <1>1, <2>1
  <2>7. Len(c) <= hdr.filelen
    <3>1. CASE rpc' = "data"
      BY <1>1, <1>2, <1>3, <2>1, <2>6, <3>1 DEF EntryInv
    <3>2. CASE rpc' \in {"linkat", "fix"}
      BY <1>1, <1>2, <1>3, <2>1, <2>6, <3>2 DEF FileInv
    <3> QED
      BY <1>8, <3>1, <3>2
  <2> QED
    BY <1>7, <1>8, <2>3, <2>5, <2>6, <2>7
<1>9. CASE /\ rpc = "linkat" /\ rpc' = "fix"
           /\ dst' = Put(dst, name, MkNode("reg", "rwx", hdr.filelen, buf, <<>>))
  <2>1. PICK node : node = MkNode("reg", "rwx", hdr.filelen, buf, <<>>)
    OBVIOUS
  <2>2. node.kind = "reg" /\ node.content = buf
    BY <2>1, MkNodeFields
  <2>3. Len(buf) = hdr.filelen
    BY <1>1, <1>9 DEF FileInv
  <2> QED
    BY <1>3, <1>7, <1>9, <2>1, <2>2, <2>3
<1> QED
  BY <1>2, <1>5, <1>6, <1>8, <1>9

(* A directory is counted, or it takes nothing (unpack.c:273-281).         *)
LEMMA DirKeepsLimits ==
    ASSUME UnpackOK, UnpackOK', LimitInv, MakeDir
    PROVE  LimitInv'
<1>1. /\ TypeOK /\ TypeOK' /\ EntryInv /\ dst \in [Paths -> Node]
      /\ total_bytes \in Nat /\ total_files \in Nat
  BY DEF UnpackOK, PackOK, TypeOK, UnpackTypeOK
<1>2. name \in Paths
  BY <1>1, EntryFacts DEF Named, MakeDir
<1>3. /\ rpc = "dir" /\ UNCHANGED <<hdr, name, total_files>>
      /\ \/ /\ rpc' \in {"result", "hdr", "exit"}
            /\ UNCHANGED dst \/ dst' = [dst EXCEPT ![name].perm = "final"]
            /\ total_bytes' \in {total_bytes, total_bytes + DirSize}
         \/ /\ rpc' = "hdr" /\ total_bytes' = total_bytes
            /\ dst' = Put(dst, name, MkNode("dir", "rwx", 0, <<>>, <<>>))
  BY DEF MakeDir, fix_times_and_perms, errx, do_exit, GoOn, fileVars
<1>4. CASE /\ rpc' \in {"result", "hdr", "exit"}
           /\ UNCHANGED dst \/ dst' = [dst EXCEPT ![name].perm = "final"]
           /\ total_bytes' \in {total_bytes, total_bytes + DirSize}
  <2>1. total_bytes' \in Nat /\ total_bytes' >= total_bytes
    BY <1>1, <1>4, QfileUnpackAssumption
  <2>2. SameStored
    BY <1>1, <1>2, <1>4, ModeStoresNothing
  <2> QED
    BY <1>1, <1>3, <1>4, <2>1, <2>2, LeavingKeepsLimits DEF Creating
<1>5. CASE /\ rpc' = "hdr" /\ total_bytes' = total_bytes
           /\ dst' = Put(dst, name, MkNode("dir", "rwx", 0, <<>>, <<>>))
  <2>1. PICK node : node = MkNode("dir", "rwx", 0, <<>>, <<>>)
    OBVIOUS
  <2>2. node.kind = "dir"
    BY <2>1, MkNodeFields
  <2>3. dst'[name] = node /\ \A p \in Paths \ {name} : dst'[p] = dst[p]
    BY <1>1, <1>2, <1>5, <2>1 DEF Put
  <2>4. name \notin New'
    BY <1>3, <2>2, <2>3 DEF New
  <2>5. OthersStored \in Nat /\ TotalStored \in Nat /\ OthersStored <= TotalStored
    BY <1>1, LimitTypes DEF LimitInv
  <2>6. OthersStored + 0 <= total_bytes /\ (bytes_limit # 0 => OthersStored + 0 <= bytes_limit)
    BY <1>1, <2>5, QfileUnpackAssumption DEF LimitInv
  <2> QED
    BY <1>1, <1>3, <1>5, <2>3, <2>4, <2>6, StoringKeepsLimits DEF Creating
<1> QED
  BY <1>3, <1>4, <1>5

(* A link takes at most what was counted for its target (unpack.c:324),    *)
(* whatever length was announced: read_all() fills no more than that.      *)
LEMMA LinkKeepsLimits ==
    ASSUME UnpackOK, UnpackOK', LimitInv, MakeLink \/ LinkFails
    PROVE  LimitInv'
<1>1. /\ TypeOK /\ TypeOK' /\ EntryInv /\ PipeInv /\ dst \in [Paths -> Node]
      /\ total_bytes \in Nat /\ total_files \in Nat
  BY DEF UnpackOK, PackOK, TypeOK, UnpackTypeOK
<1>2. /\ rpc = "target" /\ UNCHANGED <<hdr, name, total_bytes, total_files>>
      /\ \/ rpc' = "result" /\ UNCHANGED dst
         \/ /\ rpc' = "hdr"
            /\ \E target \in Seq(Components) :
                  /\ Len(target) <= hdr.filelen
                  /\ dst' = Put(dst, name, MkNode("link", "final", Len(target), <<>>, target))
  <2>1. /\ rpc = "target" /\ UNCHANGED <<fileVars, countVars>>
        /\ \/ \E target : do_exit(LinkError(dst, name, target, validate_flags), TRUE) /\ UNCHANGED dst
           \/ do_exit(EIO, TRUE) /\ UNCHANGED dst
           \/ /\ Receive /\ GoOn("hdr")
              /\ \E item \in Incoming :
                    dst' = Put(dst, name, MkNode("link", "final", Len(item.v), <<>>, item.v))
    BY <1>1, MakeLinkSteps
  <2>2. \A code : do_exit(code, TRUE) => rpc' = "result"
    BY DEF do_exit
  <2>3. ASSUME Receive, NEW item \in Incoming
        PROVE  item.v \in Seq(Components) /\ Len(item.v) <= hdr.filelen
    BY <1>1, <2>1, <2>3, IncomingFacts
  <2> QED
    BY <2>1, <2>2, <2>3 DEF GoOn, fileVars, countVars
<1>3. name \in Paths /\ hdr.filelen \in Nat
  BY <1>1, <1>2, EntryFacts DEF Named
<1>5. /\ OthersStored \in Nat /\ OthersStored + hdr.filelen <= total_bytes
      /\ bytes_limit # 0 => OthersStored + hdr.filelen <= bytes_limit
  BY <1>1, <1>2, LimitTypes DEF LimitInv
<1>9. CASE rpc' = "result" /\ UNCHANGED dst
  BY <1>1, <1>2, <1>9, ModeStoresNothing, LeavingKeepsLimits DEF Creating
<1>10. ASSUME rpc' = "hdr", NEW target \in Seq(Components), Len(target) <= hdr.filelen,
              dst' = Put(dst, name, MkNode("link", "final", Len(target), <<>>, target))
       PROVE  LimitInv'
  <2>1. PICK node : node = MkNode("link", "final", Len(target), <<>>, target)
    OBVIOUS
  <2>2. node.kind = "link" /\ node.size = Len(target)
    BY <2>1, MkNodeFields
  <2>3. dst'[name] = node /\ \A p \in Paths \ {name} : dst'[p] = dst[p]
    BY <1>1, <1>3, <1>10, <2>1 DEF Put
  <2>4. Stored'[name] = Len(target)
    BY <1>2, <1>3, <2>2, <2>3 DEF Stored
  <2>5. PICK w \in Nat : w = hdr.filelen
    BY <1>3
  <2>6. /\ Stored'[name] \in Nat /\ Stored'[name] <= w
        /\ OthersStored + w <= total_bytes
        /\ bytes_limit # 0 => OthersStored + w <= bytes_limit
    BY <1>3, <1>5, <1>10, <2>4, <2>5
  <2> QED
    BY <1>1, <1>2, <1>10, <2>3, <2>6, StoringKeepsLimits DEF Creating
<1> QED
  BY <1>2, <1>9, <1>10

(* Setting the mode, the end of the stream, errors, kills and the reply    *)
(* store nothing.                                                          *)
LEMMA EndingKeepsLimits ==
    ASSUME UnpackOK, LimitInv,
           \/ FixReg \/ FileSystemError \/ ReadHeaderEof \/ ReadHeaderError
           \/ ReadEof \/ ReadError \/ Sync \/ SendResult \/ SendExt \/ KillUnpacker
    PROVE  LimitInv'
<1>1. /\ TypeOK /\ EntryInv /\ dst \in [Paths -> Node]
      /\ total_bytes \in Nat /\ total_files \in Nat
  BY DEF UnpackOK, PackOK, TypeOK, UnpackTypeOK
<1>2. CASE FixReg \/ FileSystemError
  <2>1. /\ rpc \in RegStates \cup {"dir"} /\ rpc' \in {"hdr", "exit", "result"}
        /\ UNCHANGED dst \/ dst' = [dst EXCEPT ![name].perm = "final"]
        /\ UNCHANGED <<total_bytes, total_files>>
    BY <1>2 DEF FixReg, FileSystemError, fix_times_and_perms, GoOn, errx, do_exit,
                countVars, RegStates
  <2>2. name \in Paths
    BY <1>1, <2>1, EntryFacts DEF Named, RegStates
  <2>3. SameStored
    BY <1>1, <2>1, <2>2, ModeStoresNothing
  <2> QED
    BY <1>1, <2>1, <2>3, LeavingKeepsLimits DEF Creating
<1>3. CASE \/ ReadHeaderEof \/ ReadHeaderError \/ ReadEof \/ ReadError
           \/ Sync \/ SendResult \/ SendExt \/ KillUnpacker
  <2>1. /\ rpc' \in {"sync", "result", "ext", "exit"} /\ UNCHANGED dst
        /\ UNCHANGED <<total_bytes, total_files>>
    BY <1>3 DEF ReadHeaderEof, ReadHeaderError, ReadEof, ReadError, Sync, SendResult, SendExt,
                KillUnpacker, Reply, do_exit, treeVars, countVars
  <2>2. SameStored
    BY <1>1, <2>1, ModeStoresNothing
  <2> QED
    BY <1>1, <2>1, <2>2, LeavingKeepsLimits DEF Creating
<1> QED
  BY <1>2, <1>3

(* Every step of either program, every fault and kill keeps the limits.    *)
LEMMA NextKeepsLimits ==
    ASSUME UnpackOK, UnpackOK', LimitInv, [Next]_vars
    PROVE  LimitInv'
<1>0. TypeOK /\ EntryInv /\ dst \in [Paths -> Node]
  BY DEF UnpackOK, PackOK, TypeOK, UnpackTypeOK
<1>1. CASE \/ Pack \/ PackFault \/ WireFault \/ DiskFills \/ DiskFrees \/ ReadPart
           \/ Done \/ UNCHANGED vars
  <2>1. UNCHANGED <<rpc, dst, hdr, name, total_bytes, total_files>>
    <3>1. CASE Pack
      BY <3>1 DEF Pack, PackStep, WalkEnter, WalkLeave, WalkEnd, SendHeader, SendName,
                  SendChunk, SendTarget, NotifyEnd, NoResultYet, ResultEof, ReadResult,
                  ReadExt, unpackVars, treeVars, fileVars, countVars
    <3>2. CASE PackFault
      BY <3>2 DEF PackFault, LocalError, KillPacker, unpackVars, treeVars, fileVars, countVars
    <3>3. CASE WireFault \/ DiskFills \/ DiskFrees \/ ReadPart
      BY <3>3 DEF WireFault, Garble, DiskFills, DiskFrees, ReadPart, unpackVars, treeVars,
                  fileVars, countVars
    <3>4. CASE Done \/ UNCHANGED vars
      BY <3>4 DEF Done, vars, wireVars, unpackVars, treeVars, fileVars, countVars
    <3> QED
      BY <1>1, <3>1, <3>2, <3>3, <3>4
  <2> QED
    BY <1>0, <2>1, ModeStoresNothing, StayingKeepsLimits
<1>2. CASE Unpack
  <2>1. CASE ReadHeader \/ ReadName
    BY <1>0, <2>1, HeaderKeepsLimits, NameKeepsLimits
  <2>2. CASE ReadHeaderEof \/ ReadEof \/ FixReg \/ Sync \/ SendResult \/ SendExt
    BY <2>2, EndingKeepsLimits
  <2>3. CASE OpenReg \/ CopyChunk \/ CopyNoSpace \/ LinkTmpfile
    BY <2>3, OpenKeepsLimits, DataKeepsLimits
  <2>4. CASE CheckQuota \/ WaitSpace \/ LinkQuota
    BY <1>0, <2>4, SpaceKeepsLimits, LinkQuotaKeepsLimits
  <2>5. CASE MakeDir \/ MakeLink
    BY <2>5, DirKeepsLimits, LinkKeepsLimits
  <2> QED
    BY <1>1, <1>2, <2>1, <2>2, <2>3, <2>4, <2>5 DEF Unpack, UnpackStep
<1>3. CASE UnpackFault
  <2>1. CASE ReadHeaderError \/ ReadError \/ FileSystemError \/ KillUnpacker
    BY <2>1, EndingKeepsLimits
  <2>2. CASE SpaceUnknown \/ LinkFails
    BY <1>0, <2>2, SpaceKeepsLimits, LinkKeepsLimits
  <2> QED
    BY <1>1, <1>3, <2>1, <2>2 DEF UnpackFault
<1> QED
  BY <1>1, <1>2, <1>3 DEF Next

(* Nothing is new in the directory the copy finds.                         *)
LEMMA InitLimits == Init => LimitInv
<1> SUFFICES ASSUME Init PROVE LimitInv
  OBVIOUS
<1>1. dst \in InitDsts /\ rpc = "hdr" /\ total_bytes = 0 /\ total_files = 0
  BY DEF Init, UnpackInit
<1>2. New = {}
  BY <1>1 DEF New, Exists
<1>3. PICK f : f = Stored
  OBVIOUS
<1>4. TotalStored = 0
  BY <1>2, <1>3, SumOfNone DEF TotalStored
<1> QED
  BY <1>1, <1>2, <1>4, FS_EmptySet, QfileUnpackAssumption DEF LimitInv, Creating

(* unpack.c, set_size_limit(): whatever the packer sends, whatever is      *)
(* garbled, and wherever either program stops, the data and the targets    *)
(* stored never pass the size limit, nor the files and links the limit on  *)
(* their number.                                                           *)
THEOREM Limits_Safe == Spec => []LimitsHold
<1>1. Init => LimitInv
  BY InitLimits
<1>2. UnpackOK /\ UnpackOK' /\ LimitInv /\ [Next]_vars => LimitInv'
  BY NextKeepsLimits
<1>3. LimitInv => LimitsHold
  BY DEF LimitInv, LimitsHold, TotalStored
<1> QED
  BY <1>1, <1>2, <1>3, StreamInvariant, PTL DEF Spec
=============================================================================
