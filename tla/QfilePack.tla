----------------------------- MODULE QfilePack -----------------------------
(***************************************************************************)
(* qrexec-lib/pack.c: the program that walks the source tree, streams it   *)
(* to the unpacker and decides whether the copy succeeded.  The calls are  *)
(* those a copy agent makes: qfile_pack_init(), do_fs_walk() on each of    *)
(* its arguments, notify_end_and_wait_for_result(), exit(0).               *)
(***************************************************************************)
EXTENDS QfileWire

CONSTANTS
    IgnoreSymlinks,     \* second argument of do_fs_walk()
    IgnoreQuotaError    \* set_ignore_quota_error()

ASSUME QfilePackAssumption ==
    /\ IgnoreSymlinks \in BOOLEAN
    /\ IgnoreQuotaError \in BOOLEAN

VARIABLES
    stack,    \* open directories of do_fs_walk: [dir, todo], outermost first
    cur,      \* path given to single_file_processor()
    sent,     \* chunks of cur that copy_file() has written
    sBlock,   \* stdin is in blocking mode
    cont,     \* what follows wait_for_result(): "walk", "exit1" or "exit0"
    sRes,     \* result header read by wait_for_result()
    crcS,     \* crc32_sum of pack.c
    sExit,    \* exit status, -1 while running
    report    \* what the error handler was told, or how the packer ended

packVars == <<stack, cur, sent, sBlock, cont, sRes, crcS, sExit, report>>

NoResult == Result(0, <<>>)

Frame(dir, todo) == [dir |-> dir, todo |-> todo]
Top == stack[Len(stack)]

(* What readdir() returns for a directory; <<>> stands for the caller's    *)
(* list of arguments.                                                      *)
Children(dir) ==
    {n \in Names : Append(dir, n) \in DOMAIN SrcTree}

Reports == {"none", "exists", "corrupted", "forbidden", "badlink", "other",
            "checksum", "local", "eof", "refused", "success", "killed"}

PackTypeOK ==
    /\ spc \in {"walk", "hdr", "name", "data", "wait", "ext", "end", "exit"}
    /\ stack \in Seq([dir : Paths \cup {<<>>}, todo : SUBSET Names])
    /\ stack # <<>>
    /\ cur \in DOMAIN SrcTree \cup {<<>>}
    /\ sent \in Nat
    /\ sBlock \in BOOLEAN
    /\ cont \in {"walk", "exit1", "exit0"}
    /\ sRes \in Replies \ {Ext}
    /\ crcS \in Checksum
    /\ sExit \in {-1, 0, 1}
    /\ report \in Reports

(* qfile_pack_init() *)
PackInit ==
    /\ spc = "walk"
    /\ stack = <<Frame(<<>>, Children(<<>>))>>
    /\ cur = <<>>
    /\ sent = 0
    /\ sBlock = FALSE
    /\ cont = "walk"
    /\ sRes = NoResult
    /\ crcS = <<>>
    /\ sExit = -1
    /\ report = "none"

(***************************************************************************)
(* Ends of the program.  exit() closes both pipe ends, which PackerGone    *)
(* says.                                                                   *)
(***************************************************************************)
Exit(code, why) ==
    /\ spc' = "exit"
    /\ sExit' = code
    /\ report' = why

call_error_handler(why) == Exit(1, why)

Goto(pc) == spc' = pc /\ UNCHANGED <<sExit, report>>

(* Mutant: a broken pipe ends the program before it reads the result. *)
write_all_with_crc_NoWait(item, next) ==
    /\ crcS' = Append(crcS, item)
    /\ \/ /\ ~FwdBroken
          /\ CanWrite(fwd, FwdCap)
          /\ fwd' = Append(fwd, item)
          /\ Goto(next)
       \/ /\ FwdBroken
          /\ Exit(1, "refused")
          /\ UNCHANGED fwd
    /\ UNCHANGED <<sBlock, cont>>

(***************************************************************************)
(* write_all_with_crc(): the checksum covers the item whether or not the   *)
(* write succeeds.  On success go on with `next'; a broken pipe makes the  *)
(* caller set stdin blocking, wait for the result and exit(1); a full pipe *)
(* blocks (neither disjunct is enabled).                                   *)
(***************************************************************************)
write_all_with_crc(item, next) ==
    /\ crcS' = Append(crcS, item)
    /\ \/ /\ ~FwdBroken
          /\ CanWrite(fwd, FwdCap)
          /\ fwd' = Append(fwd, item)
          /\ Goto(next)
          /\ UNCHANGED <<sBlock, cont>>
       \/ /\ FwdBroken
          /\ sBlock' = TRUE
          /\ cont' = "exit1"
          /\ Goto("wait")
          /\ UNCHANGED fwd

(***************************************************************************)
(* do_fs_walk()                                                            *)
(***************************************************************************)

(* lstat() and single_file_processor() on the next entry readdir() gives,  *)
(* in whatever order; a directory is then opened to be walked.             *)
WalkEnter(n) ==
    /\ spc = "walk"
    /\ n \in Top.todo
    /\ LET p == Append(Top.dir, n)
           rest == [stack EXCEPT ![Len(stack)].todo = @ \ {n}]
       IN  \/ /\ SrcTree[p].kind = "link" /\ IgnoreSymlinks
              /\ stack' = rest
              /\ UNCHANGED <<spc, cur>>
           \/ /\ ~(SrcTree[p].kind = "link" /\ IgnoreSymlinks)
              /\ cur' = p
              /\ stack' = IF SrcTree[p].kind = "dir"
                          THEN Append(rest, Frame(p, Children(p))) ELSE rest
              /\ spc' = "hdr"
    /\ NoFault
    /\ UNCHANGED <<fwd, rev, rpc, rIn, sent, sBlock, cont, sRes, crcS, sExit, report>>

(* Mutant: the list of arguments is left like a directory. *)
WalkLeave_Outermost ==
    /\ spc = "walk"
    /\ Top.todo = {}
    /\ cur' = Top.dir
    /\ stack' = SubSeq(stack, 1, Len(stack) - 1)
    /\ spc' = "hdr"
    /\ NoFault
    /\ UNCHANGED <<fwd, rev, rpc, rIn, sent, sBlock, cont, sRes, crcS, sExit, report>>

(* The directory is read to its end: its metadata is sent a second time.   *)
WalkLeave ==
    /\ spc = "walk"
    /\ Top.todo = {} /\ Len(stack) > 1
    /\ cur' = Top.dir
    /\ stack' = SubSeq(stack, 1, Len(stack) - 1)
    /\ spc' = "hdr"
    /\ NoFault
    /\ UNCHANGED <<fwd, rev, rpc, rIn, sent, sBlock, cont, sRes, crcS, sExit, report>>

(* The caller has no argument left. *)
WalkEnd ==
    /\ spc = "walk"
    /\ Top.todo = {} /\ Len(stack) = 1
    /\ spc' = "end"
    /\ NoFault
    /\ UNCHANGED <<fwd, rev, rpc, rIn, packVars>>

(* lstat(), open(), opendir() or readlink() fails, or a file has become    *)
(* shorter than its header announced (COPY_FILE_READ_EOF).                 *)
LocalError ==
    /\ spc \in {"walk", "hdr", "data"}
    /\ spc = "data" => SrcTree[cur].kind = "reg"
    /\ Fault
    /\ call_error_handler("local")
    /\ UNCHANGED <<fwd, rev, rpc, rIn, stack, cur, sent, sBlock, cont, sRes, crcS>>

(***************************************************************************)
(* single_file_processor()                                                 *)
(***************************************************************************)
FileLen(p) ==
    IF SrcTree[p].kind = "reg" THEN SrcTree[p].size
    ELSE IF SrcTree[p].kind = "link" THEN Len(SrcTree[p].target) ELSE 0

(* Mutant: the length of the name does not count the NUL sent with it. *)
HeaderOf_NoNul(p) == Header(SrcTree[p].kind, NameLen(p) - 1, FileLen(p), TRUE)

HeaderOf(p) == Header(SrcTree[p].kind, NameLen(p), FileLen(p), TRUE)

(* write_headers(), first half *)
SendHeader ==
    /\ spc = "hdr"
    /\ write_all_with_crc(HeaderOf(cur), "name")
    /\ sent' = 0
    /\ NoFault
    /\ UNCHANGED <<rev, rpc, rIn, stack, cur, sRes>>

(* Nothing left to send for this entry: poll for an early result. *)
AfterName(p) == IF FileLen(p) = 0 THEN "wait" ELSE "data"

(* write_headers(), second half *)
SendName ==
    /\ spc = "name"
    /\ write_all_with_crc(NameItem(cur), AfterName(cur))
    /\ NoFault
    /\ UNCHANGED <<rev, rpc, rIn, stack, cur, sent, sRes>>

(* copy_file(), one chunk *)
SendChunk ==
    /\ spc = "data"
    /\ SrcTree[cur].kind = "reg"
    /\ write_all_with_crc(DataItem(SrcTree[cur].content[sent + 1]),
                          IF sent + 1 = FileLen(cur) THEN "wait" ELSE "data")
    /\ sent' = sent + 1
    /\ NoFault
    /\ UNCHANGED <<rev, rpc, rIn, stack, cur, sRes>>

(* the target of a symbolic link *)
SendTarget ==
    /\ spc = "data"
    /\ SrcTree[cur].kind = "link"
    /\ write_all_with_crc(LinkItem(SrcTree[cur].target), "wait")
    /\ NoFault
    /\ UNCHANGED <<rev, rpc, rIn, stack, cur, sent, sRes>>

(* Mutant: no set_block(), the result is only polled for. *)
NotifyEnd_Polls ==
    /\ spc = "end"
    /\ crcS' = Append(crcS, EndMarker)
    /\ \/ ~FwdBroken /\ CanWrite(fwd, FwdCap) /\ fwd' = Append(fwd, EndMarker)
       \/ FwdBroken /\ UNCHANGED fwd
    /\ cont' = "exit0"
    /\ Goto("wait")
    /\ NoFault
    /\ UNCHANGED <<rev, rpc, rIn, stack, cur, sent, sRes, sBlock>>

(***************************************************************************)
(* notify_end_and_wait_for_result(): the result of the write is ignored.   *)
(***************************************************************************)
NotifyEnd ==
    /\ spc = "end"
    /\ crcS' = Append(crcS, EndMarker)
    /\ \/ ~FwdBroken /\ CanWrite(fwd, FwdCap) /\ fwd' = Append(fwd, EndMarker)
       \/ FwdBroken /\ UNCHANGED fwd
    /\ sBlock' = TRUE
    /\ cont' = "exit0"
    /\ Goto("wait")
    /\ NoFault
    /\ UNCHANGED <<rev, rpc, rIn, stack, cur, sent, sRes>>

(***************************************************************************)
(* wait_for_result()                                                       *)
(***************************************************************************)

(* Where the callers of wait_for_result() go when it returns. *)
Return ==
    \/ cont = "walk"  /\ Goto("walk")
    \/ cont = "exit1" /\ Exit(1, "refused")
    \/ cont = "exit0" /\ Exit(0, "success")

(* EAGAIN: no result yet and stdin still open *)
NoResultYet ==
    /\ spc = "wait"
    /\ rev = <<>> /\ ~UnpackerGone /\ ~sBlock
    /\ Return
    /\ NoFault
    /\ UNCHANGED <<fwd, rev, rpc, rIn, stack, cur, sent, sBlock, cont, sRes, crcS>>

(* EOF: "hopefully remote has produced error message" *)
ResultEof ==
    /\ spc = "wait"
    /\ RevEof
    /\ Exit(1, "eof")
    /\ NoFault
    /\ UNCHANGED <<fwd, rev, rpc, rIn, stack, cur, sent, sBlock, cont, sRes, crcS>>

(* read_all() of the result header; its first byte makes stdin blocking *)
ReadResult ==
    /\ spc = "wait"
    /\ rev # <<>>
    /\ sRes' = Head(rev)
    /\ rev' = Tail(rev)
    /\ sBlock' = TRUE
    /\ spc' = "ext"
    /\ NoFault
    /\ UNCHANGED <<fwd, rpc, rIn, stack, cur, sent, cont, crcS, sExit, report>>

(* The message for a result that is not zero. *)
ErrorText(code) ==
    CASE code = EEXIST  -> "exists"
      [] code = EINVAL  -> "corrupted"
      [] code = EILSEQ  -> "forbidden"
      [] code = ENOLINK -> "badlink"
      [] OTHER          -> "other"

(* Mutant: the checksums are not compared. *)
Judge_NoChecksum ==
    IF sRes.code # 0 THEN call_error_handler(ErrorText(sRes.code)) ELSE Return

(* The switch on error_code, and the checksum comparison. *)
Judge ==
    IF sRes.code # 0
    THEN IF sRes.code = EDQUOT /\ IgnoreQuotaError
         THEN Return
         ELSE call_error_handler(ErrorText(sRes.code))
    ELSE IF sRes.crc # crcS
         THEN call_error_handler("checksum")
         ELSE Return

(* Mutant: the extended header is waited for until it comes. *)
ReadExt_NoEof ==
    /\ spc = "ext"
    /\ rev # <<>> /\ rev' = Tail(rev)
    /\ Judge
    /\ NoFault
    /\ UNCHANGED <<fwd, rpc, rIn, stack, cur, sent, sBlock, cont, sRes, crcS>>

(* read_all() of the extended header and the last file name; an unpacker   *)
(* that sends none ends its output here instead.                           *)
ReadExt ==
    /\ spc = "ext"
    /\ \/ rev # <<>> /\ rev' = Tail(rev)
       \/ RevEof /\ UNCHANGED rev
    /\ Judge
    /\ NoFault
    /\ UNCHANGED <<fwd, rpc, rIn, stack, cur, sent, sBlock, cont, sRes, crcS>>

(***************************************************************************)
(* The packer is killed, at any point. *)
(***************************************************************************)
KillPacker ==
    /\ spc # "exit"
    /\ Fault
    /\ Exit(1, "killed")
    /\ UNCHANGED <<fwd, rev, rpc, rIn, stack, cur, sent, sBlock, cont, sRes, crcS>>

PackStep ==
    \/ \E n \in Names : WalkEnter(n)
    \/ WalkLeave
    \/ WalkEnd
    \/ SendHeader
    \/ SendName
    \/ SendChunk
    \/ SendTarget
    \/ NotifyEnd
    \/ NoResultYet
    \/ ResultEof
    \/ ReadResult
    \/ ReadExt
=============================================================================
