---------------------------- MODULE QfileUnpack ----------------------------
(***************************************************************************)
(* qrexec-lib/unpack.c: the program that reads the stream, rebuilds the    *)
(* tree in its working directory and reports a status and a checksum.      *)
(* One action per point where the program can be stopped, can block or can *)
(* fail; what happens between two such points is one step.                 *)
(***************************************************************************)
EXTENDS QfileWire

CONSTANTS
    CopyFlags,        \* argument of do_unpack_ext(), as a set
    InitDsts,         \* what the working directory may hold at the start
    bytes_limit,      \* set_size_limit(), 0 for no limit
    files_limit,
    WaitForSpace,     \* set_wait_for_space() was given a margin
    ProcFd,           \* set_procfs_fd() was called: O_TMPFILE may be used
    DirSize           \* st_size of a directory

ASSUME QfileUnpackAssumption ==
    /\ CopyFlags \subseteq {"SYMLINKS", "DIRECTORIES", "UNSAFE_CHARACTERS",
                            "NON_CANONICAL_SYMLINKS", "UNSAFE_SYMLINKS"}
    /\ InitDsts \subseteq [Paths -> Node]
    /\ \A tree \in InitDsts : \A p \in Paths : WellFormed(tree[p])
    /\ bytes_limit \in Nat
    /\ files_limit \in Nat
    /\ WaitForSpace \in BOOLEAN
    /\ ProcFd \in BOOLEAN
    /\ DirSize \in Nat

VARIABLES
    dst,           \* the working directory
    full,          \* its file system has no room for another chunk
    hdr,           \* untrusted_hdr
    name,          \* untrusted_namebuf
    buf,           \* what has been written to fdout
    use_tmpfile,
    linked,        \* fdout is linked at name (O_CREAT, or after linkat)
    total_bytes,
    total_files,
    crcR,          \* crc32_sum of unpack.c
    slip,          \* 0 while reads end where items end, see Receive
    marker,        \* end_of_transfer_marker_seen
    rCode,         \* code given to send_status_and_crc()
    withName,      \* it was given a last_filename
    replied        \* history: the result header went into the pipe

treeVars  == <<dst, full>>
fileVars  == <<hdr, name, buf, use_tmpfile, linked>>
countVars == <<total_bytes, total_files>>
replyVars == <<marker, rCode, withName, replied>>
unpackVars == <<treeVars, fileVars, countVars, crcR, slip, replyVars>>

(* Never ALLOW_NON_CANONICAL_PATHS: flags are masked (process_one_file). *)
validate_flags ==
    CopyFlags \cap {"UNSAFE_CHARACTERS", "UNSAFE_SYMLINKS",
                    "NON_CANONICAL_SYMLINKS"}

UnpackTypeOK ==
    /\ rpc \in {"hdr", "name", "reg", "quota", "space", "data", "linkat", "fix",
                "dir", "link", "target", "sync", "result", "ext", "exit"}
    /\ rIn \in BOOLEAN
    /\ dst \in [Paths -> Node]
    /\ full \in BOOLEAN
    /\ hdr \in Headers
    /\ name \in Paths \cup {<<>>}
    /\ buf \in Seq(Chunks)
    /\ use_tmpfile \in BOOLEAN
    /\ linked \in BOOLEAN
    /\ total_bytes \in Nat
    /\ total_files \in Nat
    /\ crcR \in Checksum
    /\ slip \in 0..MaxReads
    /\ marker \in BOOLEAN
    /\ rCode \in 0..(U32Modulus - 1)
    /\ withName \in BOOLEAN
    /\ replied \in BOOLEAN

(* The head of do_unpack_ext() *)
UnpackInit ==
    /\ rpc = "hdr"
    /\ rIn = TRUE
    /\ dst \in InitDsts
    /\ full = FALSE
    /\ hdr = EndMarker
    /\ name = <<>>
    /\ buf = <<>>
    /\ use_tmpfile = ProcFd
    /\ linked = FALSE
    /\ total_bytes = 0
    /\ total_files = 0
    /\ crcR = <<>>
    /\ slip = 0
    /\ marker = FALSE
    /\ rCode = 0
    /\ withName = TRUE
    /\ replied = FALSE

(* Mutant: stdin stays open while the status is written. *)
do_exit_KeepsStdin(code, has_name) ==
    /\ rCode' = U32(code)
    /\ withName' = has_name
    /\ rpc' = "result"
    /\ UNCHANGED <<rIn, marker, replied>>

(***************************************************************************)
(* do_exit(): stdin is closed before the status is written, so that a      *)
(* packer blocked on a full pipe gets EPIPE and turns to reading.          *)
(***************************************************************************)
do_exit(code, has_name) ==
    /\ rIn' = FALSE
    /\ rCode' = U32(code)
    /\ withName' = has_name
    /\ rpc' = "result"
    /\ UNCHANGED <<marker, replied>>

(* errx(): the program ends without a status *)
errx ==
    /\ rIn' = FALSE
    /\ rpc' = "exit"
    /\ UNCHANGED replyVars

GoOn(pc) == rpc' = pc /\ UNCHANGED <<rIn, replyVars>>

(***************************************************************************)
(* read_all_with_crc() and copy_file() read as much as the header in hand  *)
(* announces, whatever comes.  While that is the item at the head of the   *)
(* pipe, the item is read.  A garbled length or type makes a read end      *)
(* elsewhere, and from then on the reader has lost its place: a read gives *)
(* bytes that may look like anything, and ends inside the item at the head *)
(* (slip counts how often) or uses it up.  The checksum differs from the   *)
(* packer's for good by then and is not followed any further.              *)
(***************************************************************************)
Reading == rpc \in {"hdr", "name", "data"} \/ (rpc = "target" /\ hdr.filelen # 0)

Fits(item) ==
    /\ item.t = rpc
    /\ rpc = "name" => item.len = hdr.namelen
    /\ rpc = "target" => item.len = hdr.filelen

Placed == slip = 0 /\ Fits(Head(fwd))

Incoming == IF Placed THEN {Head(fwd)} ELSE {g \in Garbage : Fits(g)}

Receive ==
    /\ Reading /\ rIn /\ fwd # <<>>
    /\ \/ /\ Placed
          /\ fwd' = Tail(fwd)
          /\ crcR' = Append(crcR, Head(fwd))
          /\ UNCHANGED slip
       \/ /\ ~Placed
          /\ \/ fwd' = Tail(fwd) /\ slip' = 1
             \/ slip < MaxReads /\ slip' = slip + 1 /\ UNCHANGED fwd
          /\ UNCHANGED crcR

Quiet == UNCHANGED <<fwd, crcR, slip>>

(* A read that has used up the item at the head and waits for more. *)
ReadPart ==
    /\ Reading /\ rIn /\ fwd # <<>> /\ ~Placed
    /\ fwd' = Tail(fwd)
    /\ slip' = 1
    /\ NoFault
    /\ UNCHANGED <<rev, spc, rpc, rIn, treeVars, fileVars, countVars, crcR, replyVars>>

(***************************************************************************)
(* do_unpack_ext(): the loop over headers.                                 *)
(***************************************************************************)
ReadHeader ==
    /\ rpc = "hdr"
    /\ Receive
    /\ hdr' \in Incoming
    /\ \/ /\ hdr'.namelen = 0
          /\ marker' = TRUE
          /\ rCode' = 0
          /\ rpc' = "sync"
          /\ UNCHANGED <<rIn, withName, replied, total_files>>
       \/ /\ hdr'.namelen # 0
          /\ total_files' = total_files + 1
          /\ IF files_limit # 0 /\ total_files' > files_limit
             THEN do_exit(EDQUOT, TRUE)
             ELSE IF hdr'.namelen > MAX_PATH_LENGTH - 1
                  THEN do_exit(ENAMETOOLONG, FALSE)
                  ELSE GoOn("name")
    /\ NoFault
    /\ UNCHANGED <<rev, spc, treeVars, name, buf, use_tmpfile, linked, total_bytes>>

(* The stream ends without a marker: read_all() leaves errno 0 at EOF. *)
ReadHeaderEof ==
    /\ rpc = "hdr"
    /\ FwdEof
    /\ rCode' = EREMOTEIO
    /\ rpc' = "sync"
    /\ Quiet
    /\ NoFault
    /\ UNCHANGED <<rev, spc, rIn, treeVars, fileVars, countVars, marker, withName, replied>>

(* read() itself fails: its errno is the status. *)
ReadHeaderError ==
    /\ rpc = "hdr"
    /\ Fault
    /\ rCode' = EIO
    /\ rpc' = "sync"
    /\ Quiet
    /\ UNCHANGED <<rev, spc, rIn, treeVars, fileVars, countVars, marker, withName, replied>>

(***************************************************************************)
(* process_one_file(): the name, then the function for the type.           *)
(***************************************************************************)
Dispatch(kind) ==
    IF kind = "reg" THEN GoOn("reg")
    ELSE IF kind = "link" /\ "SYMLINKS" \in CopyFlags THEN GoOn("link")
    ELSE IF kind = "dir" /\ "DIRECTORIES" \in CopyFlags THEN GoOn("dir")
    ELSE do_exit(EINVAL, TRUE)

ReadName ==
    /\ rpc = "name"
    /\ Receive
    /\ \E item \in Incoming : name' = item.name
    /\ Dispatch(hdr.kind)
    /\ NoFault
    /\ UNCHANGED <<rev, spc, treeVars, hdr, buf, use_tmpfile, linked, countVars>>

(* EOF in the name, in the data or in a link target. *)
ReadEof ==
    /\ rpc # "hdr" /\ Reading
    /\ FwdEof
    /\ do_exit(LEGAL_EOF, rpc # "name")
    /\ Quiet
    /\ NoFault
    /\ UNCHANGED <<rev, spc, treeVars, fileVars, countVars>>

(* read() fails there: it is reported as if it were EOF. *)
ReadError ==
    /\ rpc # "hdr" /\ Reading
    /\ Fault
    /\ do_exit(LEGAL_EOF, rpc # "name")
    /\ Quiet
    /\ UNCHANGED <<rev, spc, treeVars, fileVars, countVars>>

(***************************************************************************)
(* process_one_file_reg()                                                  *)
(***************************************************************************)

(* Mutant: the file is created with mode 0700. *)
CreateExclusive_Readable(p) ==
    /\ use_tmpfile' = FALSE
    /\ IF CreateError(dst, p) # 0
       THEN do_exit(CreateError(dst, p), TRUE) /\ UNCHANGED <<dst, linked>>
       ELSE /\ GoOn("quota")
            /\ linked' = TRUE
            /\ dst' = Put(dst, p, MkNode("reg", "rwx", hdr.filelen, <<>>, <<>>))

(* O_CREAT|O_EXCL with mode 0000: the file is there and nobody can open it *)
CreateExclusive(p) ==
    /\ use_tmpfile' = FALSE
    /\ IF CreateError(dst, p) # 0
       THEN do_exit(CreateError(dst, p), TRUE) /\ UNCHANGED <<dst, linked>>
       ELSE /\ GoOn("quota")
            /\ linked' = TRUE
            /\ dst' = Put(dst, p, MkNode("reg", "none", hdr.filelen, <<>>, <<>>))

(* O_TMPFILE: the file has no name yet *)
CreateTmpfile ==
    /\ use_tmpfile
    /\ GoOn("quota")
    /\ linked' = FALSE
    /\ UNCHANGED <<dst, use_tmpfile>>

OpenReg ==
    /\ rpc = "reg"
    /\ LET rc == RegError(dst, name, validate_flags)
       IN  IF rc # 0 THEN do_exit(rc, TRUE) /\ UNCHANGED <<dst, use_tmpfile, linked>>
           ELSE CreateTmpfile \/ CreateExclusive(name)
    /\ buf' = <<>>
    /\ Quiet
    /\ NoFault
    /\ UNCHANGED <<rev, spc, full, hdr, name, countVars>>

(* Mutant: each file is compared with the limit, their sum is not. *)
OverQuota_PerFile(filelen) ==
    \/ filelen > LLONG_MAX
    \/ bytes_limit # 0 /\ filelen > bytes_limit

(* The limits, checked with the file already created. *)
OverQuota(filelen) ==
    \/ filelen > LLONG_MAX
    \/ bytes_limit # 0 /\ filelen > bytes_limit
    \/ bytes_limit # 0 /\ total_bytes > bytes_limit - filelen

CheckQuota ==
    /\ rpc = "quota"
    /\ IF OverQuota(hdr.filelen) THEN do_exit(EDQUOT, TRUE) ELSE GoOn("space")
    /\ Quiet
    /\ NoFault
    /\ UNCHANGED <<rev, spc, treeVars, fileVars, countVars>>

AfterData == IF use_tmpfile THEN "linkat" ELSE "fix"

LeaveSpaceCheck ==
    /\ total_bytes' = total_bytes + hdr.filelen
    /\ GoOn(IF hdr.filelen = 0 THEN AfterData ELSE "data")
    /\ Quiet
    /\ UNCHANGED <<rev, spc, treeVars, fileVars, total_files>>

(* wait_for_space() polls until there is room, for ever if need be. *)
WaitSpace ==
    /\ rpc = "space"
    /\ WaitForSpace => ~full
    /\ NoFault
    /\ LeaveSpaceCheck

(* fstatvfs() fails: wait_for_space() gives up and its result is ignored. *)
SpaceUnknown ==
    /\ rpc = "space"
    /\ WaitForSpace
    /\ Fault
    /\ LeaveSpaceCheck

(* copy_file(): one chunk is read, added to the checksum and written. *)
CopyChunk ==
    /\ rpc = "data"
    /\ Receive
    /\ ~full
    /\ \E item \in Incoming : buf' = Append(buf, item.v)
    /\ dst' = IF linked THEN [dst EXCEPT ![name].content = buf'] ELSE dst
    /\ GoOn(IF Len(buf') = hdr.filelen THEN AfterData ELSE "data")
    /\ NoFault
    /\ UNCHANGED <<rev, spc, full, hdr, name, use_tmpfile, linked, countVars>>

CopyNoSpace ==
    /\ rpc = "data"
    /\ Receive
    /\ full
    /\ do_exit(ENOSPC, TRUE)
    /\ NoFault
    /\ UNCHANGED <<rev, spc, treeVars, fileVars, countVars>>

(* linkat() gives the finished file its name. *)
LinkTmpfile ==
    /\ rpc = "linkat"
    /\ IF CreateError(dst, name) # 0
       THEN do_exit(CreateError(dst, name), TRUE) /\ UNCHANGED <<dst, linked>>
       ELSE /\ dst' = Put(dst, name, MkNode("reg", "rwx", hdr.filelen, buf, <<>>))
            /\ linked' = TRUE
            /\ GoOn("fix")
    /\ Quiet
    /\ NoFault
    /\ UNCHANGED <<rev, spc, full, hdr, name, buf, use_tmpfile, countVars>>

(* fix_times_and_perms(): a bad nanosecond count ends the program at once, *)
(* before the mode is changed.                                             *)
fix_times_and_perms(p, next) ==
    IF hdr.nsec
    THEN dst' = [dst EXCEPT ![p].perm = "final"] /\ GoOn(next)
    ELSE errx /\ UNCHANGED dst

FixReg ==
    /\ rpc = "fix"
    /\ fix_times_and_perms(name, "hdr")
    /\ linked' = FALSE
    /\ Quiet
    /\ NoFault
    /\ UNCHANGED <<rev, spc, full, hdr, name, buf, use_tmpfile, countVars>>

(***************************************************************************)
(* process_one_file_dir()                                                  *)
(***************************************************************************)

MakeDir ==
    /\ rpc = "dir"
    /\ LET rc == DirError(dst, name, validate_flags)
       IN  IF rc # 0 THEN do_exit(rc, TRUE) /\ UNCHANGED <<dst, total_bytes>>
           ELSE IF CreateError(dst, name) = 0
           THEN /\ dst' = Put(dst, name, MkNode("dir", "rwx", 0, <<>>, <<>>))
                /\ GoOn("hdr")
                /\ UNCHANGED total_bytes
           ELSE /\ total_bytes' = total_bytes + DirSize
                /\ fix_times_and_perms(name, "hdr")
    /\ Quiet
    /\ NoFault
    /\ UNCHANGED <<rev, spc, full, fileVars, total_files>>

(***************************************************************************)
(* process_one_file_link()                                                 *)
(***************************************************************************)
LinkQuota ==
    /\ rpc = "link"
    /\ IF hdr.filelen > MAX_PATH_LENGTH - 1
       THEN do_exit(ENAMETOOLONG, TRUE) /\ UNCHANGED total_bytes
       ELSE /\ total_bytes' = total_bytes + hdr.filelen
            /\ IF bytes_limit # 0 /\ total_bytes' > bytes_limit
               THEN do_exit(EDQUOT, TRUE)
               ELSE GoOn("target")
    /\ Quiet
    /\ NoFault
    /\ UNCHANGED <<rev, spc, treeVars, fileVars, total_files>>

(* The target has been read. *)
StoreLink(target) ==
    LET rc == LinkError(dst, name, target, validate_flags)
    IN  IF rc # 0 THEN do_exit(rc, TRUE) /\ UNCHANGED dst
        ELSE /\ dst' = Put(dst, name,
                           MkNode("link", "final", Len(target), <<>>, target))
             /\ GoOn("hdr")

(* A garbled header may announce a target of no length. *)
MakeLink ==
    /\ rpc = "target"
    /\ \/ Receive /\ \E item \in Incoming : StoreLink(item.v)
       \/ hdr.filelen = 0 /\ Quiet /\ StoreLink(<<>>)
    /\ NoFault
    /\ UNCHANGED <<rev, spc, full, fileVars, countVars>>

(* symlinkat() fails for a reason of its own. *)
LinkFails ==
    /\ rpc = "target"
    /\ Receive
    /\ \E item \in Incoming : LinkError(dst, name, item.v, validate_flags) = 0
    /\ Fault
    /\ do_exit(EIO, TRUE)
    /\ UNCHANGED <<rev, spc, treeVars, fileVars, countVars>>

(* openat(), linkat(), mkdirat(), fchmod() or futimens() fails for a       *)
(* reason of its own once the checks before it have passed; when it is     *)
(* futimens(), the mode has been set.                                      *)
FileSystemError ==
    /\ \/ rpc = "reg" /\ RegError(dst, name, validate_flags) = 0
       \/ rpc = "dir" /\ DirError(dst, name, validate_flags) = 0
       \/ rpc = "fix" /\ hdr.nsec
       \/ rpc = "linkat"
    /\ Fault
    /\ do_exit(EIO, TRUE)
    /\ \/ UNCHANGED dst
       \/ /\ rpc \in {"fix", "dir"} /\ hdr.nsec
          /\ Exists(dst, name)
          /\ dst' = [dst EXCEPT ![name].perm = "final"]
    /\ Quiet
    /\ UNCHANGED <<rev, spc, full, fileVars, countVars>>

(***************************************************************************)
(* The tail of do_unpack_ext(), and send_status_and_crc().                 *)
(***************************************************************************)

(* Mutant: the status is errno after syncfs() and not the one saved. *)
Sync_ForgetsErrno ==
    /\ rpc = "sync"
    /\ \/ NoFault /\ rCode' = 0
       \/ Fault /\ rCode' = EIO
    /\ rpc' = "result"
    /\ Quiet
    /\ UNCHANGED <<rev, spc, rIn, treeVars, fileVars, countVars, marker, withName, replied>>

(* syncfs() may fail; its errno replaces the one saved. *)
Sync ==
    /\ rpc = "sync"
    /\ \/ NoFault /\ UNCHANGED rCode
       \/ Fault /\ rCode' = EIO
    /\ rpc' = "result"
    /\ Quiet
    /\ UNCHANGED <<rev, spc, rIn, treeVars, fileVars, countVars, marker, withName, replied>>

(* write_all() to a packer that has gone fails and is only reported. *)
Reply(item, next) ==
    /\ \/ ~PackerGone /\ CanWrite(rev, RevCap) /\ rev' = Append(rev, item)
       \/ PackerGone /\ UNCHANGED rev
    /\ rpc' = next
    /\ rIn' = (rIn /\ next # "exit")

SendResult ==
    /\ rpc = "result"
    /\ Reply(Result(rCode, crcR), IF withName THEN "ext" ELSE "exit")
    /\ replied' = ~PackerGone
    /\ Quiet
    /\ NoFault
    /\ UNCHANGED <<spc, treeVars, fileVars, countVars, marker, rCode, withName>>

SendExt ==
    /\ rpc = "ext"
    /\ Reply(Ext, "exit")
    /\ Quiet
    /\ NoFault
    /\ UNCHANGED <<spc, treeVars, fileVars, countVars, replyVars>>

(***************************************************************************)
(* Faults of the receiving side: it is killed, or other programs fill and  *)
(* free the disk.                                                          *)
(***************************************************************************)
KillUnpacker ==
    /\ rpc # "exit"
    /\ Fault
    /\ rpc' = "exit"
    /\ rIn' = FALSE
    /\ Quiet
    /\ UNCHANGED <<rev, spc, treeVars, fileVars, countVars, replyVars>>

DiskFills ==
    /\ ~full
    /\ Fault
    /\ full' = TRUE
    /\ Quiet
    /\ UNCHANGED <<rev, spc, rpc, rIn, dst, fileVars, countVars, replyVars>>

DiskFrees ==
    /\ full
    /\ NoFault
    /\ full' = FALSE
    /\ Quiet
    /\ UNCHANGED <<rev, spc, rpc, rIn, dst, fileVars, countVars, replyVars>>

UnpackStep ==
    \/ ReadPart
    \/ ReadHeader
    \/ ReadHeaderEof
    \/ ReadName
    \/ ReadEof
    \/ OpenReg
    \/ CheckQuota
    \/ WaitSpace
    \/ CopyChunk
    \/ CopyNoSpace
    \/ LinkTmpfile
    \/ FixReg
    \/ MakeDir
    \/ LinkQuota
    \/ MakeLink
    \/ Sync
    \/ SendResult
    \/ SendExt
=============================================================================
