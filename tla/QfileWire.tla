----------------------------- MODULE QfileWire -----------------------------
(***************************************************************************)
(* The qfile stream: its items, the two pipes between the packer and the   *)
(* unpacker, and the source tree the packer walks.  Both programs use one  *)
(* another only through these pipes (stdin and stdout of each).            *)
(***************************************************************************)
EXTENDS IncomingTree

CONSTANTS
    SrcTree,          \* what the packer's file system holds, by path
    FwdCap,           \* items that fit in the pipe to the unpacker
    RevCap,           \* items that fit in the pipe back to the packer
    MAX_PATH_LENGTH,  \* longest name, in the unit of NameLen
    LLONG_MAX,        \* largest signed file length
    MaxFaults,        \* bound on the faults of one behaviour
    Garbage,          \* what changed or misread bytes may look like, as items
    MaxReads          \* bound on the reads that end inside one item

ASSUME QfileWireAssumption ==
    /\ SrcTree \in [DOMAIN SrcTree -> Node]
    /\ DOMAIN SrcTree \subseteq Paths
    /\ \A p \in DOMAIN SrcTree :
          /\ SrcTree[p].kind # "none"
          /\ SrcTree[p].perm = "final" /\ WellFormed(SrcTree[p])
          /\ SrcTree[p].kind = "link" => SrcTree[p].target # <<>>
          /\ \A n \in 1..(Len(p) - 1) : /\ SubSeq(p, 1, n) \in DOMAIN SrcTree
                                       /\ SrcTree[SubSeq(p, 1, n)].kind = "dir"
    /\ FwdCap \in Nat \ {0}
    /\ RevCap \in Nat \ {0}
    /\ MAX_PATH_LENGTH \in Nat \ {0}
    /\ LLONG_MAX \in Nat
    /\ MAX_PATH_LENGTH - 1 <= LLONG_MAX
    /\ MaxFaults \in Nat
    /\ MaxReads \in Nat \ {0}

VARIABLES
    fwd,     \* packer's stdout to unpacker's stdin
    rev,     \* unpacker's stdout to packer's stdin
    spc,     \* where the packer is; "exit" once it has ended
    rpc,     \* where the unpacker is; "exit" once it has ended
    rIn,     \* the unpacker still has its stdin open
    faults   \* faults that have happened

wireVars == <<fwd, rev, spc, rpc, rIn, faults>>

(***************************************************************************)
(* The code crosses the wire as a uint32_t.  2^30 stands for the modulus:  *)
(* it is above every errno and LEGAL_EOF, and keeps a negative code as far *)
(* from all of them as 2^32 does.                                          *)
(***************************************************************************)
U32Modulus == 1073741824

U32(code) == code % U32Modulus

(***************************************************************************)
(* Items of the stream.  A header announces the length of the name and of  *)
(* the data that follow; a header with an empty name is the end marker.    *)
(* Lengths count components and chunks instead of bytes.  A name and a     *)
(* target take len on the wire, the value may end before that (at a NUL).  *)
(***************************************************************************)
NameLen(p) == Len(p) + 1

Header(kind, namelen, filelen, nsec) ==
    [t |-> "hdr", kind |-> kind, namelen |-> namelen,
     filelen |-> filelen, nsec |-> nsec]

Headers ==
    [t : {"hdr"}, kind : {"none", "dir", "reg", "link", "other"},
     namelen : Nat, filelen : Nat, nsec : BOOLEAN]

NameItem(p) == [t |-> "name", name |-> p, len |-> NameLen(p)]
DataItem(v) == [t |-> "data", v |-> v]
LinkItem(v) == [t |-> "target", v |-> v, len |-> Len(v)]

Targets ==
    {item \in [t : {"target"}, v : Seq(Components), len : Nat] :
        Len(item.v) <= item.len}

Items == Headers \cup [t : {"name"}, name : Paths, len : Nat]
                 \cup [t : {"data"}, v : Chunks]
                 \cup Targets

ASSUME GarbageAssumption == Garbage \subseteq Items

EndMarker == Header("none", 0, 0, TRUE)

Result(code, crc) == [t |-> "result", code |-> code, crc |-> crc]
Ext == [t |-> "ext"]

(* The checksum is abstracted to the sequence of the items it covers: two  *)
(* streams have the same checksum only if they are the same.               *)
Checksum == Seq(Items)

Replies == [t : {"result"}, code : 0..(U32Modulus - 1), crc : Checksum] \cup {Ext}

(***************************************************************************)
(* The ends of the pipes (ioall.c on top of read() and write()).           *)
(***************************************************************************)
PackerGone   == spc = "exit"
UnpackerGone == rpc = "exit"

CanWrite(pipe, cap) == Len(pipe) < cap

(* write() of the packer fails with EPIPE (SIGPIPE is ignored, pack.c:246) *)
(* once nobody can read the pipe any more.                                 *)
FwdBroken == ~rIn

(* read() of the unpacker returns 0: nothing buffered, nobody to write.    *)
FwdEof == fwd = <<>> /\ PackerGone

RevEof == rev = <<>> /\ UnpackerGone

(***************************************************************************)
(* A transport fault garbles one item in flight.  A garbled header may     *)
(* announce another type, other lengths, a bad time stamp or the end of    *)
(* the copy; a name, a target and data become others that take as long.    *)
(***************************************************************************)
Garbled(item) ==
    {g \in Garbage : /\ g.t = item.t /\ g # item
                     /\ item.t \in {"name", "target"} => g.len = item.len}

Garble(i) ==
    /\ faults < MaxFaults
    /\ faults' = faults + 1
    /\ \E item \in Garbled(fwd[i]) : fwd' = [fwd EXCEPT ![i] = item]
    /\ UNCHANGED <<rev, spc, rpc, rIn>>

Fault == faults < MaxFaults /\ faults' = faults + 1
NoFault == UNCHANGED faults
=============================================================================
