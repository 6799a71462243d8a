\* One transfer of a small tree with any two faults, into a directory in which
\* names of the transfer may be taken.  Deadlock: see Terminates.
SPECIFICATION FairSpec
CHECK_DEADLOCK FALSE
CONSTANTS
    Names = {"d", "f", "l"}
    UnsafeNames = {}
    MaxDepth = 2
    Chunks = {"c1", "c2"}
    SrcTree <- SmallTree
    FwdCap = 2
    RevCap = 2
    MAX_PATH_LENGTH = 5
    LLONG_MAX = 4
    MaxFaults = 2
    Garbage <- AnyGarbage
    MaxReads = 1
    IgnoreSymlinks = FALSE
    IgnoreQuotaError = FALSE
    CopyFlags = {"SYMLINKS", "DIRECTORIES"}
    InitDsts <- TakenDsts
    bytes_limit = 0
    files_limit = 0
    WaitForSpace = TRUE
    ProcFd = TRUE
    DirSize = 1
INVARIANTS
    TypeOK
    SuccessIsComplete
    SuccessIsAgreed
    AgreementInv
    NoPartialFile
    FailureIsExplained
    InSync
PROPERTIES
    ImplementsService
    NothingReplaced
    Terminates
