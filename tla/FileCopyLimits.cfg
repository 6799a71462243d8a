\* Limits that the tree exceeds, directories counted too late, and a packer
\* that ignores quota errors; pipes of one item, so that the reply does not fit
\* while the packer is blocked on the other pipe.
SPECIFICATION FairSpec
CONSTANTS
    Names = {"d", "f", "l"}
    UnsafeNames = {}
    MaxDepth = 2
    Chunks = {"c1", "c2"}
    SrcTree <- QuotaTree
    FwdCap = 1
    RevCap = 1
    MAX_PATH_LENGTH = 5
    LLONG_MAX = 4
    MaxFaults = 0
    Garbage <- NoGarbage
    MaxReads = 1
    IgnoreSymlinks = FALSE
    IgnoreQuotaError = TRUE
    CopyFlags = {"SYMLINKS", "DIRECTORIES"}
    InitDsts <- NoDst
    bytes_limit = 3
    files_limit = 3
    WaitForSpace = TRUE
    ProcFd = TRUE
    DirSize = 1
INVARIANTS
    LimitsHold
    FailureIsExplained
PROPERTIES
    Terminates
