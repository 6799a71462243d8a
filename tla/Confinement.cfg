\* Four objects over two names, paths of up to three components.
SPECIFICATION Spec
CONSTANTS
    Names = {"a", "b"}
    UnsafeNames = {}
    MaxDepth = 3
    Chunks = {"c"}
    Targets <- SomeTargets
    Flags = {"NON_CANONICAL_SYMLINKS"}
    MaxObjects = 4
    MaxLinkHops = 3
INVARIANTS
    Confined
    ConfinementInv
    ParentsAreDirs
\* A tree of files only has no directory to store or to look in.
CHECK_DEADLOCK FALSE
