SPECIFICATION Spec
CONSTANTS
    Inodes <- MCInodes
    Root = 0
    Lpf = 1
    Trees <- MCTrees
    uname = "6.1"
    Modules = {"modules.dep"}
    Prefixes <- MCPrefixes
CHECK_DEADLOCK FALSE
INVARIANTS LabelsAreRight ImmutableIsRight
