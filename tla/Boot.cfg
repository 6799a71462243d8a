SPECIFICATION BootSpec
CONSTANTS
    Units = 64
    Layouts <- AllLayouts
    Lost = {{}, {"primary"}, {"backup"}}
    Mbrs = {"protective", "none", "other", "offset", "bpb"}
    MaxRuns = 3
INVARIANTS
    OneGoodGpt
    NoWrongGpt
    RepairIsComplete
    AssertsHold
    DataKept
    WholeOnlyIfBare
    NodesAreRight
    CowIfReadOnly
PROPERTIES
    BootEnds
