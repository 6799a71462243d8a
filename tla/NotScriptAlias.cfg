\* A loop device of somebody else, given by another name.
SPECIFICATION Spec
CONSTANTS
    Vbds = {"v1", "v2"}
    ParamChoices <- AliasParams
    Opened = {"missing", "0"}
    Uapi = TRUE
    MaxLoops = 3
    retry_limit = 2
    MaxGrabs = 0
    MaxFaults = 0
PROPERTIES
    DetachesOnlyOwn
