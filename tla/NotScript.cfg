\* Two images, or an image and a device that exists, attached and detached.
SPECIFICATION Spec
CONSTANTS
    Vbds = {"v1", "v2"}
    ParamChoices <- UsualParams
    Opened = {"missing", "0"}
    Uapi = TRUE
    MaxLoops = 3
    retry_limit = 1
    MaxGrabs = 1
    MaxFaults = 1
INVARIANTS
    NoLeak
PROPERTIES
    DetachesOnlyOwn
    BackendGetsTheImage
