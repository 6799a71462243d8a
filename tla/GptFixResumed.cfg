\* A repair cut short, and run again on the same device.
SPECIFICATION Spec
CONSTANTS
    Units = 64
    Layouts <- SomeLayouts
    Lost = {{}}
    Mbrs = {"protective"}
    MaxRuns = 2
INVARIANTS
    OkMeansPrimary
