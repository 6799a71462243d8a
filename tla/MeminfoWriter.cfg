\* A qube of two sizes; use around the threshold and around the point where
\* little memory is left.
SPECIFICATION Spec
CONSTANTS
    Sizes = {117, 130}
    Usage = {0, 100, 107, 113}
    Swap = {0, 11}
    Threshold = 10
    MaxSignals = 1
INVARIANTS
    TypeOK
    StableReading
    ReportIsClose
PROPERTIES
    SignalStartsWork
