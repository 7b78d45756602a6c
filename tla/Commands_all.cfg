SPECIFICATION Spec
CONSTANTS
    MaxDaemons = 2
    MaxSessions = 2
    MaxCrashes = 1
    Procs = {p1, p2}
    Keys = {k1, k2}
    MaxCommands = 3
    MaxAges = 1
INVARIANTS
    FilesLeadToServer
    BindingsSound
PROPERTIES
    StopTellsTruth
    CloseSticks
SYMMETRY Symmetry
CHECK_DEADLOCK FALSE
