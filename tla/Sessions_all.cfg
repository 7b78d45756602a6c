SPECIFICATION Spec
CONSTANTS
    Clients = {c1, c2}
    Reaper = reaper
    MaxSessions = 2
    MaxPages = 2
    MaxCalls = 5
    MaxTicks = 2
    MaxSweeps = 2
    MaxFaults = 1
    MaxCrashes = 1
    Calls = {"session_open", "session_close", "sweep", "open", "close", "use"}
SYMMETRY Symmetry
INVARIANTS
    TypeOK
    MemoryBacked
    ToldPageKept
    ClosedStaysClosed
    ViewsMatchPages
