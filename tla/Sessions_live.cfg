SPECIFICATION FairSpec
CONSTANTS
    Clients = {c1, c2}
    Reaper = reaper
    MaxSessions = 1
    MaxPages = 1
    MaxCalls = 4
    MaxTicks = 2
    MaxSweeps = 4
    MaxFaults = 0
    MaxCrashes = 0
    Calls = {"session_open", "open", "close", "use"}
PROPERTIES
    IdlePageReaped
