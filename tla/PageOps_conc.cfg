SPECIFICATION Spec
CONSTANTS
    Clients = {c1, c2}
    Trees = {t1, t2}
    Urls = {u1, u2}
    Args = {a1}
    NoTree = NoTree
    NoUrl = NoUrl
    NoClient = NoClient
    Ops = {"view", "act", "wait", "token_change", "cursor_op", "type_text", "navigate", "viewport", "auth_load", "close"}
    MaxCalls = 2
    MaxHandles = 3
    MaxPolls = 1
    MaxDrift = 1
    MaxFaults = 1
    MaxReaps = 1
    MaxExpiries = 0
SYMMETRY Symmetry
INVARIANTS
    TypeOK
    ActsSerialised
    MapHandleLive
    WaitSawChange
    RowAgrees
