SPECIFICATION Spec
CONSTANTS
    Clients = {c1}
    Trees = {t1, t2}
    Urls = {u1}
    Args = {a1}
    NoTree = NoTree
    NoUrl = NoUrl
    NoClient = NoClient
    Ops = {"view", "act", "cursor_op", "type_text", "navigate", "viewport", "auth_load"}
    MaxCalls = 4
    MaxHandles = 2
    MaxPolls = 1
    MaxDrift = 1
    MaxFaults = 0
    MaxReaps = 1
    MaxExpiries = 1
SYMMETRY Symmetry
INVARIANTS
    AtMostOnce
    ResponseRebuildsPage
    ExecutedTokenValid
