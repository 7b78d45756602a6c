SPECIFICATION FairSpec
CONSTANTS
    Clients = {c1, c2}
    Trees = {t1, t2}
    Urls = {u1}
    Args = {a1}
    NoTree = NoTree
    NoUrl = NoUrl
    NoClient = NoClient
    Ops = {"act", "token_change", "close"}
    MaxCalls = 2
    MaxHandles = 3
    MaxPolls = 1
    MaxDrift = 1
    MaxFaults = 0
    MaxReaps = 1
    MaxExpiries = 0
PROPERTIES
    CallsFinish
