SPECIFICATION FairSpec
CONSTANTS
    Agents = {a1}
    Humans = {h1, h2}
    Asks <- OneAsk
    MaxFields = 2
    MaxAsks = 1
    MaxPrompts = 1
    MaxWaits = 2
    MaxLooks = 2
    MaxAged = 0
    MaxMoves = 1
    MaxFaults = 1
    MaxTokens = 1
INVARIANTS
    LinkSingleUse
PROPERTIES
    TypedFormAnswered
