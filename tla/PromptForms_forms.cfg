SPECIFICATION Spec
CONSTANTS
    Agents = {a1, a2}
    Humans = {h1}
    Asks <- AllAsks
    MaxFields = 2
    MaxAsks = 2
    MaxPrompts = 0
    MaxWaits = 2
    MaxLooks = 0
    MaxAged = 1
    MaxMoves = 0
    MaxFaults = 0
    MaxTokens = 1
SYMMETRY Symmetry
INVARIANTS
    QueueSound
    FormTypingKept
    FormAnswerTrue
PROPERTIES
    SupersededByTwin
