SPECIFICATION Spec
CONSTANTS
    Lost = Lost
    Malformed = Malformed
    Primitives <- Known
    Alphabet <- Typed
    MaxText = 2
    MaxTyped = 1
    MaxForm = 12
    MaxEdits = 2
    MaxCalls = 3
    MaxLosses = 1
INVARIANTS
    MirrorFollows
    AnswersTrue
    ArrivesAsSent
    CommandsUnderstood
CHECK_DEADLOCK FALSE
