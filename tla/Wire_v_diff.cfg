SPECIFICATION Spec
CONSTANTS
    Lost = Lost
    Malformed = Malformed
    Primitives <- Known
    Alphabet <- Typed
    MaxText = 0
    MaxTyped = 0
    MaxForm = 12
    MaxEdits = 1
    MaxCalls = 1
    MaxLosses = 0
INVARIANT
    DeltaExact
CHECK_DEADLOCK FALSE
