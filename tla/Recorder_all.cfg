SPECIFICATION Spec
CONSTANTS
    Platforms = {"webkit", "wpe", "webview2"}
    Workers = {w1, w2}
    MaxRecordings = 2
    MaxRequests = 2
    cap_limit = 2
    give_up_after = 1
INVARIANTS
    WakeupNotLost
    RecordingsSound
PROPERTIES
    EngineIsAtomic
    RecordingsEnd
CHECK_DEADLOCK FALSE
