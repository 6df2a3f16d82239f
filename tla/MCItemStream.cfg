CONSTANTS
    Sources <- MCSources
    BatchSize = 2
SPECIFICATION StreamSpec
INVARIANTS
    HandsOverAll
    NoSendOnClosed
PROPERTIES
    CancelledCallsEnd
