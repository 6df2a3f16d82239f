\* The call ends and its record stays: no next step is required of it.
CHECK_DEADLOCK FALSE
CONSTANT MaxRetries = 2
SPECIFICATION Spec
INVARIANTS
    SendBound
    WholeBody
    RetriesUsed
PROPERTIES
    ImplementsContract
    Terminates
