CONSTANTS
    p1 = p1
    p2 = p2
    Callers = {p1, p2}
    MaxReconnectAttempts = 2
    MaxConns = 2
    MaxCalls = 2
SPECIFICATION Spec
\* The program may stop calling.
CHECK_DEADLOCK FALSE
INVARIANTS
    AttemptsCanSucceed
