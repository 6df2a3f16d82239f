\* All requests end, and the caller may do nothing more.
CHECK_DEADLOCK FALSE
CONSTANTS
    r1 = r1
    r2 = r2
    Requests = {r1, r2}
    Kinds = {"call", "upload", "login"}
    MaxTickets = 3
    MaxUserOps = 1
    MaxUpsets = 2
SYMMETRY Symmetry
SPECIFICATION Spec
INVARIANTS
    OneAutoLogin
    FailedLoginRearms
    ReplayNotWithRefused
    HeadersFromOneTicket
    UndisturbedCallsSucceed
