\* All requests end, and the caller may do nothing more.
CHECK_DEADLOCK FALSE
CONSTANTS
    r1 = r1
    r2 = r2
    Requests = {r1, r2}
    Kinds = {"call", "upload", "login"}
    MaxTickets = 2
    MaxUserOps = 0
    MaxUpsets = 2
SPECIFICATION Spec
PROPERTIES
    RequestsEnd
