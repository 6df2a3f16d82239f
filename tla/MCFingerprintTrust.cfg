CONSTANTS
    c1 = c1
    c2 = c2
    h1 = h1
    h2 = h2
    f1 = f1
    f2 = f2
    NoHost = NoHost
    NoTemp = NoTemp
    Clients = {c1, c2}
    Hosts = {h1, h2}
    HostOf <- MCHostOf
    Fingerprints = {f1, f2}
    Seeded <- MCSeeded
    ModesOf <- MCModesOf
    MaxStarts = 4
SPECIFICATION Spec
CHECK_DEADLOCK FALSE
INVARIANTS
    TrustIsApproved
    SavesAreWhole
PROPERTIES
    NotAskedAgain
    LockIsReleased
