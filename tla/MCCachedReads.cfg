CONSTANTS
    r1 = r1
    w1 = w1
    base = base
    node = node
    path = path
    all = all
    Miss = Miss
    Readers = {r1}
    Waiters = {w1}
    Hosts = {base, node}
    Paths = {path}
    TaskUrl <- MCTaskUrl
    Everything = all
    MaxVersion = 1
SPECIFICATION Spec
INVARIANTS
    ReadsAreAnswers
    FreshAfterClear
PROPERTIES
    ReadsDoNotGoBack
    WaitEnds
