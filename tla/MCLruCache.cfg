CONSTANTS
    k1 = k1
    k2 = k2
    k3 = k3
    small = small
    medium = medium
    large = large
    Miss = Miss
    Keys = {k1, k2, k3}
    Values = {small, medium, large}
    Size <- MCSize
    MaxSize = 3
    DefaultTTL = 1
    TTLs <- MCTTLs
    Patterns <- MCPatterns
SPECIFICATION Spec
INVARIANTS
    StructuresAgree
PROPERTIES
    ImplementsContract
    EvictsLeastRecent
    ExpiredGo
