CONSTANTS
    a = a
    none = none
    Names = {a}
    Unnamed = none
    Count = 2
    Offers <- MCOffers
    MaxBatchSize = 3
    MaxConcurrency = 2
    MaxRetries = 1
    Statuses = {200, 503}
SPECIFICATION Spec
INVARIANTS
    ConcurrencyBound
    Accounted
    OneAfterTheOther
PROPERTIES
    ExecuteReturns
