SPECIFICATION Spec
CONSTANTS
    Values = {v1, v2}
    NoValue = NoValue
    Capacity = 2
    MaxAdmitted = 4
INVARIANTS
    HoldsTheRest
PROPERTIES
    ClosedAdmitsNothing
    ImplementsChannel
