\* An int of 3 bits wraps at 4 pizzas, a size_t of 4 bits holds 15.
CONSTANTS
    MaxInt = 3
    MaxSizeT = 15
    MaxLine = 5
    Lines <- MCLines
SPECIFICATION OrdersSpec
INVARIANTS
    ParsedAsMeant
    NotedIsSent
    MadeIsOrdered
