\* The closing of kitchens races three orders of one pizza and a status.
CONSTANTS
    NCooks = 1
    NoPizza = NoPizza
    MaxKitchens = 3
    MaxOrders = 3
    MaxSize = 1
    MaxWork = 4
    MaxStatus = 1
SPECIFICATION ReceptionSpec
PROPERTIES
    EveryCallReturns
    OrdersAreAnnounced
    KeepsReceptionContract
