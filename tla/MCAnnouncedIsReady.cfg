\* Kitchens of one cook; one order can fill one, so that the next opens a second.
CONSTANTS
    NCooks = 1
    NoPizza = NoPizza
    MaxKitchens = 2
    MaxOrders = 2
    MaxSize = 2
    MaxWork = 4
    MaxStatus = 1
SPECIFICATION ReceptionSpec
INVARIANTS
    AnnouncedIsReady
