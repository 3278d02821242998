\* Two cooks and one pizza more than the pool may hold.
CONSTANTS
    Cook = {c1, c2}
    Pizza = {p1, p2, p3, p4, p5}
    NoPizza = NoPizza
SPECIFICATION Spec
INVARIANTS
    LoadIsExact
    EachPizzaInOnePlace
    NoWakeupLost
    QuietStopIsSafe
PROPERTIES
    EveryPizzaCooked
    StopTerminates
