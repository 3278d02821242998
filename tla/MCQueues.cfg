\* A run of one or two kitchens, one after it, and two faults in any place.
CONSTANTS
    None = None
    MaxRuns = 2
    MaxKitchens = 2
    MaxInodes = 5
    MaxFaults = 2
    MaxProcesses = 3
SPECIFICATION QueueSpec
INVARIANTS
    OwnQueuesOnly
    CalmRunIsUndisturbed
    CleanEnd
PROPERTIES
    ShutdownReturns
    OrphansEnd
