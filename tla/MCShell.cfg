\* Two lines and a symbol more: both can arrive in one read, or in halves.
CONSTANT MaxText = 4
SPECIFICATION ShellSpec
INVARIANTS
    InputConserved
PROPERTIES
    EveryLineIsHandled
    KitchensAreRead
