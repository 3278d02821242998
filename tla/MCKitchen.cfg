\* One cook: the third pizza can find the pool full.
CONSTANTS
    NCooks = 1
    Pizza = {p1, p2, p3}
    NoPizza = NoPizza
    Ingredient = {dough}
    RecipeOf <- MCRecipeOf
    InitialStock = 1
    MaxSizeT = 3
    MaxTicks = 2
    MaxStatus = 1
SYMMETRY Symmetry
SPECIFICATION KitchenSpec
INVARIANTS
    KitchenTypeOK
    CreditIsExact
    OnlyCommandedKitchensAbort
    EndsInOrder
PROPERTIES
    RefusedOnlyInReleaseWindow
    ImplementsContract
