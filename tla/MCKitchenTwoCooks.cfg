\* Two cooks that share one scarce ingredient, and a status request.
CONSTANTS
    NCooks = 2
    Pizza = {p1, p2}
    NoPizza = NoPizza
    Ingredient = {dough}
    RecipeOf <- MCRecipeOf
    InitialStock = 0
    MaxSizeT = 3
    MaxTicks = 2
    MaxStatus = 1
SYMMETRY Symmetry
SPECIFICATION KitchenSpec
INVARIANTS
    StatusIsConsistent
PROPERTIES
    ImplementsContract
