\* More calls than the initial pieces serve, so that cooks have to wait.
CONSTANTS
    Client = {c1, c2}
    Ingredient <- MCIngredient
    Recipes <- MCRecipes
    InitialStock = 1
    MaxSizeT = 7
    MaxCalls = 4
    MaxTicks = 4
SPECIFICATION StockSpec
INVARIANTS
    NeverOverdrawn
    NobodySleepsBesideAFullShelf
PROPERTIES
    EveryCallReturns
