\* One cook with an empty stock.
CONSTANTS
    NCooks = 1
    Pizza = {p1, p2}
    NoPizza = NoPizza
    Ingredient = {dough}
    RecipeOf <- MCRecipeOf
    InitialStock = 0
    MaxSizeT = 3
    MaxTicks = 2
    MaxStatus = 1
SPECIFICATION KitchenSpec
PROPERTIES
    StatusIsAnswered
    EveryKitchenEnds
    KeepsContractPromises
