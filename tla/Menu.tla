-------------------------------- MODULE Menu --------------------------------
(***************************************************************************)
(* The pizzas the factory registers, the ingredients the stock knows, and  *)
(* what the rest of the program takes for granted about them.              *)
(***************************************************************************)
EXTENDS Naturals, Sequences

\* IngredientStock::kAllIngredients
AllIngredients ==
    {"dough", "tomato", "gruyere", "ham", "mushrooms", "steak", "eggplant",
     "goat cheese", "chief love"}

\* PizzaFactory: the ingredients of each built-in prototype.
Recipe ==
    [Margarita |-> <<"dough", "tomato", "gruyere">>,
     Regina    |-> <<"dough", "tomato", "gruyere", "ham", "mushrooms">>,
     Americana |-> <<"dough", "tomato", "gruyere", "steak">>,
     Fantasia  |-> <<"dough", "tomato", "eggplant", "goat cheese",
                     "chief love">>]

Needed(type) == {Recipe[type][i] : i \in DOMAIN Recipe[type]}

\* toIngredients throws on a name that kAllIngredients lacks; in a cook's
\* thread that ends the kitchen.  allAvailable only tests for one piece of
\* each ingredient, so a recipe that names one twice could take the unsigned
\* stock below 0.
ASSUME RecipesResolve ==
    \A type \in DOMAIN Recipe :
        /\ Needed(type) \subseteq AllIngredients
        /\ \A i, j \in DOMAIN Recipe[type] :
              Recipe[type][i] = Recipe[type][j] => i = j
=============================================================================
