-------------------------- MODULE MCIngredientStock --------------------------
(* IngredientStock with the real recipes, cut down to the ingredients that *)
(* distinguish two of them.                                                *)
EXTENDS IngredientStock, Menu

MCIngredient == {"dough", "ham", "steak"}
MCRecipes == {Needed(type) \cap MCIngredient : type \in {"Regina", "Americana"}}
=============================================================================
