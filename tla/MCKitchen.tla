------------------------------ MODULE MCKitchen ------------------------------
(* Kitchen with pizzas that all need one scarce ingredient.                *)
EXTENDS Kitchen, TLC

MCRecipeOf == [p \in Pizza |-> Ingredient]
Symmetry == Permutations(Pizza)
=============================================================================
