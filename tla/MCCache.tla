------------------------------ MODULE MCCache ------------------------------
(***************************************************************************)
(* Instances of Cache for TLC: two recipes that share an include file or a *)
(* class; the second also sets __BB_DONT_CACHE where the .cfg says so.     *)
(***************************************************************************)
EXTENDS Cache, TLC

TwoRecipes == <<"app.bb", "lib.bb">>
Shared == [f \in {"app.bb", "lib.bb"} |-> {"common.inc"}]

OneRecipe == <<"app.bb">>
Own == [f \in {"app.bb"} |-> {"common.inc"}]
=============================================================================
