------------------------------ MODULE MCDevice ------------------------------
(* Two cameras behind the null renderer, or the null renderer alone.         *)
EXTENDS Device

CONSTANTS Renderer, Front, Back

MCInventory == {<<Renderer, Front, Back>>, <<Renderer>>}
=============================================================================
