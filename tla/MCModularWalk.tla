--------------------------- MODULE MCModularWalk ---------------------------
(* Instances of ModularWalk for TLC. *)
EXTENDS ModularWalk

MCModSizes == 1..3

============================================================================
