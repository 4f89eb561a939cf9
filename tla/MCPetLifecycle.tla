--------------------------- MODULE MCPetLifecycle ---------------------------
(***************************************************************************)
(* Instances of PetLifecycle for TLC: calls are interchangeable.            *)
(***************************************************************************)
EXTENDS PetLifecycle, TLC

Symmetry == Permutations(Call)
=============================================================================
