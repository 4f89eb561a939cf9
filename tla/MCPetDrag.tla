----------------------------- MODULE MCPetDrag -----------------------------
(***************************************************************************)
(* PetDrag on a short line of cells.                                        *)
(***************************************************************************)
EXTENDS PetDrag

Line == 0..2
=============================================================================
