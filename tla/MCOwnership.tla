---------------------------- MODULE MCOwnership ----------------------------
(* Instances of Ownership for TLC. *)
EXTENDS OwnershipRefinement

CONSTANTS u, v

Addresses == 1 .. 4
CellAddresses == 1 .. 1

ValueSymmetry == Permutations(Values)
=============================================================================
