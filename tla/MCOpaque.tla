------------------------------ MODULE MCOpaque ------------------------------
(* Symmetry of the bounded checks of Opaque.                               *)
EXTENDS Opaque, TLC

Interchangeable == Permutations(User) \cup Permutations(Password)
=============================================================================
