--------------------------- MODULE MCSessionTurns ---------------------------
(* Small instances of SessionTurns for TLC. *)
EXTENDS SessionTurns, TLC

\* Inputs cannot be a symmetry set where a leads-to property is checked.
InputSymmetry == Permutations(Inputs)
=============================================================================
