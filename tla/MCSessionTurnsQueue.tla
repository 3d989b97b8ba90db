------------------------ MODULE MCSessionTurnsQueue ------------------------
(* Small instances of SessionTurnsQueue for TLC. *)
EXTENDS SessionTurnsQueue, TLC

InputSymmetry == Permutations(Inputs)
=============================================================================
