--------------------------- MODULE MCSessionStream ---------------------------
(* Small instances of SessionStream for TLC. *)
EXTENDS SessionStream

StreamSymmetry == Permutations(Streams)
=============================================================================
