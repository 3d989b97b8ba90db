--------------------------- MODULE MCFileTreeSync ---------------------------
(* Instances of FileTreeSync for TLC. *)
EXTENDS FileTreeSync

\* Sound for the safety run: no property names a directory.
Symmetry == Permutations(Dirs)
=============================================================================
