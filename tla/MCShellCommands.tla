--------------------------- MODULE MCShellCommands ---------------------------
(* Small instances of ShellCommands for TLC. *)
EXTENDS ShellCommands, TLC

\* Commands cannot be a symmetry set where a leads-to property is checked.
CommandSymmetry == Permutations(Commands)
=============================================================================
