----------------------------- MODULE MCFileTrees -----------------------------
(* Instances of FileTrees for TLC. *)
EXTENDS FileTrees, TLC

\* Sound for the safety runs: no property names an endpoint, a tree or a root.
Symmetry == Permutations(Endpoints) \cup Permutations(Trees) \cup Permutations(Roots)

\* What the safety run distinguishes: no guard and none of its properties reads open
\* or abandoned.
Seen ==
    <<registryVars, scan, root, size, subs, evt, endpointVars, frameVars, down, leaked>>
=============================================================================
