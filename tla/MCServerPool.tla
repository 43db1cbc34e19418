----------------------------- MODULE MCServerPool -----------------------------
(* ServerPool for TLC: model values, and their symmetry.                   *)
EXTENDS ServerPool, TLC

CONSTANTS cleaner, main

WithShutdown == {cleaner, main}
WithoutShutdown == {cleaner}

Symmetry == Permutations(Conns) \cup Permutations(Handlers)

=============================================================================
