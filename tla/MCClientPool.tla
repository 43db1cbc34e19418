----------------------------- MODULE MCClientPool -----------------------------
(* ClientPool for TLC: model values, and their symmetry.                   *)
EXTENDS ClientPool, TLC

CONSTANTS connector, main

MCClosers == {connector, main}

Symmetry == Permutations(Conns) \cup Permutations(Handlers)
=============================================================================
