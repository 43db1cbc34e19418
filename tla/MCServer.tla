------------------------------- MODULE MCServer -------------------------------
(* Server for TLC: clients, pools and registrations are alike.             *)
EXTENDS Server, TLC

Symmetry == Permutations(Clients) \cup Permutations(Pools) \cup Permutations(Conns)
=============================================================================
