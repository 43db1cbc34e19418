------------------------------ MODULE MCExchange ------------------------------
(* Exchange for TLC: the requests, and the symmetry of the handlers.       *)
EXTENDS Exchange, TLC

MCRequests == 1..MaxRequests

Symmetry == Permutations(Handlers)
=============================================================================
