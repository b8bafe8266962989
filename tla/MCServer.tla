------------------------------ MODULE MCServer ------------------------------
(* Server with a few sessions and clients.                                  *)
EXTENDS Server, TLC

CONSTANTS c1, c2

OneClient == {c1}
TwoClients == {c1, c2}
ClientSymmetry == Permutations({c1, c2})
=============================================================================
