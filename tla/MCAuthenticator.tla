---------------------------- MODULE MCAuthenticator ----------------------------
(* Three ids for two places, so that a place is used again after a revoke; *)
(* a cache of two, so that it rolls over.                                  *)
EXTENDS Authenticator, TLC

CONSTANTS c1, c2, c3, n1, n2, nobody

MCClients == {c1, c2, c3}
MCNonces  == {n1, n2}
MCTimes   == 0..2

Symmetry == Permutations(MCClients) \cup Permutations(MCNonces)
================================================================================
