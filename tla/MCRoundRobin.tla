---------------------------- MODULE MCRoundRobin ----------------------------
(* RoundRobin over Cached on a small instance: two lists of two and three    *)
(* proxies, and a position table that holds one of them.                     *)
EXTENDS RoundRobin, TLC

CONSTANTS pair, triple

Sizes == (pair :> 2) @@ (triple :> 3)

Symmetry == Permutations(Thread) \cup Permutations(Url)
=============================================================================
