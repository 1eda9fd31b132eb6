--------------------------- MODULE MCProxySources ---------------------------
(* ProxySources on a small instance: two maps, one of WPAD and a PAC, one of *)
(* WPAD alone.                                                               *)
EXTENDS ProxySources, TLC

CONSTANTS m1, m2

MCChainOf == [m \in Map |-> IF m = m1 THEN <<"WPAD", "PAC">> ELSE <<"WPAD">>]
Symmetry == Permutations(Thread)
=============================================================================
