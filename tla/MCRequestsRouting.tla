------------------------- MODULE MCRequestsRouting -------------------------
(* RequestsRouting on a small instance: a patched session that trusts the    *)
(* environment and one that does not, and one with an adapter and a proxy of *)
(* its own.                                                                  *)
EXTENDS RequestsRouting

CONSTANTS patched, untrusting, mounted

Only(k, v) == [Empty EXCEPT ![k] = v]
MCOwnProxies ==
    [s \in Session |-> IF s = mounted THEN Only("scheme", <<"session", "plain">>) ELSE Empty]
MCGiven ==
    {Only("host", <<"call", "plain">>), Only("scheme", <<"call", "chain">>),
     Only("all", <<"call", "plain">>), Only("other", <<"call", "plain">>)}
=============================================================================
