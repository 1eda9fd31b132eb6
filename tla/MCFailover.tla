----------------------------- MODULE MCFailover -----------------------------
(* Failover on a small instance.  a and b are one server spoken to with two  *)
(* schemes, so they share a breaker key; n has no port.  One sender marks    *)
(* what it finds bad, for longer than a prober does; one has a ttl of 0 and  *)
(* only learns; one does not fail over.  Each uses a library of its own.     *)
EXTENDS Failover

CONSTANTS a, b, c, n, k1, k2, k3, marks, learns, plain

MCKeyOf == [p \in Proxy |-> CASE p \in {a, b} -> k1 [] p = c -> k2 [] p = n -> k3]
MCAnswers == {<<a, c>>, <<b, n, Direct>>, <<Direct, c>>}
MCFailsOver == [s \in Sender |-> s # plain]
MCTtlOf == [s \in Sender |-> IF s = learns THEN 0 ELSE 2]
MCLibraryOf ==
    [s \in Sender |-> CASE s = marks -> "requests" [] s = learns -> "aiohttp" [] OTHER -> "httpx"]

(* Bound: a prober runs beside the one sender, or the three beside each other. *)
FewAtOnce ==
    \/ \A q \in Prober : answer[q] = << >>
    \/ \A s \in Sender \ {marks} : given[s] = << >>
=============================================================================
