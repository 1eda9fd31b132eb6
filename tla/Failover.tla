------------------------------ MODULE Failover ------------------------------
(***************************************************************************)
(* The send loop of the client integrations (requests.py send, httpx.py    *)
(* handle_request and handle_async_request, aiohttp.py _routed) in any     *)
(* number of threads or tasks, over the circuit breaker they share with    *)
(* each other and with the probers of ProxyHealth.  What happened to a     *)
(* request is one thing, what its library raises another, and what the     *)
(* loop makes of that a third: the loop sees only the exception.           *)
(***************************************************************************)
EXTENDS ProxyHealth

CONSTANTS
    Sender,     \* threads or tasks sending requests
    LibraryOf,  \* [Sender -> "requests", "httpx" or "aiohttp"]
    FailsOver,  \* [Sender -> BOOLEAN]: the adapter's failover option
    TtlOf,      \* [Sender -> Nat]: its bad_proxy_ttl
    MaxSends    \* bound: requests begun in all

Library == {"requests", "httpx", "aiohttp"}

ASSUME FailoverAssumption ==
    /\ LibraryOf \in [Sender -> Library]
    /\ FailsOver \in [Sender -> BOOLEAN] /\ TtlOf \in [Sender -> Nat] /\ MaxSends \in Nat

VARIABLES
    sending,     \* [Sender -> "idle", "connecting" (for its own URL), "sent", or
                 \*   "following": connecting for a redirect of its answer]
    given,       \* [Sender -> the answer the map gave for its request]
    candidates,  \* [Sender -> the entries to try, in order]
    index,       \* [Sender -> the one being tried]
    ended,       \* [Sender -> "none", "response", "unsent" or "failed"]: how it ended
    delivered,   \* history: [Sender -> times the request reached a server]
    misreported, \* history: [Sender -> times its library raised, for a request it
                 \*   had sent, what it raises for one it could not send]
    sends        \* requests begun so far

senderVars == <<sending, given, candidates, index, ended, delivered, misreported, sends>>
vars == <<healthVars, senderVars>>

Stages == {"idle", "connecting", "sent", "following"}
Ends == {"none", "response", "unsent", "failed"}

TypeOK ==
    /\ HealthTypeOK
    /\ sending \in [Sender -> Stages] /\ ended \in [Sender -> Ends]
    /\ given \in [Sender -> Seq(Entry)] /\ candidates \in [Sender -> Seq(Entry)]
    /\ index \in [Sender -> Nat] /\ sends \in 0 .. MaxSends
    /\ delivered \in [Sender -> Nat] /\ misreported \in [Sender -> Nat]

Init ==
    /\ HealthInit
    /\ sending = [s \in Sender |-> "idle"] /\ ended = [s \in Sender |-> "none"]
    /\ given = [s \in Sender |-> << >>] /\ candidates = [s \in Sender |-> << >>]
    /\ index = [s \in Sender |-> 1] /\ sends = 0
    /\ delivered = [s \in Sender |-> 0] /\ misreported = [s \in Sender |-> 0]

-----------------------------------------------------------------------------
(* What the libraries raise, and what the loop takes for "never sent".       *)

(* A connection that could not be made: to the proxy, through it, or to the   *)
(* server.  A gateway is spoken to like a server.                            *)
ConnectErrors(library, entry) ==
    CASE library = "requests" -> {"ConnectTimeout", "NewConnectionError", "SSLError"}
                                 \cup (IF entry = Direct THEN {} ELSE {"ProxyError"})
      [] library = "httpx"    -> {"ConnectTimeout", "ConnectError"}
                                 \cup (IF entry = Direct THEN {} ELSE {"ProxyError"})
      [] library = "aiohttp"  -> {"ConnectionTimeoutError", "ClientConnectorError"}
                                 \cup (IF entry = Direct THEN {} ELSE {"ClientHttpProxyError"})

(* No answer, or a connection that broke, after the request was written.      *)
(* Under urllib3 1.26, the one pip vendors, any connection through a proxy    *)
(* that breaks is "Cannot connect to proxy": a ProxyError.                   *)
BrokenErrors(library, entry) ==
    CASE library = "requests" -> {"ReadTimeout", "ConnectionError"}
                                 \cup (IF entry = Direct THEN {} ELSE {"ProxyError"})
      [] library = "httpx"    -> {"ReadTimeout", "ReadError"}
      [] library = "aiohttp"  -> {"ServerTimeoutError", "ServerDisconnectedError"}

(* Mutant: any ConnectionError counts, whatever its reason. *)
FailedBeforeSendingAny(library, error) ==
    CASE library = "requests" -> error \notin {"ReadTimeout", "SSLError"}
      [] library = "httpx"    -> error \in {"ProxyError", "ConnectError", "ConnectTimeout"}
      [] library = "aiohttp"  -> error \in {"ClientConnectorError", "ConnectionTimeoutError"}

FailedBeforeSending(library, error) ==
    CASE library = "requests" -> error \in {"ProxyError", "ConnectTimeout", "NewConnectionError"}
      [] library = "httpx"    -> error \in {"ProxyError", "ConnectError", "ConnectTimeout"}
      [] library = "aiohttp"  -> error \in {"ClientConnectorError", "ConnectionTimeoutError"}

-----------------------------------------------------------------------------
BeginSend(s) ==
    /\ sending[s] = "idle" /\ sends < MaxSends
    /\ \E a \in Answers :
        /\ given' = [given EXCEPT ![s] = a]
        /\ candidates' = [candidates EXCEPT
                            ![s] = IF FailsOver[s] THEN OrderByHealth(a) ELSE <<Head(a)>>]
    /\ index' = [index EXCEPT ![s] = 1]
    /\ sending' = [sending EXCEPT ![s] = "connecting"]
    /\ ended' = [ended EXCEPT ![s] = "none"]
    /\ delivered' = [delivered EXCEPT ![s] = 0] /\ misreported' = [misreported EXCEPT ![s] = 0]
    /\ sends' = sends + 1
    /\ UNCHANGED healthVars

Current(s) == candidates[s][index[s]]

(* Mutant: the last entry is taken to be the one before it. *)
IsLastEarly(s) == index[s] >= Len(candidates[s]) - 1

IsLast(s) == index[s] = Len(candidates[s])

EndSend(s, how) ==
    sending' = [sending EXCEPT ![s] = "idle"] /\ ended' = [ended EXCEPT ![s] = how]

(* the entry tried is marked and the next one is tried; the last one's error  *)
(* is raised                                                                 *)
GoOn(s) ==
    /\ MarkBad(Current(s), TtlOf[s])
    /\ IF IsLast(s) THEN EndSend(s, "unsent") /\ UNCHANGED index
       ELSE /\ index' = [index EXCEPT ![s] = @ + 1]
            /\ sending' = [sending EXCEPT ![s] = "connecting"] /\ UNCHANGED ended

GiveUp(s) == EndSend(s, "failed") /\ UNCHANGED <<breaker, badUntil, foundBad, index>>

(* the except clause *)
Raise(s, error) ==
    /\ IF FailsOver[s] /\ FailedBeforeSending(LibraryOf[s], error) THEN GoOn(s) ELSE GiveUp(s)
    /\ UNCHANGED <<now, proberVars, skipUntil, given, candidates, delivered, sends>>

Misreport(s, misleads) == misreported' = [misreported EXCEPT ![s] = @ + IF misleads THEN 1 ELSE 0]

(* A connection that cannot be made raises the same error for a redirect the  *)
(* library follows by itself as for the request's own URL.                   *)
CannotConnect(s) ==
    /\ sending[s] \in {"connecting", "following"}
    /\ \E error \in ConnectErrors(LibraryOf[s], Current(s)) : Raise(s, error)
    /\ Misreport(s, sending[s] = "following")

Sends(s) ==
    /\ sending[s] \in {"connecting", "following"}
    /\ sending' = [sending EXCEPT ![s] = "sent"]
    /\ delivered' = [delivered EXCEPT ![s] = @ + IF sending[s] = "connecting" THEN 1 ELSE 0]
    /\ UNCHANGED <<healthVars, given, candidates, index, ended, misreported, sends>>

Breaks(s) ==
    /\ sending[s] = "sent"
    /\ \E error \in BrokenErrors(LibraryOf[s], Current(s)) :
          Raise(s, error) /\ Misreport(s, error = "ProxyError")

(* aiohttp follows redirects inside the call _routed makes; an adapter of     *)
(* requests or a transport of httpx is called for each hop                   *)
Redirects(s) ==
    /\ sending[s] = "sent" /\ LibraryOf[s] = "aiohttp"
    /\ sending' = [sending EXCEPT ![s] = "following"]
    /\ UNCHANGED <<healthVars, given, candidates, index, ended, delivered, misreported, sends>>

Responds(s) ==
    /\ sending[s] = "sent"
    /\ EndSend(s, "response")
    /\ UNCHANGED <<healthVars, given, candidates, index, delivered, misreported, sends>>

Sending(s) ==
    \/ BeginSend(s) \/ CannotConnect(s) \/ Sends(s) \/ Breaks(s) \/ Redirects(s) \/ Responds(s)

Next == (\E s \in Sender : Sending(s)) \/ (HealthNext /\ UNCHANGED senderVars)

Spec == Init /\ [][Next]_vars

-----------------------------------------------------------------------------
(* A request is sent again only after its library reported one it had sent   *)
(* as one it could not send: once for each such report, however errors,      *)
(* entries and other requests' marks alternate (requests.py:112-123,         *)
(* 228-233, httpx.py:44-46, aiohttp.py:40-45).                               *)
ResentOnlyIfMisled == \A s \in Sender : delivered[s] <= 1 + misreported[s]

(* "A read or write error never fails over, since the server may have        *)
(* received the request" (requests.py:280-281): a request that requests sent *)
(* is not sent again.                                                        *)
RequestsSendsOnce == \A s \in Sender : LibraryOf[s] = "requests" => delivered[s] <= 1

(* "Failover happens only for errors before the request is sent" (README.md: *)
(* 226): a request that aiohttp sent is not sent again.                      *)
AiohttpSendsOnce == \A s \in Sender : LibraryOf[s] = "aiohttp" => delivered[s] <= 1

(* A request that fails unsent was tried through every entry of the answer,  *)
(* each once, although other requests and probers rewrite the breaker it was *)
(* ordered by meanwhile (requests.py:214-233, _net.py:164-173).              *)
Occurrences(x, seq) == Cardinality({i \in 1 .. Len(seq) : seq[i] = x})

AllTried ==
    \A s \in Sender : ended[s] = "unsent" /\ FailsOver[s] =>
        /\ index[s] = Len(given[s])
        /\ \A e \in Entry : Occurrences(e, candidates[s]) = Occurrences(e, given[s])

(* A proxy any request found bad is never tried before a healthy entry by a  *)
(* request that starts within the ttl, however the requests overlap, as long *)
(* as all that fail over mark with one ttl and no prober found the same      *)
(* server bad (_net.py:156-173).                                             *)
OneTtl == \A s, t \in Sender : TtlOf[s] # 0 /\ TtlOf[t] # 0 => TtlOf[s] = TtlOf[t]

LearnsFromOthers ==
    [][\A s \in Sender : sends' # sends /\ sending'[s] # sending[s] /\ FailsOver[s] /\ OneTtl =>
        \A i, j \in 1 .. Len(candidates'[s]) :
            /\ i < j /\ candidates'[s][i] # Direct
            /\ now < badUntil[KeyOf[candidates'[s][i]]]
            /\ skipUntil[KeyOf[candidates'[s][i]]] = 0
            => BadAt(candidates'[s][j], now)
      ]_vars

(* The breaker never bans a proxy for longer than the longest ttl from now,  *)
(* so a proxy that recovered is used again (_net.py:142-161, 202).           *)
Ttls == {ProbeTtl} \cup {TtlOf[s] : s \in Sender}
BansExpire == \A ttl \in Ttls : (\A other \in Ttls : other <= ttl) => NoBanOutlives(ttl)

(* mark_bad's claim: "first_working_proxy skips it, for ttl seconds"         *)
(* (_net.py:156-159).                                                        *)
MarkedForTtl ==
    [][\A q \in Prober :
          probe[q] = "scan" /\ probe'[q] = "check" => now >= badUntil[KeyOf[Head(left[q])]]
      ]_vars
=============================================================================
