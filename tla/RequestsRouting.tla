--------------------------- MODULE RequestsRouting ---------------------------
(***************************************************************************)
(* integrations/requests.py: who decides which proxy a request of a        *)
(* requests session goes through -- the caller's own proxies, the          *)
(* environment's, or the adapter's map.  requests merges the first two     *)
(* into one dict before the adapter sees them; the wrappers of             *)
(* Session.request and send record the caller's own in _CALLER first.  One *)
(* thread, since _CALLER is a context variable; calls nest, since hooks    *)
(* and auth handlers send requests of their own.  All requests are for one *)
(* URL.  A proxy is <<who gave it, how it is written>>.  A caller's None   *)
(* for a key and session.proxies that are no dict are left out.            *)
(***************************************************************************)
EXTENDS Integers, Sequences, SequencesExt

CONSTANTS
    Session,
    Trusting,      \* sessions with trust_env
    Patched,       \* sessions made under the requests patch target
    OwnProxies,    \* [Session -> session.proxies]
    Given,         \* dicts a call may pass as proxies=
    NestsSends,    \* may a hook call Session.send?
    MaxCalls,      \* bound: calls begun in all
    MaxDepth       \* bound: calls inside each other

(* The keys select_proxy reads and one it does not.                          *)
Keys == {"host", "scheme", "all", "other"}
Proxy == {"call", "session", "env"} \X {"plain", "chain"}
Nothing == <<"nobody", "direct">>
Dict == [Keys -> Proxy \cup {Nothing}]
Empty == [k \in Keys |-> Nothing]
Opinions == {"opinion", "noOpinion"}
ProxyDict == [says : Opinions]    \* by what its map says of the URL
IsProxyDict(p) == "says" \in DOMAIN p
Asserts(p) == IsProxyDict(p) /\ p.says = "opinion"

ASSUME RoutingAssumption ==
    /\ Trusting \subseteq Session /\ Patched \subseteq Session
    /\ OwnProxies \in [Session -> Dict] /\ Given \subseteq Dict
    /\ NestsSends \in BOOLEAN /\ MaxCalls \in Nat /\ MaxDepth \in Nat

VARIABLES
    env,      \* the proxy variable for the URL's scheme
    mapSays,  \* whether the adapters' map has an opinion on the URL
    wrapped,  \* whether Session.request and send are wrapped
    reused,   \* the dict object a program passes again and again
    caller,   \* _CALLER: NoCaller or the trust_env and proxies it holds
    stack,    \* the calls under way, innermost last
    calls     \* calls begun

vars == <<env, mapSays, wrapped, reused, caller, stack, calls>>

NoCaller == [trust |-> FALSE, explicit |-> << >>]
Caller == [trust : BOOLEAN, explicit : Dict \cup ProxyDict]
Undecided == "undecided"
Frame == [session : Session,
          own : Dict \cup ProxyDict,       \* history: what caller and session gave
          proxies : Dict \cup ProxyDict,   \* the adapter's argument
          restores : Caller \cup {NoCaller},
          route : {Undecided, "map", "dict", "nobody", "call", "session", "env"}]

TypeOK ==
    /\ env \in {Nothing} \cup ({"env"} \X {"plain", "chain"}) /\ mapSays \in Opinions
    /\ wrapped \in BOOLEAN /\ reused \in Dict /\ caller \in Caller \cup {NoCaller}
    /\ stack \in Seq(Frame) /\ Len(stack) <= MaxDepth /\ calls \in 0 .. MaxCalls
    /\ stack = << >> \/ ~wrapped => caller = NoCaller

Init ==
    /\ env \in {Nothing} \cup ({"env"} \X {"plain", "chain"}) /\ mapSays \in Opinions
    /\ wrapped \in BOOLEAN /\ reused \in Given /\ caller = NoCaller
    /\ stack = << >> /\ calls = 0

-----------------------------------------------------------------------------
(* External: how requests merges proxies.                                    *)

MergeSetting(mine, theirs) ==
    IF IsProxyDict(mine) THEN mine
    ELSE [k \in DOMAIN mine |-> IF mine[k] # Nothing THEN mine[k] ELSE theirs[k]]

SetDefault(d) == [d EXCEPT !["scheme"] = IF @ = Nothing THEN env ELSE @]

WithEnvironment(s, d) == IF s \in Trusting /\ ~IsProxyDict(d) THEN SetDefault(d) ELSE d

(* The entry under the most specific key that has one.                       *)
SelectProxy(d) ==
    IF IsProxyDict(d) THEN Nothing
    ELSE IF d["host"] # Nothing THEN d["host"]
    ELSE IF d["scheme"] # Nothing THEN d["scheme"]
    ELSE d["all"]

-----------------------------------------------------------------------------
(* _record_caller: the wrappers.                                             *)

(* Mutant: the proxies are recorded after requests merged the environment's. *)
CallerOfMerged(s, p) ==
    [trust |-> s \in Trusting, explicit |-> MergeSetting(WithEnvironment(s, p), OwnProxies[s])]

CallerOf(s, p) == [trust |-> s \in Trusting, explicit |-> MergeSetting(p, OwnProxies[s])]

Begin(s, p, proxies, records) ==
    /\ calls < MaxCalls /\ Len(stack) < MaxDepth
    /\ calls' = calls + 1
    /\ stack' = Append(stack, [session |-> s, own |-> MergeSetting(p, OwnProxies[s]),
                               proxies |-> proxies, restores |-> caller, route |-> Undecided])
    /\ caller' = IF wrapped /\ records THEN CallerOf(s, p) ELSE caller
    /\ UNCHANGED <<env, mapSays, wrapped>>

(* Session.request: requests puts the environment's proxies into the very    *)
(* dict it was given, unless that is empty.                                  *)
Request(s) ==
    \/ \E p \in Given \cup {Empty} \cup ProxyDict :
        /\ Begin(s, p, MergeSetting(WithEnvironment(s, p), OwnProxies[s]), TRUE)
        /\ UNCHANGED reused
    \/ /\ Begin(s, reused, MergeSetting(WithEnvironment(s, reused), OwnProxies[s]), TRUE)
       /\ reused' = IF reused = Empty THEN reused ELSE WithEnvironment(s, reused)

(* Session.send, with proxies= or without, in a hook of another call too. *)
Send(s) ==
    /\ stack # << >> => NestsSends
    /\ \/ \E p \in Given \cup ProxyDict : Begin(s, p, p, caller = NoCaller)
       \/ Begin(s, Empty, WithEnvironment(s, OwnProxies[s]), caller = NoCaller)
    /\ UNCHANGED reused

-----------------------------------------------------------------------------
(* The adapter's send: a decision is who decides, and whether it outranks    *)
(* the dict's entry for the host.                                            *)

Top == stack[Len(stack)]
IsPatched(s) == wrapped /\ s \in Patched
LeftToRequests == [by |-> Nothing, first |-> FALSE, left |-> TRUE]
Decided(by, first) == [by |-> by, first |-> first, left |-> FALSE]

(* A value requests can read, or none at all, is left to it. *)
ReadValue(value) == IF value[2] = "chain" THEN Decided(value, TRUE) ELSE LeftToRequests

Explicit == IF caller = NoCaller \/ IsProxyDict(Top.proxies) THEN Nothing ELSE SelectProxy(caller.explicit)

(* Mutant: a session that does not trust the environment asks the map. *)
IgnoresMapNever == FALSE

IgnoresMap ==
    caller # NoCaller /\ ~IsProxyDict(Top.proxies) /\ IsPatched(Top.session) /\ ~caller.trust

MapEntry == <<"map", "chain">>

entries ==
    IF Asserts(Top.proxies) THEN Decided(<<"dict", "chain">>, TRUE)
    ELSE IF Explicit # Nothing THEN ReadValue(Explicit)
    ELSE IF IgnoresMap THEN ReadValue(SelectProxy(Top.proxies))
    ELSE IF mapSays = "opinion" THEN Decided(MapEntry, FALSE)
    ELSE ReadValue(SelectProxy(Top.proxies))

HasHostKey == ~IsProxyDict(Top.proxies) /\ Top.proxies["host"] # Nothing

(* Mutant: the map outranks an entry for the host. *)
RouteMapFirst == IF entries.left THEN SelectProxy(Top.proxies)[1] ELSE entries.by[1]

Route ==
    IF entries.left \/ (~entries.first /\ HasHostKey) THEN SelectProxy(Top.proxies)[1]
    ELSE entries.by[1]

SetTop(f) == stack' = [stack EXCEPT ![Len(stack)] = f]

AdapterSend ==
    /\ stack # << >> /\ Top.route = Undecided
    /\ SetTop([Top EXCEPT !.route = Route])
    /\ UNCHANGED <<env, mapSays, wrapped, reused, caller, calls>>

(* A redirect: requests calls the session's send again, for the same caller. *)
Redirect ==
    /\ stack # << >> /\ Top.route # Undecided
    /\ Top.proxies # WithEnvironment(Top.session, Top.proxies)
    /\ SetTop([Top EXCEPT !.route = Undecided, !.proxies = WithEnvironment(Top.session, @)])
    /\ UNCHANGED <<env, mapSays, wrapped, reused, caller, calls>>

(* Mutant: a call with a ProxyDict does not reset _CALLER.                   *)
ReturnKeeps ==
    /\ stack # << >> /\ Top.route # Undecided
    /\ caller' = IF IsProxyDict(Top.own) THEN caller ELSE Top.restores
    /\ stack' = Front(stack)
    /\ UNCHANGED <<env, mapSays, wrapped, reused, calls>>

Return ==
    /\ stack # << >> /\ Top.route # Undecided
    /\ caller' = Top.restores
    /\ stack' = Front(stack)
    /\ UNCHANGED <<env, mapSays, wrapped, reused, calls>>

Next == (\E s \in Session : Request(s) \/ Send(s)) \/ AdapterSend \/ Redirect \/ Return

Spec == Init /\ [][Next]_vars

-----------------------------------------------------------------------------
WithoutEnvironment(d) ==
    IF IsProxyDict(d) THEN d ELSE [k \in DOMAIN d |-> IF d[k][1] = "env" THEN Nothing ELSE d[k]]
CallersProxy(f) == SelectProxy(WithoutEnvironment(f.own))
DecidedCalls == {i \in 1 .. Len(stack) : stack[i].route # Undecided}

(* A proxy the caller or the session gave for the URL is never overruled by  *)
(* the map: with the wrappers for any key, without them for the host's, in   *)
(* redirects and in calls hooks make too (requests.py:138-148, 212-213).     *)
CallersProxyWins ==
    \A i \in DecidedCalls :
        LET f == stack[i]
        IN  /\ wrapped /\ CallersProxy(f) # Nothing => f.route # "map"
            /\ ~IsProxyDict(f.proxies) /\ f.proxies["host"] # Nothing => f.route # "map"

(* ProxyMapAdapter's claim: "entries requests takes from the environment do  *)
(* not" win over the map (requests.py:292-297): when the caller gives        *)
(* nothing for the URL, the map's opinion counts, except in a patched        *)
(* session that ignores the environment and the map both.                    *)
MapDecides(f) ==
    /\ mapSays = "opinion" /\ ~Asserts(f.own) /\ CallersProxy(f) = Nothing
    /\ f.session \in Trusting \/ ~IsPatched(f.session)
    => f.route = "map"

EnvironmentNeverWins == \A i \in DecidedCalls : MapDecides(stack[i])

(* The same for calls whose dict has no entry an earlier call's merge left.  *)
IsCallersOwn(d) == WithoutEnvironment(d) = d

MapBeatsEnvironment ==
    \A i \in DecidedCalls : IsCallersOwn(stack[i].own) => MapDecides(stack[i])

(* A patched session that does not trust the environment is left as it would *)
(* be without the patch: neither the patch's map nor a proxy variable        *)
(* decides for it (entries' docstring, requests.py:128-131), unless its      *)
(* caller passed a dict that an earlier call's merge left entries in, or a   *)
(* ProxyDict: when that has no opinion, the code asks the map all the same.  *)
UntrustingIgnoresMap ==
    \A i \in DecidedCalls :
        /\ IsPatched(stack[i].session) /\ stack[i].session \notin Trusting
        /\ ~IsProxyDict(stack[i].own) /\ IsCallersOwn(stack[i].own)
        => stack[i].route \notin {"map", "env"}
=============================================================================
