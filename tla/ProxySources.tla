---------------------------- MODULE ProxySources ----------------------------
(***************************************************************************)
(* system/_config.py, pac/wpad.py: the maps ProxyConfig.to_proxymap        *)
(* builds.  Each is a chain of deferred sources (WPAD, the PAC) in front   *)
(* of the manual proxies; a source is loaded by the first lookup, and each *)
(* load makes a PacProxyMap with a helper of its own -- except that WPAD's *)
(* comes from a cache all maps share.  A PacProxyMap is a number here.     *)
(***************************************************************************)
EXTENDS Integers, Sequences

CONSTANTS
    Thread,      \* threads looking up and closing
    Map,         \* the maps to_proxymap returned
    ChainOf,     \* [Map -> its deferred sources, in order]
    RetryAfter,  \* _RETRY_AFTER
    CacheTtl,    \* discover's cache_ttl
    MayClose,    \* is close() called?
    MaxOps,      \* bound: lookups and closes begun in all
    MaxTime,     \* bound: the clock stops here
    NoThread     \* no owner, for a lock

Source == {"WPAD", "PAC"}
Link == Map \X Source

ASSUME SourcesAssumption ==
    /\ ChainOf \in [Map -> {<<"WPAD">>, <<"PAC">>, <<"WPAD", "PAC">>}]
    /\ RetryAfter \in Nat \ {0} /\ CacheTtl \in Nat \ {0}
    /\ MaxOps \in Nat /\ MaxTime \in Nat /\ NoThread \notin Thread

VARIABLES
    mapOf,     \* [Link -> _Deferred._map], 0 when None
    failedAt,  \* [Link -> _Deferred._failed_at], -1 when None
    lock,      \* [Link -> owner of _Deferred._lock]
    cache,     \* wpad._cache[fqdn]: <<>> or <<time, PacProxyMap or 0>>
    fetched,   \* script._download_cache: [Source -> time of its download, or -1]
    alive,     \* PacProxyMaps whose script can still run
    made,      \* PacProxyMaps made so far
    up,        \* sources whose server answers, with a script that runs
    now,       \* time.monotonic()
    pc,        \* [Thread -> where it is]
    at,        \* [Thread -> the map it works on and the position in its chain]
    held,      \* [Thread -> the PacProxyMap in its hands, or 0]
    answer,    \* [Thread -> who answered its last lookup]
    ops,       \* operations begun so far
    everDown,  \* history: some server was down at some time
    everClosed \* history: some close() began

linkVars == <<mapOf, failedAt, lock>>
pacVars == <<cache, fetched, alive, made>>
threadVars == <<pc, at, held, answer>>
envVars == <<up, now, ops, everDown, everClosed>>
vars == <<linkVars, pacVars, threadVars, envVars>>

Made == 0 .. made

TypeOK ==
    /\ mapOf \in [Link -> Made] /\ failedAt \in [Link -> Nat \cup {-1}]
    /\ lock \in [Link -> Thread \cup {NoThread}]
    /\ cache \in {<< >>} \cup (Nat \X Made)
    /\ fetched \in [Source -> Nat \cup {-1}]
    /\ alive \subseteq 1 .. made /\ made \in Nat
    /\ up \subseteq Source /\ now \in Nat /\ ops \in 0 .. MaxOps
    /\ pc \in [Thread -> {"idle", "get", "load", "fetch", "cache", "store", "ask", "swap", "free"}]
    /\ at \in [Thread -> Map \X (1 .. 3)] /\ held \in [Thread -> Made]
    /\ answer \in [Thread -> Source \cup {"none", "manual"}]
    /\ everDown \in BOOLEAN /\ everClosed \in BOOLEAN

Init ==
    /\ mapOf = [l \in Link |-> 0] /\ failedAt = [l \in Link |-> -1]
    /\ lock = [l \in Link |-> NoThread]
    /\ cache = << >> /\ fetched = [s \in Source |-> -1] /\ alive = {} /\ made = 0
    /\ up \in SUBSET Source /\ now = 0 /\ ops = 0
    /\ everDown = (up # Source) /\ everClosed = FALSE
    /\ pc = [t \in Thread |-> "idle"] /\ at \in [Thread -> Map \X {1}]
    /\ held = [t \in Thread |-> 0] /\ answer = [t \in Thread |-> "none"]

-----------------------------------------------------------------------------
Chain(t) == ChainOf[at[t][1]]
InChain(t) == at[t][2] <= Len(Chain(t))
SourceOf(t) == Chain(t)[at[t][2]]
LinkOf(t) == <<at[t][1], SourceOf(t)>>

Goto(t, place) == pc' = [pc EXCEPT ![t] = place]
Hold(t, p) == held' = [held EXCEPT ![t] = p]
Unlocked(t) == lock[LinkOf(t)] = NoThread
Lock(t) == lock' = [lock EXCEPT ![LinkOf(t)] = t]
Unlock(t) == lock' = [lock EXCEPT ![LinkOf(t)] = NoThread]

Begin(t, m, place) ==
    /\ pc[t] = "idle" /\ ops < MaxOps
    /\ ops' = ops + 1
    /\ at' = [at EXCEPT ![t] = <<m, 1>>]
    /\ Hold(t, 0) /\ Goto(t, place)
    /\ UNCHANGED <<linkVars, pacVars, up, now, everDown>>

(* ChainProxyMap.__getitem__ *)
BeginLookup(t) ==
    /\ \E m \in Map : Begin(t, m, "get")
    /\ answer' = [answer EXCEPT ![t] = "none"]
    /\ UNCHANGED everClosed

Answered(t, by) == answer' = [answer EXCEPT ![t] = by] /\ Goto(t, "idle")

(* no opinion: on to the next link, or to manual_map, which always answers *)
PassOn(t) ==
    /\ at' = [at EXCEPT ![t] = <<@[1], @[2] + 1>>]
    /\ IF at[t][2] < Len(Chain(t)) THEN Goto(t, "get") /\ UNCHANGED answer
       ELSE Answered(t, "manual")

-----------------------------------------------------------------------------
(* _Deferred._get *)

LoadIsDue(l) == mapOf[l] = 0 /\ (failedAt[l] = -1 \/ now - failedAt[l] >= RetryAfter)

(* Mutant: the lock is not released when nothing is loaded. *)
GetKeepsLock(t) ==
    /\ pc[t] = "get" /\ Unlocked(t) /\ ~LoadIsDue(LinkOf(t))
    /\ Hold(t, mapOf[LinkOf(t)]) /\ Lock(t)
    /\ IF mapOf[LinkOf(t)] # 0 THEN Goto(t, "ask") /\ UNCHANGED <<at, answer>> ELSE PassOn(t)
    /\ UNCHANGED <<mapOf, failedAt, pacVars, envVars>>

GetWithoutLoad(t) ==
    /\ pc[t] = "get" /\ Unlocked(t) /\ ~LoadIsDue(LinkOf(t))
    /\ Hold(t, mapOf[LinkOf(t)])
    /\ IF mapOf[LinkOf(t)] # 0 THEN Goto(t, "ask") /\ UNCHANGED <<at, answer>> ELSE PassOn(t)
    /\ UNCHANGED <<linkVars, pacVars, envVars>>

(* Mutant: the source is loaded outside the lock. *)
BeginLoadUnlocked(t) ==
    /\ pc[t] = "get" /\ Unlocked(t) /\ LoadIsDue(LinkOf(t))
    /\ Goto(t, "load")
    /\ UNCHANGED <<linkVars, pacVars, at, held, answer, envVars>>

BeginLoad(t) ==
    /\ pc[t] = "get" /\ Unlocked(t) /\ LoadIsDue(LinkOf(t))
    /\ Lock(t) /\ Goto(t, "load")
    /\ UNCHANGED <<mapOf, failedAt, pacVars, at, held, answer, envVars>>

(* discover: the cache, then the server, then the cache again *)
CacheHit == cache # << >> /\ now - cache[1] < CacheTtl

Discover(t) ==
    /\ pc[t] = "load" /\ SourceOf(t) = "WPAD"
    /\ IF CacheHit THEN Hold(t, cache[2]) /\ Goto(t, "store") ELSE Goto(t, "fetch") /\ UNCHANGED held
    /\ UNCHANGED <<linkVars, pacVars, at, answer, envVars>>

LoadPac(t) ==
    /\ pc[t] = "load" /\ SourceOf(t) = "PAC"
    /\ Goto(t, "fetch")
    /\ UNCHANGED <<linkVars, pacVars, at, held, answer, envVars>>

(* pac.load, from the server or the text downloaded before; WPAD's host must *)
(* resolve first, so with its server down even a cached text may not be used *)
Downloaded(s) == fetched[s] # -1 /\ now - fetched[s] < CacheTtl

Fetch(t) ==
    /\ pc[t] = "fetch"
    /\ \/ /\ SourceOf(t) \in up \/ Downloaded(SourceOf(t))
          /\ made' = made + 1 /\ alive' = alive \cup {made'} /\ Hold(t, made')
          /\ fetched' = [fetched EXCEPT
                            ![SourceOf(t)] = IF Downloaded(SourceOf(t)) THEN @ ELSE now]
       \/ /\ SourceOf(t) \notin up /\ (Downloaded(SourceOf(t)) => SourceOf(t) = "WPAD")
          /\ UNCHANGED <<made, alive, held, fetched>>
    /\ Goto(t, IF SourceOf(t) = "WPAD" THEN "cache" ELSE "store")
    /\ UNCHANGED <<linkVars, cache, at, answer, envVars>>

FillCache(t) ==
    /\ pc[t] = "cache"
    /\ cache' = <<now, held[t]>> /\ Goto(t, "store")
    /\ UNCHANGED <<linkVars, fetched, alive, made, at, held, answer, envVars>>

(* Mutant: a failure is dated before the last retry could be. *)
StoreBackdates(t) ==
    /\ pc[t] = "store"
    /\ mapOf' = [mapOf EXCEPT ![LinkOf(t)] = held[t]]
    /\ failedAt' = [failedAt EXCEPT ![LinkOf(t)] = IF held[t] = 0 THEN now - 2 * RetryAfter ELSE @]
    /\ Unlock(t)
    /\ IF held[t] # 0 THEN Goto(t, "ask") /\ UNCHANGED <<at, answer>> ELSE PassOn(t)
    /\ UNCHANGED <<pacVars, held, envVars>>

(* Mutant: what was loaded is not kept. *)
StoreForgets(t) ==
    /\ pc[t] = "store"
    /\ failedAt' = [failedAt EXCEPT ![LinkOf(t)] = now]
    /\ Unlock(t)
    /\ IF held[t] # 0 THEN Goto(t, "ask") /\ UNCHANGED <<at, answer>> ELSE PassOn(t)
    /\ UNCHANGED <<mapOf, pacVars, held, envVars>>

Store(t) ==
    /\ pc[t] = "store"
    /\ mapOf' = [mapOf EXCEPT ![LinkOf(t)] = held[t]]
    /\ failedAt' = [failedAt EXCEPT ![LinkOf(t)] = IF held[t] = 0 THEN now ELSE @]
    /\ Unlock(t)
    /\ IF held[t] # 0 THEN Goto(t, "ask") /\ UNCHANGED <<at, answer>> ELSE PassOn(t)
    /\ UNCHANGED <<pacVars, held, envVars>>

(* _Deferred.__getitem__: a script that cannot run is no opinion *)
Ask(t) ==
    /\ pc[t] = "ask"
    /\ IF held[t] \in alive THEN Answered(t, SourceOf(t)) /\ UNCHANGED at ELSE PassOn(t)
    /\ Hold(t, 0)
    /\ UNCHANGED <<linkVars, pacVars, envVars>>

-----------------------------------------------------------------------------
(* ChainProxyMap.close, _Deferred.close of each link in turn *)

BeginClose(t) ==
    /\ MayClose
    /\ \E m \in Map : Begin(t, m, "swap")
    /\ everClosed' = TRUE
    /\ UNCHANGED answer

Swap(t) ==
    /\ pc[t] = "swap" /\ InChain(t) /\ Unlocked(t)
    /\ Hold(t, mapOf[LinkOf(t)]) /\ mapOf' = [mapOf EXCEPT ![LinkOf(t)] = 0]
    /\ Goto(t, "free")
    /\ UNCHANGED <<failedAt, lock, pacVars, at, answer, envVars>>

Free(t) ==
    /\ pc[t] = "free"
    /\ alive' = alive \ {held[t]} /\ Hold(t, 0)
    /\ at' = [at EXCEPT ![t] = <<@[1], @[2] + 1>>]
    /\ Goto(t, IF at[t][2] < Len(Chain(t)) THEN "swap" ELSE "idle")
    /\ UNCHANGED <<linkVars, cache, fetched, made, answer, envVars>>

-----------------------------------------------------------------------------
ServersChange ==
    /\ up' \in SUBSET Source /\ up' # up
    /\ everDown' = (everDown \/ up' # Source)
    /\ UNCHANGED <<linkVars, pacVars, threadVars, now, ops, everClosed>>

Tick ==
    /\ now < MaxTime /\ now' = now + 1
    /\ UNCHANGED <<linkVars, pacVars, threadVars, up, ops, everDown, everClosed>>

Advance(t) ==
    \/ GetWithoutLoad(t) \/ BeginLoad(t) \/ Discover(t) \/ LoadPac(t) \/ Fetch(t) \/ FillCache(t)
    \/ Store(t) \/ Ask(t) \/ Swap(t) \/ Free(t)

Next ==
    \/ \E t \in Thread : BeginLookup(t) \/ BeginClose(t) \/ Advance(t)
    \/ ServersChange \/ Tick

Spec == Init /\ [][Next]_vars

(* Threads that can run do; a fetch ends, since its probes and downloads     *)
(* have timeouts.                                                            *)
FairSpec == Spec /\ \A t \in Thread : WF_vars(Advance(t))

-----------------------------------------------------------------------------
(* No helper process is out of reach: one that runs belongs to a link, whose *)
(* close() ends it, or is in the hands of a thread that is loading or        *)
(* closing (_config.py:159-175).                                             *)
NoOrphan ==
    \A p \in alive :
        \/ \E l \in Link : mapOf[l] = p
        \/ \E t \in Thread : held[t] = p /\ pc[t] \in {"cache", "store", "free"}

(* With every server up and nothing closed, no lookup falls through to the   *)
(* manual proxies, however lookups of several maps overlap (_config.py:71-74)*)
UpMeansUsed ==
    ~everDown /\ ~everClosed => \A t \in Thread : answer[t] # "manual"

(* Every lookup and every close returns.                                     *)
EveryOpReturns == \A t \in Thread : pc[t] # "idle" ~> pc[t] = "idle"

(* to_proxymap's claim: a source that fails "is tried again after 30 s"      *)
(* (_config.py:72-74): a due retry asks the server.                          *)
RetriesReachTheServer ==
    [][\A t \in Thread :
          pc[t] = "load" /\ failedAt[LinkOf(t)] # -1 => pc'[t] \in {"load", "fetch"}]_vars

(* to_proxymap's claim: a PAC that does not run "is tried again after 30 s". *)
(* A link that holds a map whose script was ended never loads another, so it *)
(* must not come to hold one.                                                *)
NoDeadMapKept ==
    \A l \in Link : mapOf[l] # 0 => mapOf[l] \in alive
=============================================================================
