---------------------------- MODULE ProxyHealth ----------------------------
(***************************************************************************)
(* _net.py: the process-wide circuit breaker, and first_working_proxy,     *)
(* which wrappers.Probed runs in any number of threads.  Nothing here is   *)
(* locked: a prober reads the clock once, and acts on the breaker between  *)
(* TCP checks that take time.                                              *)
(***************************************************************************)
EXTENDS Naturals, Sequences, FiniteSets

CONSTANTS
    Proxy,      \* proxies an answer may name
    Direct,     \* the entry None
    Portless,   \* proxies without a port, whose scheme has no default one
    Key,        \* breaker keys: (host, port) pairs
    KeyOf,      \* [Proxy -> Key]: _health_key; two schemes may share one
    Answers,    \* the answers a lookup may give: non-empty sequences of entries
    Prober,     \* threads in first_working_proxy
    ProbeTtl,   \* circuit_breaker_ttl
    MaxTime     \* bound: the clock stops here

Entry == Proxy \cup {Direct}

ASSUME HealthAssumption ==
    /\ Direct \notin Proxy /\ Portless \subseteq Proxy /\ KeyOf \in [Proxy -> Key]
    /\ Answers \subseteq Seq(Entry) \ {<< >>}
    /\ ProbeTtl \in Nat \ {0} /\ MaxTime \in Nat

VARIABLES
    breaker,   \* [Key -> end of its blacklisting]; 0 when it has none
    now,       \* time.monotonic()
    probe,     \* [Prober -> "idle", "scan" or "check" (a TCP check is under way)]
    answer,    \* [Prober -> the proxies given]
    left,      \* [Prober -> those not dealt with yet]
    start,     \* [Prober -> the clock as first_working_proxy read it]
    chosen,    \* [Prober -> the entry returned, or "none"; "raised": nothing reachable]
    badUntil,  \* history: [Key -> what mark_bad promised: bad until then]
    skipUntil, \* history: [Key -> what Probed promised: skipped until then]
    foundBad   \* history: keys anyone ever found bad

proberVars == <<probe, answer, left, start, chosen>>
promises == <<badUntil, skipUntil, foundBad>>
healthVars == <<breaker, now, proberVars, promises>>

HealthTypeOK ==
    /\ breaker \in [Key -> Nat] /\ now \in 0 .. MaxTime
    /\ probe \in [Prober -> {"idle", "scan", "check"}]
    /\ answer \in [Prober -> Seq(Entry)] /\ left \in [Prober -> Seq(Entry)]
    /\ start \in [Prober -> 0 .. MaxTime]
    /\ chosen \in [Prober -> Entry \cup {"none", "raised"}]
    /\ badUntil \in [Key -> Nat] /\ skipUntil \in [Key -> Nat] /\ foundBad \subseteq Key

HealthInit ==
    /\ breaker = [k \in Key |-> 0] /\ now = 0
    /\ probe = [q \in Prober |-> "idle"] /\ chosen = [q \in Prober |-> "none"]
    /\ answer = [q \in Prober |-> << >>] /\ left = [q \in Prober |-> << >>]
    /\ start = [q \in Prober |-> 0] 
    /\ badUntil = [k \in Key |-> 0] /\ skipUntil = [k \in Key |-> 0] /\ foundBad = {}

-----------------------------------------------------------------------------
BadAt(e, time) == e # Direct /\ time < breaker[KeyOf[e]]

(* order_by_health: one pass that sorts the entries into those not marked bad *)
(* and those that are                                                        *)
Split(s) ==
    LET split[i \in 0 .. Len(s)] ==
          IF i = 0 THEN [good |-> << >>, bad |-> << >>]
          ELSE IF BadAt(s[i], now) THEN [split[i - 1] EXCEPT !.bad = Append(@, s[i])]
          ELSE [split[i - 1] EXCEPT !.good = Append(@, s[i])]
    IN split

OrderByHealth(s) == Split(s)[Len(s)].good \o Split(s)[Len(s)].bad

Later(a, b) == IF a < b THEN b ELSE a

Blacklist(k, until) == breaker' = [breaker EXCEPT ![k] = until]

Promise(e, ttl) ==
    /\ badUntil' = [badUntil EXCEPT ![KeyOf[e]] = Later(@, now + ttl)]
    /\ foundBad' = foundBad \cup {KeyOf[e]}

(* Mutant: a mark adds to the time left of the one before. *)
MarkBadExtends(e, ttl) ==
    IF e # Direct /\ ttl > 0
    THEN Blacklist(KeyOf[e], Later(now, breaker[KeyOf[e]]) + ttl) /\ Promise(e, ttl)
    ELSE UNCHANGED <<breaker, badUntil, foundBad>>

(* Mutant: the mark ends one clock unit early. *)
MarkBadShort(e, ttl) ==
    IF e # Direct /\ ttl > 0
    THEN Blacklist(KeyOf[e], now + ttl - 1) /\ Promise(e, ttl)
    ELSE UNCHANGED <<breaker, badUntil, foundBad>>

(* mark_bad: DIRECT is never marked, nor anything with a ttl of 0 *)
MarkBad(e, ttl) ==
    IF e # Direct /\ ttl > 0
    THEN Blacklist(KeyOf[e], now + ttl) /\ Promise(e, ttl)
    ELSE UNCHANGED <<breaker, badUntil, foundBad>>

(* clear_caches *)
ClearBreaker ==
    /\ breaker # [k \in Key |-> 0]
    /\ breaker' = [k \in Key |-> 0]
    /\ badUntil' = [k \in Key |-> 0] /\ skipUntil' = [k \in Key |-> 0]
    /\ UNCHANGED <<now, proberVars, foundBad>>

Tick ==
    /\ now < MaxTime /\ now' = now + 1
    /\ UNCHANGED <<breaker, promises, proberVars>>

-----------------------------------------------------------------------------
(* first_working_proxy *)

(* Mutant: the clock kept is the end of the blacklisting to come. *)
BeginProbingAhead(q) ==
    /\ probe[q] = "idle"
    /\ \E a \in Answers : answer' = [answer EXCEPT ![q] = a] /\ left' = [left EXCEPT ![q] = a]
    /\ start' = [start EXCEPT ![q] = now + ProbeTtl]
    /\ probe' = [probe EXCEPT ![q] = "scan"]
    /\ chosen' = [chosen EXCEPT ![q] = "none"]
    /\ UNCHANGED <<breaker, now, promises>>

BeginProbing(q) ==
    /\ probe[q] = "idle" /\ now < MaxTime
    /\ \E a \in Answers : answer' = [answer EXCEPT ![q] = a] /\ left' = [left EXCEPT ![q] = a]
    /\ start' = [start EXCEPT ![q] = now]
    /\ probe' = [probe EXCEPT ![q] = "scan"]
    /\ chosen' = [chosen EXCEPT ![q] = "none"]
    /\ UNCHANGED <<breaker, now, promises>>

Stop(q, result) ==
    probe' = [probe EXCEPT ![q] = "idle"] /\ chosen' = [chosen EXCEPT ![q] = result]

Pass(q) == left' = [left EXCEPT ![q] = Tail(@)]

ReturnDirect(q) ==
    /\ probe[q] = "scan" /\ left[q] # << >> /\ Head(left[q]) = Direct
    /\ Stop(q, Direct)
    /\ UNCHANGED <<breaker, now, promises, answer, left, start>>

Skips(q) == Head(left[q]) \in Portless \/ BadAt(Head(left[q]), start[q])

Skip(q) ==
    /\ probe[q] = "scan" /\ left[q] # << >> /\ Head(left[q]) # Direct /\ Skips(q)
    /\ Pass(q)
    /\ UNCHANGED <<breaker, now, promises, probe, answer, start, chosen>>

Check(q) ==
    /\ probe[q] = "scan" /\ left[q] # << >> /\ Head(left[q]) # Direct /\ ~Skips(q)
    /\ probe' = [probe EXCEPT ![q] = "check"]
    /\ UNCHANGED <<breaker, now, promises, answer, left, start, chosen>>

Connects(q) ==
    /\ probe[q] = "check"
    /\ Stop(q, Head(left[q]))
    /\ UNCHANGED <<breaker, now, promises, answer, left, start>>

FoundBad(q) ==
    LET k == KeyOf[Head(left[q])]
    IN /\ Blacklist(k, start[q] + ProbeTtl)   \* counted from the start of the scan
       /\ skipUntil' = [skipUntil EXCEPT ![k] = Later(@, now + ProbeTtl)]
       /\ foundBad' = foundBad \cup {k}

(* Mutant: a failed check passes over the next entry too. *)
FailsTwo(q) ==
    /\ probe[q] = "check"
    /\ FoundBad(q)
    /\ left' = [left EXCEPT ![q] = SubSeq(@, 3, Len(@))]
    /\ probe' = [probe EXCEPT ![q] = "scan"]
    /\ UNCHANGED <<now, answer, start, chosen, badUntil>>

Fails(q) ==
    /\ probe[q] = "check"
    /\ FoundBad(q)
    /\ Pass(q) /\ probe' = [probe EXCEPT ![q] = "scan"]
    /\ UNCHANGED <<now, answer, start, chosen, badUntil>>

NoneReachable(q) ==
    /\ probe[q] = "scan" /\ left[q] = << >>
    /\ Stop(q, "raised")
    /\ UNCHANGED <<breaker, now, promises, answer, left, start>>

Probing(q) ==
    \/ BeginProbing(q) \/ ReturnDirect(q) \/ Skip(q) \/ Check(q) \/ Connects(q) \/ Fails(q)
    \/ NoneReachable(q)

HealthNext == (\E q \in Prober : Probing(q)) \/ ClearBreaker \/ Tick

(* Whoever writes the breaker, an entry first_working_proxy passes over has  *)
(* no port or was found bad by someone: it neither passes over a proxy that  *)
(* never failed nor runs past DIRECT, so NoReachableProxyError means what it *)
(* says (_net.py:188-203).                                                   *)
PassedOver(q) == {answer[q][i] : i \in 1 .. Len(answer[q]) - Len(left[q])}

OnlyBadArePassed ==
    \A q \in Prober : \A e \in PassedOver(q) :
        e # Direct /\ (e \in Portless \/ KeyOf[e] \in foundBad)

NoBanOutlives(ttl) == \A k \in Key : breaker[k] <= now + ttl

(* Probed's claim: "A proxy that failed is skipped for 30 s"                 *)
(* (wrappers.py:134-135): none is checked before that.                       *)
SkippedForTtl ==
    [][\A q \in Prober :
          probe[q] = "scan" /\ probe'[q] = "check" => now >= skipUntil[KeyOf[Head(left[q])]]
      ]_healthVars

HealthSpec == HealthInit /\ [][HealthNext]_healthVars
=============================================================================
