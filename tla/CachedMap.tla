----------------------------- MODULE CachedMap -----------------------------
(***************************************************************************)
(* wrappers.Cached: answers of an inner map kept per URL in an OrderedDict *)
(* (least recently used first), shared between threads.  The lock is held  *)
(* for the look in the cache and for the store, not for the inner lookup   *)
(* between them, during which time passes, the inner map changes its mind, *)
(* and other threads store or clear.                                       *)
(***************************************************************************)
EXTENDS Integers, Sequences

CONSTANTS
    Thread, Url,
    Answers,     \* what the inner map may answer
    NoOpinion,   \* its KeyError
    Ttl,         \* ttl
    MaxSize,     \* maxsize
    MaxLookups,  \* bound: lookups begun in all
    MaxTime      \* bound: the clock stops here

ASSUME CacheAssumption ==
    /\ Ttl \in Nat \ {0} /\ MaxSize \in Nat \ {0} /\ NoOpinion \notin Answers
    /\ MaxLookups \in Nat /\ MaxTime \in Nat

VARIABLES
    entries,  \* Cached._entries: a sequence of [url, at, answer, valid]
    inner,    \* [Url -> what the inner map answers now]
    now,      \* time.monotonic()
    pc,       \* [Thread -> where it is]
    url,      \* [Thread -> the URL it looks up]
    stamp,    \* [Thread -> the clock as its lookup read it]
    got,      \* [Thread -> the answer in its hands]
    valid,    \* history: [Thread -> when the inner map gave that answer]
    recency,  \* history: URLs in the order of their last use since the last clear
    lookups   \* lookups begun so far

cacheVars == <<entries, inner, now, pc, url, stamp, got, valid, recency, lookups>>

Answered == Answers \cup {NoOpinion}

TypeOK ==
    /\ entries \in Seq([url : Url, at : 0 .. MaxTime, answer : Answers, valid : 0 .. MaxTime])
    /\ inner \in [Url -> Answered] /\ now \in 0 .. MaxTime
    /\ pc \in [Thread -> {"idle", "look", "ask", "store", "return"}]
    /\ url \in [Thread -> Url] /\ stamp \in [Thread -> 0 .. MaxTime]
    /\ got \in [Thread -> Answered] /\ valid \in [Thread -> 0 .. MaxTime]
    /\ recency \in Seq(Url) /\ lookups \in 0 .. MaxLookups

Init ==
    /\ entries = << >> /\ recency = << >> /\ inner \in [Url -> Answers] /\ now = 0
    /\ pc = [t \in Thread |-> "idle"] /\ url \in [Thread -> Url]
    /\ stamp = [t \in Thread |-> 0] /\ got = [t \in Thread |-> NoOpinion]
    /\ valid = [t \in Thread |-> 0] /\ lookups = 0

-----------------------------------------------------------------------------
Goto(t, place) == pc' = [pc EXCEPT ![t] = place]

Cached(u) == {i \in 1 .. Len(entries) : entries[i].url = u}
Young(t, e) == stamp[t] - e.at < Ttl
Hits(t) == {i \in Cached(url[t]) : Young(t, entries[i])}

(* s without the place in at: a dict has a key once at most *)
Dropped(s, at) ==
    IF at = {} THEN s
    ELSE LET i == CHOOSE i \in at : TRUE IN SubSeq(s, 1, i - 1) \o SubSeq(s, i + 1, Len(s))

Without(u) == Dropped(entries, Cached(u))

Used(u) == {i \in 1 .. Len(recency) : recency[i] = u}
Use(u) == recency' = Append(Dropped(recency, Used(u)), u)

BeginLookup(t) ==
    /\ pc[t] = "idle" /\ lookups < MaxLookups
    /\ \E u \in Url : url' = [url EXCEPT ![t] = u]
    /\ stamp' = [stamp EXCEPT ![t] = now]
    /\ lookups' = lookups + 1 /\ Goto(t, "look")
    /\ UNCHANGED <<entries, inner, now, got, valid, recency>>

(* Mutant: a hit does not count as a use. *)
HitInPlace(t) ==
    /\ pc[t] = "look"
    /\ \E i \in Hits(t) :
        /\ got' = [got EXCEPT ![t] = entries[i].answer]
        /\ valid' = [valid EXCEPT ![t] = entries[i].valid]
    /\ Use(url[t]) /\ Goto(t, "return")
    /\ UNCHANGED <<entries, inner, now, url, stamp, lookups>>

Hit(t) ==
    /\ pc[t] = "look"
    /\ \E i \in Hits(t) :
        /\ got' = [got EXCEPT ![t] = entries[i].answer]
        /\ valid' = [valid EXCEPT ![t] = entries[i].valid]
        /\ entries' = Append(Without(url[t]), entries[i])
    /\ Use(url[t]) /\ Goto(t, "return")
    /\ UNCHANGED <<inner, now, url, stamp, lookups>>

Miss(t) ==
    /\ pc[t] = "look" /\ Hits(t) = {}
    /\ Goto(t, "ask")
    /\ UNCHANGED <<entries, inner, now, url, stamp, got, valid, recency, lookups>>

(* "no opinion" is raised, not stored *)
AskInner(t) ==
    /\ pc[t] = "ask"
    /\ got' = [got EXCEPT ![t] = inner[url[t]]]
    /\ valid' = [valid EXCEPT ![t] = now]
    /\ Goto(t, IF inner[url[t]] = NoOpinion THEN "return" ELSE "store")
    /\ UNCHANGED <<entries, inner, now, url, stamp, recency, lookups>>

(* the last n of s: popitem(last=False) while there are more *)
Newest(s, n) == IF Len(s) > n THEN SubSeq(s, Len(s) - n + 1, Len(s)) ELSE s
Evicted(s) == Newest(s, MaxSize)

Entry(t, at) == [url |-> url[t], at |-> at, answer |-> got[t], valid |-> valid[t]]

(* Mutant: the entry is dated when it is stored. *)
StoreRedated(t) ==
    /\ pc[t] = "store"
    /\ entries' = Evicted(Append(Without(url[t]), Entry(t, now)))
    /\ Use(url[t]) /\ Goto(t, "return")
    /\ UNCHANGED <<inner, now, url, stamp, got, valid, lookups>>

Store(t) ==
    /\ pc[t] = "store"
    /\ entries' = Evicted(Append(Without(url[t]), Entry(t, stamp[t])))
    /\ Use(url[t]) /\ Goto(t, "return")
    /\ UNCHANGED <<inner, now, url, stamp, got, valid, lookups>>

Return(t) ==
    /\ pc[t] = "return" /\ Goto(t, "idle")
    /\ UNCHANGED <<entries, inner, now, url, stamp, got, valid, recency, lookups>>

Clear ==
    /\ entries # << >>
    /\ entries' = << >> /\ recency' = << >>
    /\ UNCHANGED <<inner, now, pc, url, stamp, got, valid, lookups>>

InnerChanges ==
    /\ \E u \in Url, a \in Answered : inner[u] # a /\ inner' = [inner EXCEPT ![u] = a]
    /\ UNCHANGED <<entries, now, pc, url, stamp, got, valid, recency, lookups>>

Tick ==
    /\ now < MaxTime /\ now' = now + 1
    /\ UNCHANGED <<entries, inner, pc, url, stamp, got, valid, recency, lookups>>

Looking(t) == BeginLookup(t) \/ Hit(t) \/ Miss(t) \/ AskInner(t) \/ Store(t)

Around == Clear \/ InnerChanges \/ Tick

Next == (\E t \in Thread : Looking(t) \/ Return(t)) \/ Around

Spec == Init /\ [][Next]_cacheVars

-----------------------------------------------------------------------------
(* What a lookup returns the inner map answered less than Ttl before the     *)
(* lookup read the clock, however long the lookups that stored it took       *)
(* (wrappers.py:81-93).                                                      *)
NeverStale == \A t \in Thread : pc[t] = "return" => stamp[t] - valid[t] < Ttl

(* The URLs kept are the most recently used ones, at most MaxSize of them,   *)
(* each once, in the order of use (wrappers.py:85, 89-92).                   *)
KeepsMostRecent ==
    /\ Len(entries) <= MaxSize /\ Len(entries) <= Len(recency)
    /\ \A i \in 1 .. Len(entries) :
        entries[i].url = recency[Len(recency) - Len(entries) + i]
=============================================================================
