-------------------------- MODULE ProxySourcesProofs --------------------------
(***************************************************************************)
(* What is proved of the maps to_proxymap builds, for every set of threads *)
(* and maps, every chain of sources, every clock and every server.         *)
(***************************************************************************)
EXTENDS ProxySources, TLAPS

-----------------------------------------------------------------------------
(* A thread in an operation is at a link of its map's chain. *)
AtALink == \A t \in Thread : pc[t] # "idle" => InChain(t)

(* _Deferred._lock is held from the look at _map to the store, by the thread *)
(* that loads that link, and meanwhile the link has no map.                  *)
Loads(t) == pc[t] \in {"load", "fetch", "cache", "store"}

LockedToLoad ==
    /\ \A l \in Link, t \in Thread : lock[l] = t <=> Loads(t) /\ LinkOf(t) = l
    /\ \A t \in Thread : Loads(t) => mapOf[LinkOf(t)] = 0

(* While every server is up and nothing is closed, every map that was made   *)
(* runs, and nothing failed.                                                 *)
Calm == ~everDown /\ ~everClosed

AllIsWell ==
    Calm =>
        /\ up = Source
        /\ \A l \in Link : failedAt[l] = -1 /\ (mapOf[l] = 0 \/ mapOf[l] \in alive)
        /\ cache = << >> \/ cache[2] \in alive
        /\ \A t \in Thread :
             /\ pc[t] \notin {"swap", "free"} /\ answer[t] # "manual"
             /\ pc[t] \in {"cache", "store", "ask"} => held[t] \in alive

SourcesInv == TypeOK /\ AtALink /\ LockedToLoad /\ NoOrphan /\ AllIsWell

(* A chain has one or two links, each to a source.                           *)
LEMMA Chains ==
    \A m \in Map : /\ Len(ChainOf[m]) \in {1, 2} /\ 1 <= Len(ChainOf[m])
                   /\ \A i \in 1 .. Len(ChainOf[m]) : ChainOf[m][i] \in Source
<1> SUFFICES ASSUME NEW m \in Map
             PROVE  /\ Len(ChainOf[m]) \in {1, 2} /\ 1 <= Len(ChainOf[m])
                    /\ \A i \in 1 .. Len(ChainOf[m]) : ChainOf[m][i] \in Source
    OBVIOUS
<1>1. ChainOf[m] = <<"WPAD">> \/ ChainOf[m] = <<"PAC">> \/ ChainOf[m] = <<"WPAD", "PAC">>
    BY SourcesAssumption
<1>2. CASE ChainOf[m] = <<"WPAD">>
    BY <1>2 DEF Source
<1>3. CASE ChainOf[m] = <<"PAC">>
    BY <1>3 DEF Source
<1>4. CASE ChainOf[m] = <<"WPAD", "PAC">>
    BY <1>4 DEF Source
<1>5. QED
    BY <1>1, <1>2, <1>3, <1>4

(* A thread at a link of its chain is at one of the links there are. *)
LEMMA AtLinks ==
    ASSUME TypeOK, NEW t \in Thread, InChain(t)
    PROVE  LinkOf(t) \in Link /\ SourceOf(t) \in Source /\ at[t][1] \in Map /\ at[t][2] \in 1 .. 2
<1>1. at[t][1] \in Map /\ at[t][2] \in 1 .. 3
    BY DEF TypeOK
<1>2. at[t][2] \in 1 .. Len(ChainOf[at[t][1]])
    BY <1>1, Chains DEF InChain, Chain
<1>3. SourceOf(t) \in Source /\ at[t][2] \in 1 .. 2
    BY <1>1, <1>2, Chains DEF SourceOf, Chain
<1>4. QED
    BY <1>1, <1>3 DEF LinkOf, Link

(* What changes for one thread stays typed, and the others stay. *)
Places == {"idle", "get", "load", "fetch", "cache", "store", "ask", "swap", "free"}
Deciders == Source \cup {"none", "manual"}

(* A thread that moves is at its next place, the others where they were. *)
LEMMA Goes ==
    ASSUME TypeOK, NEW t \in Thread, NEW place \in Places, Goto(t, place)
    PROVE  /\ pc' \in [Thread -> Places] /\ pc'[t] = place
           /\ \A u \in Thread : u # t => pc'[u] = pc[u]
BY DEF TypeOK, Goto, Places

(* A thread that takes a map in hand holds it. *)
LEMMA Holds ==
    ASSUME TypeOK, NEW t \in Thread, NEW p \in 0 .. made', made' \in Nat, made <= made', Hold(t, p)
    PROVE  /\ held' \in [Thread -> Made'] /\ held'[t] = p
           /\ \A u \in Thread : u # t => held'[u] = held[u]
BY DEF TypeOK, Hold, Made

(* A thread that answers is idle, and has said whose answer it is. *)
LEMMA AnswersSo ==
    ASSUME TypeOK, NEW t \in Thread, NEW by \in Deciders, Answered(t, by)
    PROVE  /\ answer' \in [Thread -> Deciders] /\ answer'[t] = by /\ pc'[t] = "idle"
           /\ pc' \in [Thread -> Places]
           /\ \A u \in Thread : u # t => answer'[u] = answer[u] /\ pc'[u] = pc[u]
<1>1. answer \in [Thread -> Deciders] /\ pc \in [Thread -> Places] /\ "idle" \in Places
    BY DEF TypeOK, Deciders, Places
<1>2. QED
    BY <1>1 DEF Answered, Goto

(* A thread that passes on is at the next link, or done. *)
LEMMA PassesOn ==
    ASSUME TypeOK, NEW t \in Thread, InChain(t), PassOn(t)
    PROVE  /\ at' \in [Thread -> Map \X (1 .. 3)] /\ at'[t] = <<at[t][1], at[t][2] + 1>>
           /\ answer' \in [Thread -> Deciders] /\ pc' \in [Thread -> Places]
           /\ \/ at[t][2] < Len(Chain(t)) /\ pc'[t] = "get" /\ answer' = answer
              \/ pc'[t] = "idle" /\ answer'[t] = "manual"
           /\ \A u \in Thread : u # t => /\ at'[u] = at[u] /\ pc'[u] = pc[u]
                                         /\ answer'[u] = answer[u]
<1>0. at[t][1] \in Map /\ at[t][2] \in 1 .. 2
    BY AtLinks
<1>1. /\ at' \in [Thread -> Map \X (1 .. 3)] /\ at'[t] = <<at[t][1], at[t][2] + 1>>
      /\ \A u \in Thread : u # t => at'[u] = at[u]
    BY <1>0 DEF TypeOK, PassOn
<1>2. "get" \in Places /\ "manual" \in Deciders /\ answer \in [Thread -> Deciders]
    BY DEF Places, Deciders, TypeOK
<1>3. CASE at[t][2] < Len(Chain(t)) /\ Goto(t, "get") /\ UNCHANGED answer
    BY <1>1, <1>2, <1>3, Goes
<1>4. CASE Answered(t, "manual")
    BY <1>1, <1>2, <1>4, AnswersSo
<1>5. QED
    BY <1>3, <1>4 DEF PassOn

(* The owner of a free lock is no thread. *)
LEMMA NoThreadIsNone == NoThread \notin Thread
BY SourcesAssumption

(* The locks of the links another thread does not touch stay as they were. *)
LockedTo(t) ==
    /\ \A l \in Link : lock[l] = t <=> Loads(t) /\ LinkOf(t) = l
    /\ Loads(t) => mapOf[LinkOf(t)] = 0

(* Each load keeps its lock while another thread steps. *)
LEMMA LocksStay ==
    ASSUME TypeOK, AtALink, LockedToLoad, NEW t \in Thread,
           \A u \in Thread : u # t => pc'[u] = pc[u] /\ at'[u] = at[u],
           \A u \in Thread, l \in Link : u # t => (lock'[l] = u <=> lock[l] = u),
           \A l \in Link : mapOf'[l] = mapOf[l] \/ lock[l] \in {t, NoThread},
           LockedTo(t)'
    PROVE  LockedToLoad'
<1> SUFFICES ASSUME NEW u \in Thread, u # t PROVE LockedTo(u)'
    BY DEF LockedToLoad, LockedTo
<1>1. Loads(u)' = Loads(u) /\ LinkOf(u)' = LinkOf(u)
    BY DEF Loads, LinkOf, SourceOf, Chain
<1>2. LockedTo(u)
    BY DEF LockedToLoad, LockedTo
<1>3. Loads(u) => LinkOf(u) \in Link
    BY AtLinks DEF AtALink, Loads
<1>4. Loads(u) => lock[LinkOf(u)] = u
    BY <1>2, <1>3 DEF LockedTo
<1>5. Loads(u) => mapOf'[LinkOf(u)] = mapOf[LinkOf(u)]
    BY <1>3, <1>4, NoThreadIsNone
<1>6. QED
    BY <1>1, <1>2, <1>5 DEF LockedTo

(* Nobody loses hold of a map that another thread does not touch. *)
Owning == {"cache", "store", "free"}

(* No map is lost by a step that passes on each map it lets go of. *)
LEMMA OrphansStay ==
    ASSUME NoOrphan, NEW t \in Thread,
           \A u \in Thread : u # t => pc'[u] = pc[u] /\ held'[u] = held[u],
           \A p \in alive' : p \in alive \/ (held'[t] = p /\ pc'[t] \in Owning),
           \A l \in Link : \/ mapOf'[l] = mapOf[l] \/ mapOf[l] \notin alive'
                           \/ held'[t] = mapOf[l] /\ pc'[t] \in Owning,
           pc[t] \in Owning => \/ pc'[t] \in Owning /\ held'[t] = held[t]
                               \/ held[t] \notin alive' \/ \E l \in Link : mapOf'[l] = held[t]
    PROVE  NoOrphan'
<1> SUFFICES ASSUME NEW p \in alive', ~(held'[t] = p /\ pc'[t] \in Owning)
             PROVE  \/ \E l \in Link : mapOf'[l] = p
                    \/ \E u \in Thread : held'[u] = p /\ pc'[u] \in Owning
    BY DEF NoOrphan, Owning
<1>1. p \in alive
    OBVIOUS
<1>2. CASE \E l \in Link : mapOf[l] = p
    BY <1>2
<1>3. CASE \E u \in Thread : held[u] = p /\ pc[u] \in Owning
    BY <1>3
<1>4. QED
    BY <1>1, <1>2, <1>3 DEF NoOrphan, Owning

(* No step of a thread breaks the invariant. *)
LEMMA ThreadStep ==
    ASSUME SourcesInv, NEW t \in Thread, BeginLookup(t) \/ BeginClose(t) \/ Advance(t)
    PROVE  SourcesInv'
<1> USE DEF SourcesInv
<1>a. pc[t] # "idle" => /\ InChain(t) /\ LinkOf(t) \in Link /\ SourceOf(t) \in Source
                        /\ at[t][1] \in Map /\ at[t][2] \in 1 .. 2
    BY AtLinks DEF AtALink
<1>b. /\ "idle" \in Places /\ "get" \in Places /\ "load" \in Places /\ "fetch" \in Places
      /\ "cache" \in Places /\ "store" \in Places /\ "ask" \in Places /\ "swap" \in Places
      /\ "free" \in Places
      /\ "none" \in Deciders /\ Source \subseteq Deciders
    BY DEF Places, Deciders
<1>c. /\ pc \in [Thread -> Places] /\ at \in [Thread -> Map \X (1 .. 3)]
      /\ held \in [Thread -> Made] /\ answer \in [Thread -> Deciders]
      /\ mapOf \in [Link -> Made] /\ made \in Nat /\ 0 \in Made
    BY DEF TypeOK, Places, Deciders, Made
<1>d. cache # << >> => cache[2] \in Made
    BY DEF TypeOK
<1>1. CASE BeginLookup(t)
    <2>1. /\ pc[t] = "idle" /\ pc'[t] = "get" /\ at'[t] \in Map \X {1} /\ held'[t] = 0
          /\ \A u \in Thread : u # t => /\ pc'[u] = pc[u] /\ at'[u] = at[u]
                                      /\ held'[u] = held[u] /\ answer'[u] = answer[u]
          /\ pc' \in [Thread -> Places] /\ at' \in [Thread -> Map \X (1 .. 3)]
          /\ held' \in [Thread -> Made'] /\ answer' \in [Thread -> Deciders]
          /\ ops' \in 0 .. MaxOps /\ answer'[t] = "none" 
          /\ UNCHANGED <<linkVars, pacVars, up, now, everDown, everClosed>>
        <3>1. PICK m \in Map : Begin(t, m, "get")
            BY <1>1 DEF BeginLookup
        <3>2. pc[t] = "idle" /\ Goto(t, "get") /\ Hold(t, 0) /\ at' = [at EXCEPT ![t] = <<m, 1>>]
            BY <3>1 DEF Begin
        <3>3. /\ at' \in [Thread -> Map \X (1 .. 3)] /\ at'[t] \in Map \X {1}
              /\ \A u \in Thread : u # t => at'[u] = at[u]
            BY <1>c, <3>2
        <3>4. /\ answer' \in [Thread -> Deciders] /\ answer'[t] = "none"
              /\ \A u \in Thread : u # t => answer'[u] = answer[u]
            BY <1>1, <1>b, <1>c DEF BeginLookup
        <3>5. UNCHANGED <<linkVars, pacVars, up, now, everDown>> /\ ops' \in 0 .. MaxOps
            BY <3>1, SourcesAssumption DEF Begin, TypeOK
        <3>6. /\ pc' \in [Thread -> Places] /\ pc'[t] = "get"
              /\ \A u \in Thread : u # t => pc'[u] = pc[u]
            BY <1>b, <3>2, Goes
        <3>7. /\ held' \in [Thread -> Made'] /\ held'[t] = 0
              /\ \A u \in Thread : u # t => held'[u] = held[u]
            BY <1>c, <3>2, <3>5, Holds DEF pacVars
        <3>8. QED
            BY <1>1, <3>2, <3>3, <3>4, <3>5, <3>6, <3>7 DEF BeginLookup
    <2>2. TypeOK'
        BY <1>a, <1>c, <2>1 DEF TypeOK, Places, Deciders, Made, linkVars, pacVars
    <2>3. AtALink'
        <3>1. at'[t][1] \in Map /\ at'[t][2] = 1
            BY <2>1
        <3>2. 1 <= Len(ChainOf[at'[t][1]])
            <4>1. \A m \in Map : 1 <= Len(ChainOf[m])
                BY Chains
            <4>2. QED
                BY <3>1, <4>1, Zenon
        <3>3. InChain(t)'
            BY <3>1, <3>2, Zenon DEF InChain, Chain
        <3>4. QED
            BY <2>1, <3>3 DEF AtALink, InChain, Chain
    <2>4. LockedToLoad'
        <3>1. LockedTo(t)
            BY DEF LockedToLoad, LockedTo
        <3>2. LockedTo(t)'
            BY <1>a, <1>c, <2>1, <3>1, NoThreadIsNone
               DEF LockedTo, Loads, LinkOf, SourceOf, Chain, TypeOK, linkVars, pacVars
        <3>3. QED
            BY <1>a, <2>1, <3>2, LocksStay, NoThreadIsNone DEF TypeOK, linkVars, pacVars
    <2>5. NoOrphan'
        BY <1>a, <1>c, <2>1, OrphansStay DEF Owning, linkVars, pacVars
    <2>6. AllIsWell'
        BY <1>a, <1>c, <2>1 DEF AllIsWell, Calm, LoadIsDue, TypeOK, linkVars, pacVars
    <2>7. QED
        BY <2>2, <2>3, <2>4, <2>5, <2>6
<1>2. CASE BeginClose(t)
    <2>1. /\ pc[t] = "idle" /\ pc'[t] = "swap" /\ at'[t] \in Map \X {1} /\ held'[t] = 0
          /\ \A u \in Thread : u # t => /\ pc'[u] = pc[u] /\ at'[u] = at[u]
                                      /\ held'[u] = held[u] /\ answer'[u] = answer[u]
          /\ pc' \in [Thread -> Places] /\ at' \in [Thread -> Map \X (1 .. 3)]
          /\ held' \in [Thread -> Made'] /\ answer' \in [Thread -> Deciders]
          /\ ops' \in 0 .. MaxOps /\ answer' = answer /\ everClosed' = TRUE
          /\ UNCHANGED <<linkVars, pacVars, up, now, everDown>>
        <3>1. PICK m \in Map : Begin(t, m, "swap")
            BY <1>2 DEF BeginClose
        <3>2. pc[t] = "idle" /\ Goto(t, "swap") /\ Hold(t, 0) /\ at' = [at EXCEPT ![t] = <<m, 1>>]
            BY <3>1 DEF Begin
        <3>3. /\ at' \in [Thread -> Map \X (1 .. 3)] /\ at'[t] \in Map \X {1}
              /\ \A u \in Thread : u # t => at'[u] = at[u]
            BY <1>c, <3>2
        <3>4. /\ answer' \in [Thread -> Deciders] /\ answer' = answer
              /\ \A u \in Thread : u # t => answer'[u] = answer[u]
            BY <1>2, <1>b, <1>c DEF BeginClose
        <3>5. UNCHANGED <<linkVars, pacVars, up, now, everDown>> /\ ops' \in 0 .. MaxOps
            BY <3>1, SourcesAssumption DEF Begin, TypeOK
        <3>6. /\ pc' \in [Thread -> Places] /\ pc'[t] = "swap"
              /\ \A u \in Thread : u # t => pc'[u] = pc[u]
            BY <1>b, <3>2, Goes
        <3>7. /\ held' \in [Thread -> Made'] /\ held'[t] = 0
              /\ \A u \in Thread : u # t => held'[u] = held[u]
            BY <1>c, <3>2, <3>5, Holds DEF pacVars
        <3>8. QED
            BY <1>2, <3>2, <3>3, <3>4, <3>5, <3>6, <3>7 DEF BeginClose
    <2>2. TypeOK'
        BY <1>a, <1>c, <2>1 DEF TypeOK, Places, Deciders, Made, linkVars, pacVars
    <2>3. AtALink'
        <3>1. at'[t][1] \in Map /\ at'[t][2] = 1
            BY <2>1
        <3>2. 1 <= Len(ChainOf[at'[t][1]])
            <4>1. \A m \in Map : 1 <= Len(ChainOf[m])
                BY Chains
            <4>2. QED
                BY <3>1, <4>1, Zenon
        <3>3. InChain(t)'
            BY <3>1, <3>2, Zenon DEF InChain, Chain
        <3>4. QED
            BY <2>1, <3>3 DEF AtALink, InChain, Chain
    <2>4. LockedToLoad'
        <3>1. LockedTo(t)
            BY DEF LockedToLoad, LockedTo
        <3>2. LockedTo(t)'
            BY <1>a, <1>c, <2>1, <3>1, NoThreadIsNone
               DEF LockedTo, Loads, LinkOf, SourceOf, Chain, TypeOK, linkVars, pacVars
        <3>3. QED
            BY <1>a, <2>1, <3>2, LocksStay, NoThreadIsNone DEF TypeOK, linkVars, pacVars
    <2>5. NoOrphan'
        BY <1>a, <1>c, <2>1, OrphansStay DEF Owning, linkVars, pacVars
    <2>6. AllIsWell'
        BY <1>a, <1>c, <2>1 DEF AllIsWell, Calm, LoadIsDue, TypeOK, linkVars, pacVars
    <2>7. QED
        BY <2>2, <2>3, <2>4, <2>5, <2>6
<1>3. CASE GetWithoutLoad(t)
    <2>1. /\ pc[t] = "get" /\ ~LoadIsDue(LinkOf(t)) /\ held'[t] = mapOf[LinkOf(t)]
          /\ \A u \in Thread : u # t => /\ pc'[u] = pc[u] /\ at'[u] = at[u]
                                      /\ held'[u] = held[u] /\ answer'[u] = answer[u]
          /\ pc' \in [Thread -> Places] /\ at' \in [Thread -> Map \X (1 .. 3)]
          /\ held' \in [Thread -> Made'] /\ answer' \in [Thread -> Deciders]
          /\ \/ mapOf[LinkOf(t)] # 0 /\ pc'[t] = "ask" /\ at'[t] = at[t] /\ answer' = answer
             \/ /\ mapOf[LinkOf(t)] = 0 /\ at'[t] = <<at[t][1], at[t][2] + 1>>
                /\ \/ at[t][2] < Len(Chain(t)) /\ pc'[t] = "get" /\ answer' = answer
                   \/ pc'[t] = "idle" /\ answer'[t] = "manual"
          /\ UNCHANGED <<linkVars, pacVars, envVars>>
        BY <1>3, <1>a, <1>b, <1>c, Goes, Holds, PassesOn
           DEF GetWithoutLoad, Made, linkVars, pacVars, envVars
    <2>2. TypeOK'
        BY <1>a, <1>c, <2>1 DEF TypeOK, Places, Deciders, Made, linkVars, pacVars, envVars
    <2>3. AtALink'
        BY <1>a, <2>1 DEF AtALink, InChain, Chain
    <2>4. LockedToLoad'
        <3>1. LockedTo(t)
            BY DEF LockedToLoad, LockedTo
        <3>2. LockedTo(t)'
            BY <1>a, <1>c, <2>1, <3>1, NoThreadIsNone
               DEF LockedTo, Loads, LinkOf, SourceOf, Chain, TypeOK, linkVars, pacVars, envVars
        <3>3. QED
            BY <1>a, <2>1, <3>2, LocksStay, NoThreadIsNone DEF TypeOK, linkVars, pacVars, envVars
    <2>5. NoOrphan'
        BY <1>a, <1>c, <2>1, OrphansStay DEF Owning, linkVars, pacVars, envVars
    <2>6. AllIsWell'
        BY <1>a, <1>c, <2>1 DEF AllIsWell, Calm, LoadIsDue, TypeOK, linkVars, pacVars, envVars
    <2>7. QED
        BY <2>2, <2>3, <2>4, <2>5, <2>6
<1>4. CASE BeginLoad(t)
    <2>1. /\ pc[t] = "get" /\ pc'[t] = "load" /\ mapOf[LinkOf(t)] = 0 /\ lock[LinkOf(t)] = NoThread
          /\ \A u \in Thread : u # t => /\ pc'[u] = pc[u] /\ at'[u] = at[u]
                                      /\ held'[u] = held[u] /\ answer'[u] = answer[u]
          /\ pc' \in [Thread -> Places] /\ at' \in [Thread -> Map \X (1 .. 3)]
          /\ held' \in [Thread -> Made'] /\ answer' \in [Thread -> Deciders]
          /\ lock' = [lock EXCEPT ![LinkOf(t)] = t]
          /\ UNCHANGED <<at, held, answer, mapOf, failedAt, pacVars, envVars>>
        BY <1>4, <1>a, <1>b, <1>c, Goes, Holds
           DEF BeginLoad, LoadIsDue, Lock, Unlocked, Made, pacVars, envVars
    <2>2. TypeOK'
        BY <1>a, <1>c, <2>1 DEF TypeOK, Places, Deciders, Made, pacVars, envVars
    <2>3. AtALink'
        BY <1>a, <2>1 DEF AtALink, InChain, Chain
    <2>4. LockedToLoad'
        <3>1. LockedTo(t)
            BY DEF LockedToLoad, LockedTo
        <3>2. LockedTo(t)'
            BY <1>a, <1>c, <2>1, <3>1, NoThreadIsNone
               DEF LockedTo, Loads, LinkOf, SourceOf, Chain, TypeOK
        <3>3. \A u \in Thread, l \in Link : u # t => (lock'[l] = u <=> lock[l] = u)
            BY <1>a, <2>1, NoThreadIsNone DEF TypeOK
        <3>4. QED
            BY <2>1, <3>2, <3>3, LocksStay
    <2>5. NoOrphan'
        BY <1>a, <1>c, <2>1, OrphansStay DEF Owning, pacVars, envVars
    <2>6. AllIsWell'
        BY <1>a, <1>c, <2>1 DEF AllIsWell, Calm, LoadIsDue, TypeOK, pacVars, envVars
    <2>7. QED
        BY <2>2, <2>3, <2>4, <2>5, <2>6
<1>5. CASE Discover(t)
    <2>1. /\ pc[t] = "load"
          /\ \A u \in Thread : u # t => /\ pc'[u] = pc[u] /\ at'[u] = at[u]
                                      /\ held'[u] = held[u] /\ answer'[u] = answer[u]
          /\ pc' \in [Thread -> Places] /\ at' \in [Thread -> Map \X (1 .. 3)]
          /\ held' \in [Thread -> Made'] /\ answer' \in [Thread -> Deciders]
          /\ \/ cache # << >> /\ held'[t] = cache[2] /\ pc'[t] = "store" 
             \/ held'[t] = held[t] /\ pc'[t] = "fetch"
          /\ UNCHANGED <<at, answer, linkVars, pacVars, envVars>>
        BY <1>5, <1>a, <1>b, <1>c, <1>d, Goes, Holds
           DEF Discover, CacheHit, Made, linkVars, pacVars, envVars
    <2>2. TypeOK'
        BY <1>a, <1>c, <2>1 DEF TypeOK, Places, Deciders, Made, linkVars, pacVars, envVars
    <2>3. AtALink'
        BY <1>a, <2>1 DEF AtALink, InChain, Chain
    <2>4. LockedToLoad'
        <3>1. LockedTo(t)
            BY DEF LockedToLoad, LockedTo
        <3>2. LockedTo(t)'
            BY <1>a, <1>c, <2>1, <3>1, NoThreadIsNone
               DEF LockedTo, Loads, LinkOf, SourceOf, Chain, TypeOK, linkVars, pacVars, envVars
        <3>3. QED
            BY <1>a, <2>1, <3>2, LocksStay, NoThreadIsNone DEF TypeOK, linkVars, pacVars, envVars
    <2>5. NoOrphan'
        BY <1>a, <1>c, <2>1, OrphansStay DEF Owning, linkVars, pacVars, envVars
    <2>6. AllIsWell'
        BY <1>a, <1>c, <2>1 DEF AllIsWell, Calm, LoadIsDue, TypeOK, linkVars, pacVars, envVars
    <2>7. QED
        BY <2>2, <2>3, <2>4, <2>5, <2>6
<1>6. CASE LoadPac(t)
    <2>1. /\ pc[t] = "load" /\ pc'[t] = "fetch"
          /\ \A u \in Thread : u # t => /\ pc'[u] = pc[u] /\ at'[u] = at[u]
                                      /\ held'[u] = held[u] /\ answer'[u] = answer[u]
          /\ pc' \in [Thread -> Places] /\ at' \in [Thread -> Map \X (1 .. 3)]
          /\ held' \in [Thread -> Made'] /\ answer' \in [Thread -> Deciders]
          /\ UNCHANGED <<at, held, answer, linkVars, pacVars, envVars>>
        BY <1>6, <1>a, <1>b, <1>c, Goes, Holds DEF LoadPac, Made, linkVars, pacVars, envVars
    <2>2. TypeOK'
        BY <1>a, <1>c, <2>1 DEF TypeOK, Places, Deciders, Made, linkVars, pacVars, envVars
    <2>3. AtALink'
        BY <1>a, <2>1 DEF AtALink, InChain, Chain
    <2>4. LockedToLoad'
        <3>1. LockedTo(t)
            BY DEF LockedToLoad, LockedTo
        <3>2. LockedTo(t)'
            BY <1>a, <1>c, <2>1, <3>1, NoThreadIsNone
               DEF LockedTo, Loads, LinkOf, SourceOf, Chain, TypeOK, linkVars, pacVars, envVars
        <3>3. QED
            BY <1>a, <2>1, <3>2, LocksStay, NoThreadIsNone DEF TypeOK, linkVars, pacVars, envVars
    <2>5. NoOrphan'
        BY <1>a, <1>c, <2>1, OrphansStay DEF Owning, linkVars, pacVars, envVars
    <2>6. AllIsWell'
        BY <1>a, <1>c, <2>1 DEF AllIsWell, Calm, LoadIsDue, TypeOK, linkVars, pacVars, envVars
    <2>7. QED
        BY <2>2, <2>3, <2>4, <2>5, <2>6
<1>7. CASE Fetch(t)
    <2>1. /\ pc[t] = "fetch" /\ pc'[t] \in {"cache", "store"}
          /\ \A u \in Thread : u # t => /\ pc'[u] = pc[u] /\ at'[u] = at[u]
                                      /\ held'[u] = held[u] /\ answer'[u] = answer[u]
          /\ pc' \in [Thread -> Places] /\ at' \in [Thread -> Map \X (1 .. 3)]
          /\ held' \in [Thread -> Made'] /\ answer' \in [Thread -> Deciders]
          /\ \/ made' = made + 1 /\ alive' = alive \cup {made + 1} /\ held'[t] = made + 1
             \/ SourceOf(t) \notin up /\ UNCHANGED <<made, alive, held>>
          /\ fetched' \in [Source -> Nat \cup {-1}]
          /\ UNCHANGED <<at, answer, linkVars, cache, envVars>>
        <3>1. /\ pc[t] = "fetch" /\ UNCHANGED <<linkVars, cache, at, answer, envVars>>
              /\ \E place \in {"cache", "store"} : Goto(t, place)
              /\ fetched' \in [Source -> Nat \cup {-1}]
            BY <1>7, <1>a DEF Fetch, TypeOK, envVars
        <3>2. \/ made' = made + 1 /\ alive' = alive \cup {made + 1} /\ Hold(t, made + 1)
              \/ SourceOf(t) \notin up /\ UNCHANGED <<made, alive, held>>
            BY <1>7 DEF Fetch
        <3>3. /\ pc' \in [Thread -> Places] /\ pc'[t] \in {"cache", "store"}
              /\ \A u \in Thread : u # t => pc'[u] = pc[u]
            BY <1>b, <3>1, Goes
        <3>4. CASE made' = made + 1 /\ alive' = alive \cup {made + 1} /\ Hold(t, made + 1)
            <4>1. /\ held' \in [Thread -> Made'] /\ held'[t] = made + 1
                  /\ \A u \in Thread : u # t => held'[u] = held[u]
                BY <1>c, <3>4, Holds
            <4>2. QED
                BY <1>c, <3>1, <3>3, <3>4, <4>1
        <3>5. CASE SourceOf(t) \notin up /\ UNCHANGED <<made, alive, held>>
            BY <1>c, <3>1, <3>3, <3>5 DEF Made
        <3>6. QED
            BY <3>2, <3>4, <3>5
    <2>2. TypeOK'
        <3>1. made' \in Nat /\ made <= made' /\ alive' \subseteq 1 .. made'
            <4>1. alive \subseteq 1 .. made
                BY DEF TypeOK
            <4>2. CASE made' = made + 1 /\ alive' = alive \cup {made + 1}
                BY <1>c, <4>1, <4>2
            <4>3. CASE UNCHANGED <<made, alive>>
                BY <1>c, <4>1, <4>3
            <4>4. QED
                BY <2>1, <4>2, <4>3
        <3>2. Made \subseteq Made'
            BY <1>c, <3>1 DEF Made
        <3>3. mapOf' \in [Link -> Made'] /\ cache' \in {<< >>} \cup (Nat \X Made')
            BY <2>1, <3>2 DEF TypeOK, linkVars
        <3>4. QED
            BY <1>c, <2>1, <3>1, <3>3 DEF TypeOK, Places, Deciders, linkVars, envVars
    <2>3. AtALink'
        BY <1>a, <2>1 DEF AtALink, InChain, Chain
    <2>4. LockedToLoad'
        <3>1. LockedTo(t)
            BY DEF LockedToLoad, LockedTo
        <3>2. LockedTo(t)'
            BY <1>a, <1>c, <2>1, <3>1, NoThreadIsNone
               DEF LockedTo, Loads, LinkOf, SourceOf, Chain, TypeOK, linkVars, envVars
        <3>3. QED
            BY <1>a, <2>1, <3>2, LocksStay, NoThreadIsNone DEF TypeOK, linkVars, envVars
    <2>5. NoOrphan'
        BY <1>a, <1>c, <2>1, OrphansStay DEF Owning, linkVars, envVars
    <2>6. AllIsWell'
        BY <1>a, <1>c, <2>1 DEF AllIsWell, Calm, LoadIsDue, TypeOK, linkVars, envVars
    <2>7. QED
        BY <2>2, <2>3, <2>4, <2>5, <2>6
<1>8. CASE FillCache(t)
    <2>1. /\ pc[t] = "cache" /\ pc'[t] = "store" /\ cache' = <<now, held[t]>>
          /\ \A u \in Thread : u # t => /\ pc'[u] = pc[u] /\ at'[u] = at[u]
                                      /\ held'[u] = held[u] /\ answer'[u] = answer[u]
          /\ pc' \in [Thread -> Places] /\ at' \in [Thread -> Map \X (1 .. 3)]
          /\ held' \in [Thread -> Made'] /\ answer' \in [Thread -> Deciders]
          /\ UNCHANGED <<at, held, answer, linkVars, fetched, alive, made, envVars>>
        BY <1>8, <1>a, <1>b, <1>c, Goes, Holds DEF FillCache, Made, linkVars, envVars
    <2>2. TypeOK'
        BY <1>a, <1>c, <2>1 DEF TypeOK, Places, Deciders, Made, linkVars, envVars
    <2>3. AtALink'
        BY <1>a, <2>1 DEF AtALink, InChain, Chain
    <2>4. LockedToLoad'
        <3>1. LockedTo(t)
            BY DEF LockedToLoad, LockedTo
        <3>2. LockedTo(t)'
            BY <1>a, <1>c, <2>1, <3>1, NoThreadIsNone
               DEF LockedTo, Loads, LinkOf, SourceOf, Chain, TypeOK, linkVars, envVars
        <3>3. QED
            BY <1>a, <2>1, <3>2, LocksStay, NoThreadIsNone DEF TypeOK, linkVars, envVars
    <2>5. NoOrphan'
        BY <1>a, <1>c, <2>1, OrphansStay DEF Owning, linkVars, envVars
    <2>6. AllIsWell'
        BY <1>a, <1>c, <2>1 DEF AllIsWell, Calm, LoadIsDue, TypeOK, linkVars, envVars
    <2>7. QED
        BY <2>2, <2>3, <2>4, <2>5, <2>6
<1>9. CASE Store(t)
    <2>1. /\ pc[t] = "store"
          /\ \A u \in Thread : u # t => /\ pc'[u] = pc[u] /\ at'[u] = at[u]
                                      /\ held'[u] = held[u] /\ answer'[u] = answer[u]
          /\ pc' \in [Thread -> Places] /\ at' \in [Thread -> Map \X (1 .. 3)]
          /\ held' \in [Thread -> Made'] /\ answer' \in [Thread -> Deciders]
          /\ mapOf' = [mapOf EXCEPT ![LinkOf(t)] = held[t]]
          /\ failedAt' = [failedAt EXCEPT ![LinkOf(t)] = IF held[t] = 0 THEN now ELSE @]
          /\ lock' = [lock EXCEPT ![LinkOf(t)] = NoThread]
          /\ \/ held[t] # 0 /\ pc'[t] = "ask" /\ at'[t] = at[t] /\ answer' = answer
             \/ /\ held[t] = 0 /\ at'[t] = <<at[t][1], at[t][2] + 1>>
                /\ \/ at[t][2] < Len(Chain(t)) /\ pc'[t] = "get" /\ answer' = answer
                   \/ pc'[t] = "idle" /\ answer'[t] = "manual"
          /\ UNCHANGED <<held, pacVars, envVars>>
        BY <1>9, <1>a, <1>b, <1>c, Goes, PassesOn DEF Store, Unlock, Made, pacVars, envVars
    <2>2. TypeOK'
        BY <1>a, <1>c, <2>1 DEF TypeOK, Places, Deciders, Made, pacVars, envVars
    <2>3. AtALink'
        BY <1>a, <2>1 DEF AtALink, InChain, Chain
    <2>4. LockedToLoad'
        <3>1. LockedTo(t)
            BY DEF LockedToLoad, LockedTo
        <3>2. lock[LinkOf(t)] = t /\ mapOf[LinkOf(t)] = 0
            BY <1>a, <2>1, <3>1 DEF LockedTo, Loads
        <3>3. LockedTo(t)'
            BY <1>a, <1>c, <2>1, <3>1, NoThreadIsNone
               DEF LockedTo, Loads, LinkOf, SourceOf, Chain, TypeOK, pacVars, envVars
        <3>4. \A u \in Thread, l \in Link : u # t => (lock'[l] = u <=> lock[l] = u)
            BY <1>a, <2>1, <3>2, NoThreadIsNone DEF TypeOK
        <3>5. \A l \in Link : mapOf'[l] = mapOf[l] \/ lock[l] \in {t, NoThread}
            BY <1>a, <1>c, <2>1, <3>2
        <3>6. QED
            BY <2>1, <3>3, <3>4, <3>5, LocksStay
    <2>5. NoOrphan'
        <3>1. mapOf[LinkOf(t)] = 0 /\ 0 \notin alive
            BY <1>a, <2>1 DEF LockedToLoad, Loads, TypeOK
        <3>2. \A l \in Link : mapOf'[l] = mapOf[l] \/ mapOf[l] \notin alive
            BY <1>a, <1>c, <2>1, <3>1
        <3>3. LinkOf(t) \in Link /\ mapOf'[LinkOf(t)] = held[t]
            BY <1>a, <1>c, <2>1
        <3>4. alive' = alive
            BY <2>1 DEF pacVars
        <3>5. QED
            BY <2>1, <3>2, <3>3, <3>4, OrphansStay
    <2>6. AllIsWell'
        BY <1>a, <1>c, <2>1 DEF AllIsWell, Calm, LoadIsDue, TypeOK, pacVars, envVars
    <2>7. QED
        BY <2>2, <2>3, <2>4, <2>5, <2>6
<1>10. CASE Ask(t)
    <2>1. /\ pc[t] = "ask" /\ held'[t] = 0
          /\ \A u \in Thread : u # t => /\ pc'[u] = pc[u] /\ at'[u] = at[u]
                                      /\ held'[u] = held[u] /\ answer'[u] = answer[u]
          /\ pc' \in [Thread -> Places] /\ at' \in [Thread -> Map \X (1 .. 3)]
          /\ held' \in [Thread -> Made'] /\ answer' \in [Thread -> Deciders]
          /\ \/ held[t] \in alive /\ pc'[t] = "idle" /\ at'[t] = at[t] /\ answer'[t] \in Source
             \/ /\ held[t] \notin alive /\ at'[t] = <<at[t][1], at[t][2] + 1>>
                /\ \/ at[t][2] < Len(Chain(t)) /\ pc'[t] = "get" /\ answer' = answer
                   \/ pc'[t] = "idle" /\ answer'[t] = "manual"
          /\ UNCHANGED <<linkVars, pacVars, envVars>>
        BY <1>10, <1>a, <1>b, <1>c, Holds, AnswersSo, PassesOn
           DEF Ask, Made, linkVars, pacVars, envVars
    <2>2. TypeOK'
        BY <1>a, <1>c, <2>1 DEF TypeOK, Places, Deciders, Made, linkVars, pacVars, envVars
    <2>3. AtALink'
        BY <1>a, <2>1 DEF AtALink, InChain, Chain
    <2>4. LockedToLoad'
        <3>1. LockedTo(t)
            BY DEF LockedToLoad, LockedTo
        <3>2. LockedTo(t)'
            BY <1>a, <1>c, <2>1, <3>1, NoThreadIsNone
               DEF LockedTo, Loads, LinkOf, SourceOf, Chain, TypeOK, linkVars, pacVars, envVars
        <3>3. QED
            BY <1>a, <2>1, <3>2, LocksStay, NoThreadIsNone DEF TypeOK, linkVars, pacVars, envVars
    <2>5. NoOrphan'
        BY <1>a, <1>c, <2>1, OrphansStay DEF Owning, linkVars, pacVars, envVars
    <2>6. AllIsWell'
        <3> SUFFICES ASSUME Calm PROVE AllIsWell'
            BY <2>1 DEF AllIsWell, Calm, envVars
        <3>1. held[t] \in alive
            BY <2>1 DEF AllIsWell
        <3>2. pc'[t] = "idle" /\ answer'[t] # "manual"
            BY <2>1, <3>1 DEF Source
        <3>3. QED
            BY <2>1, <3>2 DEF AllIsWell, Calm, linkVars, pacVars, envVars
    <2>7. QED
        BY <2>2, <2>3, <2>4, <2>5, <2>6
<1>11. CASE Swap(t)
    <2>1. /\ pc[t] = "swap" /\ pc'[t] = "free" /\ lock[LinkOf(t)] = NoThread
          /\ held'[t] = mapOf[LinkOf(t)]
          /\ \A u \in Thread : u # t => /\ pc'[u] = pc[u] /\ at'[u] = at[u]
                                      /\ held'[u] = held[u] /\ answer'[u] = answer[u]
          /\ pc' \in [Thread -> Places] /\ at' \in [Thread -> Map \X (1 .. 3)]
          /\ held' \in [Thread -> Made'] /\ answer' \in [Thread -> Deciders]
          /\ mapOf' = [mapOf EXCEPT ![LinkOf(t)] = 0]
          /\ UNCHANGED <<at, answer, failedAt, lock, pacVars, envVars>>
        BY <1>11, <1>a, <1>b, <1>c, Goes, Holds DEF Swap, Unlocked, Made, pacVars, envVars
    <2>2. TypeOK'
        BY <1>a, <1>c, <2>1 DEF TypeOK, Places, Deciders, Made, pacVars, envVars
    <2>3. AtALink'
        BY <1>a, <2>1 DEF AtALink, InChain, Chain
    <2>4. LockedToLoad'
        <3>1. LockedTo(t)
            BY DEF LockedToLoad, LockedTo
        <3>2. LockedTo(t)'
            BY <1>a, <1>c, <2>1, <3>1, NoThreadIsNone
               DEF LockedTo, Loads, LinkOf, SourceOf, Chain, TypeOK, pacVars, envVars
        <3>3. QED
            BY <1>a, <2>1, <3>2, LocksStay, NoThreadIsNone DEF TypeOK, pacVars, envVars
    <2>5. NoOrphan'
        BY <1>a, <1>c, <2>1, OrphansStay DEF Owning, pacVars, envVars
    <2>6. AllIsWell'
        BY <1>a, <1>c, <2>1 DEF AllIsWell, Calm, LoadIsDue, TypeOK, pacVars, envVars
    <2>7. QED
        BY <2>2, <2>3, <2>4, <2>5, <2>6
<1>12. CASE Free(t)
    <2>1. /\ pc[t] = "free" /\ alive' = alive \ {held[t]} /\ held'[t] = 0
          /\ \A u \in Thread : u # t => /\ pc'[u] = pc[u] /\ at'[u] = at[u]
                                      /\ held'[u] = held[u] /\ answer'[u] = answer[u]
          /\ pc' \in [Thread -> Places] /\ at' \in [Thread -> Map \X (1 .. 3)]
          /\ held' \in [Thread -> Made'] /\ answer' \in [Thread -> Deciders]
          /\ at'[t] = <<at[t][1], at[t][2] + 1>>
          /\ \/ at[t][2] < Len(Chain(t)) /\ pc'[t] = "swap" 
             \/ pc'[t] = "idle"
          /\ UNCHANGED <<answer, linkVars, cache, fetched, made, envVars>>
        BY <1>12, <1>a, <1>b, <1>c, Goes, Holds DEF Free, Made, linkVars, envVars
    <2>2. TypeOK'
        BY <1>a, <1>c, <2>1 DEF TypeOK, Places, Deciders, Made, linkVars, envVars
    <2>3. AtALink'
        BY <1>a, <2>1 DEF AtALink, InChain, Chain
    <2>4. LockedToLoad'
        <3>1. LockedTo(t)
            BY DEF LockedToLoad, LockedTo
        <3>2. LockedTo(t)'
            BY <1>a, <1>c, <2>1, <3>1, NoThreadIsNone
               DEF LockedTo, Loads, LinkOf, SourceOf, Chain, TypeOK, linkVars, envVars
        <3>3. QED
            BY <1>a, <2>1, <3>2, LocksStay, NoThreadIsNone DEF TypeOK, linkVars, envVars
    <2>5. NoOrphan'
        BY <1>a, <1>c, <2>1, OrphansStay DEF Owning, linkVars, envVars
    <2>6. AllIsWell'
        BY <1>a, <1>c, <2>1 DEF AllIsWell, Calm, LoadIsDue, TypeOK, linkVars, envVars
    <2>7. QED
        BY <2>2, <2>3, <2>4, <2>5, <2>6
<1>13. QED
    BY <1>1, <1>2, <1>3, <1>4, <1>5, <1>6, <1>7, <1>8, <1>9, <1>10, <1>11, <1>12 DEF Advance

(* The servers and the clock change nothing the threads hold. *)
LEMMA WorldStep ==
    ASSUME SourcesInv, ServersChange \/ Tick \/ UNCHANGED vars
    PROVE  SourcesInv'
<1> USE DEF SourcesInv
<1>1. UNCHANGED <<linkVars, pacVars, threadVars, ops, everClosed>>
    BY DEF ServersChange, Tick, vars, envVars
<1>2. /\ up' \subseteq Source /\ now' \in Nat /\ everDown' \in BOOLEAN
      /\ (~everDown' => ~everDown /\ (up = Source => up' = Source))
    <2>1. now \in Nat /\ up \subseteq Source /\ everDown \in BOOLEAN
        BY DEF TypeOK
    <2>2. CASE ServersChange
        BY <2>1, <2>2 DEF ServersChange
    <2>3. CASE Tick
        BY <2>1, <2>3 DEF Tick
    <2>4. CASE UNCHANGED vars
        BY <2>1, <2>4 DEF vars, envVars
    <2>5. QED
        BY <2>2, <2>3, <2>4
<1>3. TypeOK'
    BY <1>1, <1>2 DEF TypeOK, Made, linkVars, pacVars, threadVars
<1>4. AtALink'
    BY <1>1 DEF AtALink, InChain, Chain, threadVars
<1>5. LockedToLoad'
    BY <1>1 DEF LockedToLoad, Loads, LinkOf, SourceOf, Chain, linkVars, threadVars
<1>6. NoOrphan'
    BY <1>1 DEF NoOrphan, linkVars, pacVars, threadVars
<1>7. AllIsWell'
    BY <1>1, <1>2 DEF AllIsWell, Calm, linkVars, pacVars, threadVars
<1>8. QED
    BY <1>3, <1>4, <1>5, <1>6, <1>7

(* What the maps hold, who holds the locks and what a calm past implies.     *)
THEOREM SourcesInvariant == Spec => []SourcesInv
<1>1. Init => SourcesInv
    <2> SUFFICES ASSUME Init PROVE SourcesInv
        OBVIOUS
    <2>1. TypeOK
        <3>1. MaxOps \in Nat
            BY SourcesAssumption
        <3>2. at \in [Thread -> Map \X (1 .. 3)]
            BY DEF Init
        <3>3. /\ mapOf \in [Link -> Made] /\ held \in [Thread -> Made]
              /\ failedAt \in [Link -> Nat \cup {-1}] /\ fetched \in [Source -> Nat \cup {-1}]
              /\ lock \in [Link -> Thread \cup {NoThread}] /\ alive \subseteq 1 .. made
            BY DEF Init, Made
        <3>4. up \subseteq Source /\ ops \in 0 .. MaxOps /\ made \in Nat /\ now \in Nat
            BY <3>1 DEF Init
        <3>5. everDown \in BOOLEAN /\ everClosed \in BOOLEAN
            BY Zenon DEF Init
        <3>6. /\ answer \in [Thread -> Source \cup {"none", "manual"}] /\ cache = << >>
              /\ pc \in [Thread -> {"idle", "get", "load", "fetch", "cache",
                                  "store", "ask", "swap", "free"}]
            BY DEF Init
        <3>7. QED
            BY <3>2, <3>3, <3>4, <3>5, <3>6 DEF TypeOK
    <2>2. AtALink /\ LockedToLoad /\ NoOrphan
        BY NoThreadIsNone DEF Init, AtALink, LockedToLoad, Loads, NoOrphan
    <2>3. AllIsWell
        BY DEF Init, AllIsWell, Calm
    <2>4. QED
        BY <2>1, <2>2, <2>3 DEF SourcesInv
<1>2. SourcesInv /\ [Next]_vars => SourcesInv'
    BY ThreadStep, WorldStep DEF Next
<1>3. QED
    BY <1>1, <1>2, PTL DEF Spec

(* The state keeps its types; a link, the cache and a thread hold only maps  *)
(* that were made.                                                           *)
THEOREM SourcesTypes == Spec => []TypeOK
BY SourcesInvariant, PTL DEF SourcesInv

(* No helper process is out of reach of every close(), whatever loads,       *)
(* retries, failures and closes overlap (_config.py:159-175).                *)
THEOREM NoHelperOrphaned == Spec => []NoOrphan
BY SourcesInvariant, PTL DEF SourcesInv

(* While every server is up and nothing is closed, no lookup falls through   *)
(* to the manual proxies, however lookups of several maps overlap.           *)
THEOREM UpSourcesAreUsed == Spec => []UpMeansUsed
<1>1. SourcesInv => UpMeansUsed
    BY DEF SourcesInv, AllIsWell, Calm, UpMeansUsed
<1>2. QED
    BY <1>1, SourcesInvariant, PTL
=============================================================================
