---------------------------- MODULE PatchingProofs ----------------------------
(***************************************************************************)
(* Proofs about Patching, for every set of threads and clients and any     *)
(* number of patches, registrations and client objects.                    *)
(***************************************************************************)
EXTENDS Patching, WellFoundedInduction, TLAPS, SequenceTheorems

(* Where a thread can be with the name, the names left and the patch it has  *)
(* in hand.                                                                  *)
Order(place, hand, left, patch) ==
    /\ hand.next \in {"idle", "loaded", "ready", "import", "mark"}
    /\ patch = 0 => left = {}
    /\ place = "idle" => patch = 0
    /\ place \in {"import", "list", "mark", "ready"} => patch # 0
    /\ place \in {"execute", "loaded"} => hand.next = "loaded"
    /\ place \in {"hook", "add"} => hand.next \in {"idle", "import", "mark"}
    /\ place \in {"idle", "import", "list", "mark", "ready"} => hand.next = "idle"
    /\ place \in {"hook", "add", "wanted", "install"} =>
         /\ hand.next \in {"ready", "import", "mark"} => patch # 0
         /\ hand.next = "idle" => patch = 0
ThreadOrder(t) == Order(pc[t], at[t], todo[t], mine[t])

(* The threads, and the numbers of the patches: a frame is older the lower   *)
(* it lies, and a patch under way is one thread's.                           *)
PatchOrder ==
    /\ \A t \in Thread : ThreadOrder(t)
    /\ \A i \in 1 .. Len(frames) : frames[i].id \in 1 .. Len(outcome)
    /\ \A i, j \in 1 .. Len(frames) : i < j => frames[i].id < frames[j].id
    /\ \A t \in Thread : mine[t] # 0 => mine[t] <= Len(outcome) /\ outcome[mine[t]] = "running"
    /\ \A t, u \in Thread : mine[t] # 0 /\ mine[t] = mine[u] => t = u

(* What was active for a client under the first k frames. *)
CoveringUpTo(k, n) == {i \in 1 .. k : Covers(frames[i], n)}
ActiveUnder(k, n) ==
    IF CoveringUpTo(k, n) = {} THEN Default(n)
    ELSE frames[CHOOSE i \in CoveringUpTo(k, n) : \A j \in CoveringUpTo(k, n) : j <= i].id

(* Every frame remembers what was active under it. *)
BeforeKnown ==
    \A i \in 1 .. Len(frames), n \in Target : frames[i].before[n] = ActiveUnder(i - 1, n)

(* An import is one thread's, and no other thread patches meanwhile. *)
ImportsAlone ==
    \A t \in Thread : at[t].next = "loaded" =>
       /\ imported[at[t].name] = "initializing"
       /\ \A u \in Thread \ {t} :
             mine[u] = 0 /\ ~(at[u].next = "loaded" /\ at[u].name = at[t].name)

(* A thread that marked the client will see to it, or a patch under way will. *)
InHand(t, n) == at[t].name = n /\ pc[t] \in {"wanted", "install"}
Registrar(t, n) ==
    /\ at[t].name = n
    /\ \/ at[t].next \in {"idle", "import", "mark"} /\ pc[t] \in {"add", "wanted", "install"}
       \/ at[t].next = "idle" /\ pc[t] = "hook" /\ n \notin hooked
OnItsWay(n) == \E t \in Thread : Registrar(t, n)
Served(n) == n \in installed \/ OnItsWay(n)
WillReach(t, n) ==
    \/ pc[t] \in {"import", "list", "mark"} \/ at[t].next \in {"loaded", "import", "mark"}
    \/ n \in todo[t]
    \/ at[t].next = "ready" /\ InHand(t, n)

HooksFollow ==
    \A n \in Registered \ hooked :
        \E t \in Thread : pc[t] = "hook" /\ at[t].name = n /\ at[t].next = "idle"

(* A client that is marked has its hook, or a thread is about to add it. *)
AddsFollow == \A n \in hooked \ hooks : \E t \in Thread : pc[t] = "add" /\ at[t].name = n

Installable == Registered \ Broken
Asked(n) == (\E i \in 1 .. Len(frames) : Covers(frames[i], n)) \/ (SettingWants(n) /\ ~uninstalled)

(* An imported client that a patch covers or the settings name is installed, *)
(* or a thread is about to.                                                  *)
FramesServed ==
    \A n \in Installable, i \in 1 .. Len(frames) :
        imported[n] = "done" /\ Covers(frames[i], n) /\ outcome[frames[i].id] # "raised"
            => \/ Served(n)
               \/ \E t \in Thread : mine[t] = frames[i].id /\ WillReach(t, n)
SettingServed ==
    \A n \in Installable :
        imported[n] = "done" /\ SettingWants(n) /\ ~uninstalled => Served(n)
ImportServed ==
    \A t \in Thread : pc[t] = "loaded" /\ at[t].name \in Installable /\ Asked(at[t].name)
        => Served(at[t].name)

InstalledWrapped == \A n \in installed : wraps[n] # Untouched
PromisesKept ==
    \A i \in 1 .. Len(clients) :
        clients[i].promised /\ ~clients[i].marked => clients[i].via # "own"

PatchingInv == TypeOK /\ PatchOrder
ServedInv ==
    /\ ImportsAlone /\ HooksFollow /\ AddsFollow /\ FramesServed /\ SettingServed
    /\ ImportServed /\ InstalledWrapped /\ PromisesKept

-----------------------------------------------------------------------------
(* The newest of several frames there is one of.                             *)
LEMMA NewestExists ==
  ASSUME NEW k \in Nat, NEW S \in SUBSET (1 .. k), S # {}
  PROVE  \E i \in S : \A j \in S : j <= i
<1> DEFINE D == {k - i : i \in S}
<1>1. D \subseteq Nat /\ D # {}
  <2>1. \A i \in S : k - i \in Nat
    OBVIOUS
  <2>2. PICK i \in S : TRUE
    OBVIOUS
  <2>3. k - i \in D
    OBVIOUS
  <2>4. QED
    BY <2>1, <2>3
<1>2. \E x \in D : \A y \in D : <<y, x>> \notin OpToRel(<, Nat)
  BY <1>1, NatLessThanWellFounded, WFMin
<1>3. PICK x \in D : \A y \in D : ~(y < x)
  BY <1>1, <1>2 DEF OpToRel
<1>4. PICK i \in S : x = k - i
  BY <1>3
<1>5. ASSUME NEW j \in S PROVE j <= i
  <2>1. k - j \in D
    OBVIOUS
  <2>2. i \in Nat /\ j \in Nat
    <3>1. i \in 1 .. k /\ j \in 1 .. k
      BY Zenon
    <3>2. QED
      BY <3>1
  <2>3. ~(k - j < k - i)
    BY <1>3, <1>4, <2>1
  <2>4. QED
    BY <2>2, <2>3
<1>6. QED
  BY <1>5

(* What is active is a frame's patch or a default.                           *)
LEMMA ActiveIs ==
  ASSUME TypeOK, NEW n \in Target
  PROVE  Active(n) = ActiveUnder(Len(frames), n)
BY DEF Active, ActiveUnder, CoveringUpTo

(* It is the newest frame's, of those that cover the client. *)
LEMMA UnderTyped ==
  ASSUME TypeOK, NEW n \in Target, NEW k \in 0 .. Len(frames)
  PROVE  /\ ActiveUnder(k, n) \in Opinions
         /\ CoveringUpTo(k, n) # {} =>
              \E i \in CoveringUpTo(k, n) :
                /\ \A j \in CoveringUpTo(k, n) : j <= i
                /\ ActiveUnder(k, n) = frames[i].id
<1>1. frames \in Seq(Frame) /\ Len(frames) \in Nat
  BY DEF TypeOK
<1>2. CASE CoveringUpTo(k, n) = {}
  BY <1>2 DEF ActiveUnder, Default, Opinions
<1>3. CASE CoveringUpTo(k, n) # {}
  <2> DEFINE C == CoveringUpTo(k, n)
             newest == CHOOSE i \in C : \A j \in C : j <= i
  <2>1. C \in SUBSET (1 .. k) /\ k \in Nat
    BY <1>1 DEF CoveringUpTo
  <2>2. ActiveUnder(k, n) = frames[newest].id
    BY <1>3 DEF ActiveUnder
  <2> HIDE DEF C
  <2>3. \E i \in C : \A j \in C : j <= i
    BY <1>3, <2>1, NewestExists DEF C
  <2>4. newest \in C /\ \A j \in C : j <= newest
    BY <2>3
  <2> HIDE DEF newest
  <2>5. newest \in 1 .. Len(frames)
    BY <1>1, <2>1, <2>4
  <2>6. frames[newest].id \in Patches
    <3>1. frames[newest] \in Frame
      BY <1>1, <2>5
    <3>2. QED
      BY <3>1 DEF Frame
  <2>7. QED
    BY <2>2, <2>4, <2>6 DEF C, Opinions
<1>4. QED
  BY <1>2, <1>3

-----------------------------------------------------------------------------
(* What the steps do to the threads.                                         *)

Hands == [name : Target, next : PCs]

(* Thread t alone moves: to a place, with this in hand.                      *)
Sets(t, place, hand, left, patch) ==
    /\ pc'[t] = place /\ at'[t] = hand /\ todo'[t] = left /\ mine'[t] = patch
    /\ \A u \in Thread \ {t} :
         pc'[u] = pc[u] /\ at'[u] = at[u] /\ todo'[u] = todo[u] /\ mine'[u] = mine[u]
    /\ pc' \in [Thread -> PCs] /\ at' \in [Thread -> Hands]
    /\ todo' \in [Thread -> SUBSET Target] /\ mine' \in [Thread -> 0 .. MaxPatches]

(* A step that sets these for one thread. *)
LEMMA OneThread ==
  ASSUME TypeOK, NEW t \in Thread, NEW place \in PCs, NEW hand \in Hands,
         NEW left \in SUBSET Target, NEW patch \in 0 .. MaxPatches,
         pc' = [pc EXCEPT ![t] = place] \/ (UNCHANGED pc /\ place = pc[t]),
         at' = [at EXCEPT ![t] = hand] \/ (UNCHANGED at /\ hand = at[t]),
         todo' = [todo EXCEPT ![t] = left] \/ (UNCHANGED todo /\ left = todo[t]),
         mine' = [mine EXCEPT ![t] = patch] \/ (UNCHANGED mine /\ patch = mine[t])
  PROVE  Sets(t, place, hand, left, patch)
<1>0. /\ pc \in [Thread -> PCs] /\ at \in [Thread -> Hands]
      /\ todo \in [Thread -> SUBSET Target] /\ mine \in [Thread -> 0 .. MaxPatches]
  BY DEF TypeOK, Hands
<1> HIDE DEF PCs, Hands
<1>1. pc' \in [Thread -> PCs] /\ pc'[t] = place /\ \A u \in Thread \ {t} : pc'[u] = pc[u]
  BY <1>0
<1>2. at' \in [Thread -> Hands] /\ at'[t] = hand /\ \A u \in Thread \ {t} : at'[u] = at[u]
  BY <1>0
<1>3. /\ todo' \in [Thread -> SUBSET Target] /\ todo'[t] = left
      /\ \A u \in Thread \ {t} : todo'[u] = todo[u]
  BY <1>0
<1>4. /\ mine' \in [Thread -> 0 .. MaxPatches] /\ mine'[t] = patch
      /\ \A u \in Thread \ {t} : mine'[u] = mine[u]
  BY <1>0
<1>5. QED
  BY <1>1, <1>2, <1>3, <1>4 DEF Sets

(* What a thread has is typed, and so is what it may get. *)
LEMMA HandsTyped ==
  ASSUME TypeOK, NEW t \in Thread
  PROVE  /\ pc[t] \in PCs /\ at[t] \in Hands /\ todo[t] \in SUBSET Target
         /\ mine[t] \in 0 .. MaxPatches
         /\ at[t].name \in Target /\ at[t].next \in PCs
         /\ Nowhere \in Hands /\ Nowhere.next = "idle"
         /\ \A n \in Target, p \in PCs :
              LET h == [name |-> n, next |-> p] IN h \in Hands /\ h.name = n /\ h.next = p
<1>1. (CHOOSE n \in Target : TRUE) \in Target
  BY PatchingAssumption
<1>2. "idle" \in PCs
  BY DEF PCs
<1> HIDE DEF PCs
<1>3. QED
  BY <1>1, <1>2 DEF TypeOK, Hands, Nowhere

(* Where a thread goes on from "wanted" and "install".                       *)
GoneOn(t) == IF at[t].next = "loaded" THEN at[t] ELSE Nowhere

(* What _on_import does when it asks whether a client is wanted.             *)
LEMMA CheckWantedDoes ==
  ASSUME TypeOK, NEW t \in Thread, CheckWanted(t)
  PROVE  /\ pc[t] = "wanted"
         /\ \/ Wanted(at[t].name) /\ Sets(t, "install", at[t], todo[t], mine[t])
            \/ ~Wanted(at[t].name) /\ Sets(t, at[t].next, GoneOn(t), todo[t], mine[t])
         /\ UNCHANGED <<setting, registry, hooked, hooks, imported, installed, wraps, frames,
                        outcome, clients, uninstalled>>
<1>1. /\ pc[t] = "wanted"
      /\ UNCHANGED <<setting, registry, hooked, hooks, imported, installed, wraps, frames,
                     outcome, clients, uninstalled, todo, mine>>
  BY DEF CheckWanted, environment, history
<1>2. CASE Wanted(at[t].name)
  <2>1. pc' = [pc EXCEPT ![t] = "install"] /\ UNCHANGED at
    BY <1>2 DEF CheckWanted, Goto
  <2>2. "install" \in PCs
    BY DEF PCs
  <2>3. Sets(t, "install", at[t], todo[t], mine[t])
    BY <1>1, <2>1, <2>2, HandsTyped, OneThread
  <2>4. QED
    BY <1>1, <1>2, <2>3
<1>3. CASE ~Wanted(at[t].name)
  <2>1. /\ pc' = [pc EXCEPT ![t] = at[t].next]
        /\ at' = [at EXCEPT ![t] = GoneOn(t)] \/ (UNCHANGED at /\ GoneOn(t) = at[t])
    BY <1>3 DEF CheckWanted, GoOn, Goto, GoneOn
  <2>2. GoneOn(t) \in Hands
    BY HandsTyped DEF GoneOn
  <2>3. Sets(t, at[t].next, GoneOn(t), todo[t], mine[t])
    BY <1>1, <2>1, <2>2, HandsTyped, OneThread
  <2>4. QED
    BY <1>1, <1>3, <2>3
<1>4. QED
  BY <1>2, <1>3

(* What _install does.                                                       *)
LEMMA InstallDoes ==
  ASSUME TypeOK, NEW t \in Thread, Install(t)
  PROVE  /\ pc[t] = "install"
         /\ Sets(t, at[t].next, GoneOn(t), todo[t], mine[t])
         /\ \/ /\ at[t].name \in Registered \ (installed \cup Broken)
               /\ wraps' = [wraps EXCEPT ![at[t].name][registry[at[t].name]] = @ + 1]
               /\ installed' = installed \cup {at[t].name}
            \/ /\ at[t].name \notin Registered \ (installed \cup Broken)
               /\ UNCHANGED <<wraps, installed>>
         /\ UNCHANGED <<setting, registry, hooked, hooks, imported, frames, outcome, clients,
                        uninstalled>>
<1>1. /\ pc[t] = "install"
      /\ UNCHANGED <<setting, registry, hooked, hooks, imported, frames, outcome, clients,
                     uninstalled, todo, mine>>
      /\ GoOn(t)
  BY DEF Install, environment, history
<1>2. \/ /\ at[t].name \in Registered \ (installed \cup Broken)
         /\ wraps' = [wraps EXCEPT ![at[t].name][registry[at[t].name]] = @ + 1]
         /\ installed' = installed \cup {at[t].name}
      \/ /\ at[t].name \notin Registered \ (installed \cup Broken)
         /\ UNCHANGED <<wraps, installed>>
  BY DEF Install
<1>3. /\ pc' = [pc EXCEPT ![t] = at[t].next]
      /\ at' = [at EXCEPT ![t] = GoneOn(t)] \/ (UNCHANGED at /\ GoneOn(t) = at[t])
  BY <1>1 DEF GoOn, Goto, GoneOn
<1>4. GoneOn(t) \in Hands
  BY HandsTyped DEF GoneOn
<1>5. Sets(t, at[t].next, GoneOn(t), todo[t], mine[t])
  BY <1>1, <1>3, <1>4, HandsTyped, OneThread
<1>6. QED
  BY <1>1, <1>2, <1>5

(* What the start of an import does.                                         *)
LEMMA ImportDoes ==
  ASSUME TypeOK, NEW t \in Thread, Import(t)
  PROVE  /\ pc[t] = "idle" /\ (ImportsOverlap \/ Patching = {})
         /\ \E n \in Target :
              /\ imported[n] = "no"
              /\ imported' = [imported EXCEPT ![n] = "initializing"]
              /\ Sets(t, "execute", [name |-> n, next |-> "loaded"], todo[t], mine[t])
         /\ UNCHANGED <<setting, registry, hooked, hooks, installed, wraps, frames, outcome,
                        clients, uninstalled>>
<1>1. /\ pc[t] = "idle" /\ (ImportsOverlap \/ Patching = {})
      /\ UNCHANGED <<setting, registry, hooked, hooks, installed, wraps, frames, outcome,
                     clients, uninstalled, todo, mine>>
      /\ pc' = [pc EXCEPT ![t] = "execute"]
  BY DEF Import, Goto, history
<1>2. PICK n \in Target :
        /\ imported[n] = "no"
        /\ imported' = [imported EXCEPT ![n] = "initializing"]
        /\ at' = [at EXCEPT ![t] = [name |-> n, next |-> "loaded"]]
  BY DEF Import
<1>3. "execute" \in PCs /\ "loaded" \in PCs
  BY DEF PCs
<1>4. Sets(t, "execute", [name |-> n, next |-> "loaded"], todo[t], mine[t])
  BY <1>1, <1>2, <1>3, HandsTyped, OneThread
<1>5. QED
  BY <1>1, <1>2, <1>4

(* What patch() does about a client it was told to cover.                    *)
LEMMA ImportNamedDoes ==
  ASSUME TypeOK, NEW t \in Thread, ImportNamed(t)
  PROVE  /\ pc[t] = "import"
         /\ \E n \in todo[t] :
              \/ /\ imported[n] = "no" /\ (ImportsOverlap \/ Patching = {t})
                 /\ imported' = [imported EXCEPT ![n] = "initializing"]
                 /\ Sets(t, "execute", [name |-> n, next |-> "loaded"], todo[t] \ {n}, mine[t])
              \/ /\ imported[n] # "no" /\ imported' = imported
                 /\ Sets(t, "hook", [name |-> n, next |-> "import"], todo[t] \ {n}, mine[t])
         /\ UNCHANGED <<setting, registry, hooked, hooks, installed, wraps, frames, outcome,
                        clients, uninstalled>>
<1>1. /\ pc[t] = "import"
      /\ UNCHANGED <<setting, registry, hooked, hooks, installed, wraps, frames, outcome,
                     clients, uninstalled, mine>>
  BY DEF ImportNamed, history
<1>2. PICK n \in todo[t] :
        /\ todo' = [todo EXCEPT ![t] = @ \ {n}]
        /\ IF imported[n] = "no"
             THEN /\ ImportsOverlap \/ Patching = {t}
                  /\ imported' = [imported EXCEPT ![n] = "initializing"]
                  /\ at' = [at EXCEPT ![t] = [name |-> n, next |-> "loaded"]]
                  /\ pc' = [pc EXCEPT ![t] = "execute"]
             ELSE /\ at' = [at EXCEPT ![t] = [name |-> n, next |-> "import"]]
                  /\ pc' = [pc EXCEPT ![t] = "hook"] /\ UNCHANGED imported
  BY DEF ImportNamed, Goto
<1>3. {"execute", "loaded", "hook", "import"} \subseteq PCs
  BY DEF PCs
<1>4. n \in Target /\ todo[t] \ {n} \in SUBSET Target /\ todo' = [todo EXCEPT ![t] = todo[t] \ {n}]
  BY <1>2, HandsTyped
<1>5. CASE imported[n] = "no"
  <2>1. Sets(t, "execute", [name |-> n, next |-> "loaded"], todo[t] \ {n}, mine[t])
    BY <1>1, <1>2, <1>3, <1>4, <1>5, HandsTyped, OneThread
  <2>2. QED
    BY <1>1, <1>2, <1>5, <2>1
<1>6. CASE imported[n] # "no"
  <2>1. Sets(t, "hook", [name |-> n, next |-> "import"], todo[t] \ {n}, mine[t])
    BY <1>1, <1>2, <1>3, <1>4, <1>6, HandsTyped, OneThread
  <2>2. QED
    BY <1>1, <1>2, <1>6, <2>1
<1>7. QED
  BY <1>5, <1>6

(* What the end of the execution of a module does.                           *)
LEMMA ExecutedDoes ==
  ASSUME TypeOK, NEW t \in Thread, Executed(t)
  PROVE  /\ pc[t] = "execute"
         /\ \/ at[t].name \in hooks /\ Sets(t, "wanted", at[t], todo[t], mine[t])
            \/ at[t].name \notin hooks /\ Sets(t, "loaded", at[t], todo[t], mine[t])
         /\ UNCHANGED <<setting, registry, hooked, hooks, imported, installed, wraps, frames,
                        outcome, clients, uninstalled>>
<1>1. /\ pc[t] = "execute"
      /\ UNCHANGED <<setting, registry, hooked, hooks, imported, installed, wraps, frames,
                     outcome, clients, uninstalled, todo, at, mine>>
      /\ pc' = [pc EXCEPT ![t] = IF at[t].name \in hooks THEN "wanted" ELSE "loaded"]
  BY DEF Executed, Goto, environment, history
<1>2. "wanted" \in PCs /\ "loaded" \in PCs
  BY DEF PCs
<1>3. CASE at[t].name \in hooks
  <2>1. Sets(t, "wanted", at[t], todo[t], mine[t])
    BY <1>1, <1>2, <1>3, HandsTyped, OneThread
  <2>2. QED
    BY <1>1, <1>3, <2>1
<1>4. CASE at[t].name \notin hooks
  <2>1. Sets(t, "loaded", at[t], todo[t], mine[t])
    BY <1>1, <1>2, <1>4, HandsTyped, OneThread
  <2>2. QED
    BY <1>1, <1>4, <2>1
<1>5. QED
  BY <1>3, <1>4

(* What the end of an import does.                                           *)
LEMMA LoadedDoes ==
  ASSUME TypeOK, NEW t \in Thread, Loaded(t)
  PROVE  /\ pc[t] = "loaded"
         /\ \/ /\ mine[t] # 0
               /\ Sets(t, "hook", [name |-> at[t].name, next |-> "import"], todo[t], mine[t])
            \/ mine[t] = 0 /\ Sets(t, "idle", Nowhere, todo[t], mine[t])
         /\ imported' = [imported EXCEPT ![at[t].name] = "done"]
         /\ UNCHANGED <<setting, registry, hooked, hooks, installed, wraps, frames, outcome,
                        clients, uninstalled>>
<1>1. /\ pc[t] = "loaded" /\ imported' = [imported EXCEPT ![at[t].name] = "done"]
      /\ UNCHANGED <<setting, registry, hooked, hooks, installed, wraps, frames, outcome,
                     clients, uninstalled, todo, mine>>
  BY DEF Loaded, history
<1>2. {"hook", "import", "idle"} \subseteq PCs
  BY DEF PCs
<1>3. CASE mine[t] # 0
  <2> DEFINE h == [name |-> at[t].name, next |-> "import"]
  <2>1. /\ at' = [at EXCEPT ![t] = [at[t] EXCEPT !.next = "import"]]
        /\ pc' = [pc EXCEPT ![t] = "hook"]
    BY <1>3 DEF Loaded, Goto
  <2>2. at[t] \in Hands /\ h \in Hands
    BY <1>2, HandsTyped
  <2>3. [at[t] EXCEPT !.next = "import"] = h
    BY <2>2 DEF Hands
  <2> HIDE DEF h
  <2>4. Sets(t, "hook", h, todo[t], mine[t])
    BY <1>1, <1>2, <2>1, <2>2, <2>3, HandsTyped, OneThread
  <2>5. QED
    BY <1>1, <1>3, <2>4 DEF h
<1>4. CASE mine[t] = 0
  <2>1. at' = [at EXCEPT ![t] = Nowhere] /\ pc' = [pc EXCEPT ![t] = "idle"]
    BY <1>4 DEF Loaded, Goto
  <2>2. Sets(t, "idle", Nowhere, todo[t], mine[t])
    BY <1>1, <1>2, <2>1, HandsTyped, OneThread
  <2>3. QED
    BY <1>1, <1>4, <2>2
<1>5. QED
  BY <1>3, <1>4

(* What the start of patch() does.                                           *)
LEMMA BeginPatchDoes ==
  ASSUME TypeOK, NEW t \in Thread, BeginPatch(t)
  PROVE  /\ pc[t] = "idle" /\ Len(outcome) < MaxPatches /\ (ImportsOverlap \/ Importing = {})
         /\ \E f \in Frame :
              /\ f.id = Len(outcome) + 1 /\ frames' = Append(frames, f)
              /\ \A n \in Target : f.before[n] = Active(n)
              /\ \E p \in {"list", "import"} : Sets(t, p, at[t], f.names, Len(outcome) + 1)
         /\ outcome' = Append(outcome, "running")
         /\ UNCHANGED <<setting, registry, hooked, hooks, imported, installed, wraps, clients,
                        uninstalled>>
<1>1. /\ pc[t] = "idle" /\ Len(outcome) < MaxPatches /\ (ImportsOverlap \/ Importing = {})
      /\ UNCHANGED <<setting, registry, hooked, hooks, imported, installed, wraps, clients,
                     uninstalled, at>>
      /\ mine' = [mine EXCEPT ![t] = Len(outcome) + 1]
      /\ outcome' = Append(outcome, "running")
  BY DEF BeginPatch, Goto, environment
<1>2. PICK all \in BOOLEAN, names \in SUBSET Registered :
        /\ frames' = Append(frames, [id |-> Len(outcome) + 1, all |-> all, names |-> names,
                                     before |-> [n \in Target |-> Active(n)]])
        /\ todo' = [todo EXCEPT ![t] = names]
        /\ pc' = [pc EXCEPT ![t] = IF all THEN "list" ELSE "import"]
  BY DEF BeginPatch, Goto
<1> DEFINE f == [id |-> Len(outcome) + 1, all |-> all, names |-> names,
                 before |-> [n \in Target |-> Active(n)]]
<1>3. Len(outcome) + 1 \in Patches /\ Len(outcome) + 1 \in 0 .. MaxPatches
  BY <1>1, PatchingAssumption DEF TypeOK, Patches
<1>4. names \in SUBSET Target
  BY DEF Registered
<1>5. \A n \in Target : Active(n) \in Opinions
  <2>1. Len(frames) \in 0 .. Len(frames)
    BY DEF TypeOK
  <2>2. QED
    BY <2>1, ActiveIs, UnderTyped
<1>6. f \in Frame /\ f.id = Len(outcome) + 1 /\ f.names = names
      /\ \A n \in Target : f.before[n] = Active(n)
  BY <1>3, <1>4, <1>5 DEF Frame
<1>7. PICK p \in {"list", "import"} : p \in PCs /\ pc' = [pc EXCEPT ![t] = p]
  BY <1>2 DEF PCs
<1>8. Sets(t, p, at[t], names, Len(outcome) + 1)
  BY <1>1, <1>2, <1>3, <1>4, <1>7, HandsTyped, OneThread
<1>9. frames' = Append(frames, f)
  BY <1>2
<1> HIDE DEF f
<1>10. QED
  BY <1>1, <1>6, <1>8, <1>9

(* What the end of patch() does.                                             *)
LEMMA EndPatchDoes ==
  ASSUME TypeOK, NEW t \in Thread, NEW how, EndPatch(t, how)
  PROVE  /\ Sets(t, "idle", at[t], {}, 0)
         /\ outcome' = [outcome EXCEPT ![mine[t]] = how]
         /\ UNCHANGED <<setting, registry, hooked, hooks, imported, installed, wraps, frames,
                        clients, uninstalled>>
<1>1. /\ outcome' = [outcome EXCEPT ![mine[t]] = how]
      /\ UNCHANGED <<setting, registry, hooked, hooks, imported, installed, wraps, frames,
                     clients, uninstalled, at>>
      /\ mine' = [mine EXCEPT ![t] = 0] /\ todo' = [todo EXCEPT ![t] = {}]
      /\ pc' = [pc EXCEPT ![t] = "idle"]
  BY DEF EndPatch, Goto, environment
<1>2. "idle" \in PCs /\ {} \in SUBSET Target /\ 0 \in 0 .. MaxPatches
  BY PatchingAssumption DEF PCs
<1>3. Sets(t, "idle", at[t], {}, 0)
  BY <1>1, <1>2, HandsTyped, OneThread
<1>4. QED
  BY <1>1, <1>3

(* What a patch() that covers everything reads of the registry.              *)
LEMMA ListTargetsDoes ==
  ASSUME TypeOK, NEW t \in Thread, ListTargets(t)
  PROVE  /\ pc[t] = "list"
         /\ Sets(t, "mark", at[t], Registered, mine[t])
         /\ UNCHANGED <<setting, registry, hooked, hooks, imported, installed, wraps, frames,
                        outcome, clients, uninstalled>>
<1>1. /\ pc[t] = "list" /\ todo' = [todo EXCEPT ![t] = Registered]
      /\ UNCHANGED <<setting, registry, hooked, hooks, imported, installed, wraps, frames,
                     outcome, clients, uninstalled, at, mine>>
      /\ pc' = [pc EXCEPT ![t] = "mark"]
  BY DEF ListTargets, Goto, environment, history
<1>2. "mark" \in PCs /\ Registered \in SUBSET Target
  BY DEF PCs, Registered
<1>3. Sets(t, "mark", at[t], Registered, mine[t])
  BY <1>1, <1>2, HandsTyped, OneThread
<1>4. QED
  BY <1>1, <1>3

(* What the part of _hook under the lock does.                               *)
LEMMA MarkDoes ==
  ASSUME TypeOK, NEW t \in Thread, NEW n \in Target, NEW next \in PCs, NEW left \in SUBSET Target,
         Mark(t, n, next), todo' = [todo EXCEPT ![t] = left] \/ (UNCHANGED todo /\ left = todo[t]),
         UNCHANGED mine
  PROVE  /\ hooked' = hooked \cup {n}
         /\ \/ n \in hooked /\ Sets(t, next, Nowhere, left, mine[t])
            \/ n \notin hooked /\ Sets(t, "add", [name |-> n, next |-> next], left, mine[t])
<1>1. hooked' = hooked \cup {n} /\ "add" \in PCs
  BY DEF Mark, PCs
<1>2. CASE n \in hooked
  <2>1. pc' = [pc EXCEPT ![t] = next] /\ at' = [at EXCEPT ![t] = Nowhere]
    BY <1>2 DEF Mark, Goto
  <2>2. Sets(t, next, Nowhere, left, mine[t])
    BY <2>1, HandsTyped, OneThread
  <2>3. QED
    BY <1>1, <1>2, <2>2
<1>3. CASE n \notin hooked
  <2>1. /\ pc' = [pc EXCEPT ![t] = "add"]
        /\ at' = [at EXCEPT ![t] = [name |-> n, next |-> next]]
    BY <1>3 DEF Mark, Goto
  <2>2. Sets(t, "add", [name |-> n, next |-> next], left, mine[t])
    BY <1>1, <2>1, HandsTyped, OneThread
  <2>3. QED
    BY <1>1, <1>3, <2>2
<1>4. QED
  BY <1>2, <1>3

(* What such a patch() does about one client.                                *)
LEMMA HookEachDoes ==
  ASSUME TypeOK, NEW t \in Thread, HookEach(t)
  PROVE  /\ pc[t] = "mark"
         /\ \E n \in todo[t] :
              /\ hooked' = hooked \cup {n}
              /\ \/ n \in hooked /\ Sets(t, "mark", Nowhere, todo[t] \ {n}, mine[t])
                 \/ /\ n \notin hooked
                    /\ Sets(t, "add", [name |-> n, next |-> "mark"], todo[t] \ {n}, mine[t])
         /\ UNCHANGED <<setting, registry, hooks, imported, installed, wraps, frames, outcome,
                        clients, uninstalled>>
<1>1. /\ pc[t] = "mark"
      /\ UNCHANGED <<setting, registry, hooks, imported, installed, wraps, frames, outcome,
                     clients, uninstalled, mine>>
  BY DEF HookEach, history
<1>2. PICK n \in todo[t] : todo' = [todo EXCEPT ![t] = @ \ {n}] /\ Mark(t, n, "mark")
  BY DEF HookEach
<1>3. /\ n \in Target /\ todo[t] \ {n} \in SUBSET Target /\ "mark" \in PCs
      /\ todo' = [todo EXCEPT ![t] = todo[t] \ {n}]
  BY <1>2, HandsTyped DEF PCs
<1>4. QED
  BY <1>1, <1>2, <1>3, MarkDoes

(* What the start of _install_ready does.                                    *)
LEMMA InstallReadyDoes ==
  ASSUME TypeOK, NEW t \in Thread, InstallReady(t)
  PROVE  /\ pc[t] \in {"import", "mark"}
         /\ Sets(t, "ready", at[t], Registered, mine[t])
         /\ UNCHANGED <<setting, registry, hooked, hooks, imported, installed, wraps, frames,
                        outcome, clients, uninstalled>>
<1>1. /\ pc[t] \in {"import", "mark"} /\ todo' = [todo EXCEPT ![t] = Registered]
      /\ UNCHANGED <<setting, registry, hooked, hooks, imported, installed, wraps, frames,
                     outcome, clients, uninstalled, at, mine>>
      /\ pc' = [pc EXCEPT ![t] = "ready"]
  BY DEF InstallReady, Goto, environment, history
<1>2. "ready" \in PCs /\ Registered \in SUBSET Target
  BY DEF PCs, Registered
<1>3. Sets(t, "ready", at[t], Registered, mine[t])
  BY <1>1, <1>2, HandsTyped, OneThread
<1>4. QED
  BY <1>1, <1>3

(* What _install_ready does about one client.                                *)
LEMMA InstallReadyOneDoes ==
  ASSUME TypeOK, NEW t \in Thread, InstallReadyOne(t)
  PROVE  /\ pc[t] = "ready"
         /\ \E n \in todo[t] :
              \/ /\ imported[n] = "done"
                 /\ Sets(t, "wanted", [name |-> n, next |-> "ready"], todo[t] \ {n}, mine[t])
              \/ imported[n] # "done" /\ Sets(t, "ready", at[t], todo[t] \ {n}, mine[t])
         /\ UNCHANGED <<setting, registry, hooked, hooks, imported, installed, wraps, frames,
                        outcome, clients, uninstalled>>
<1>1. /\ pc[t] = "ready"
      /\ UNCHANGED <<setting, registry, hooked, hooks, imported, installed, wraps, frames,
                     outcome, clients, uninstalled, mine>>
  BY DEF InstallReadyOne, environment, history
<1>2. PICK n \in todo[t] :
        /\ todo' = [todo EXCEPT ![t] = @ \ {n}]
        /\ IF imported[n] = "done"
             THEN /\ pc' = [pc EXCEPT ![t] = "wanted"]
                  /\ at' = [at EXCEPT ![t] = [name |-> n, next |-> "ready"]]
             ELSE UNCHANGED <<pc, at>>
  BY DEF InstallReadyOne, Offer
<1>3. "wanted" \in PCs /\ "ready" \in PCs
  BY DEF PCs
<1>4. n \in Target /\ todo[t] \ {n} \in SUBSET Target /\ todo' = [todo EXCEPT ![t] = todo[t] \ {n}]
  BY <1>2, HandsTyped
<1>5. CASE imported[n] = "done"
  <2>1. Sets(t, "wanted", [name |-> n, next |-> "ready"], todo[t] \ {n}, mine[t])
    BY <1>1, <1>2, <1>3, <1>4, <1>5, HandsTyped, OneThread
  <2>2. QED
    BY <1>1, <1>5, <2>1
<1>6. CASE imported[n] # "done"
  <2>1. Sets(t, "ready", at[t], todo[t] \ {n}, mine[t])
    <3>1. UNCHANGED pc /\ UNCHANGED at /\ pc[t] = "ready" /\ UNCHANGED mine
      BY <1>1, <1>2, <1>6
    <3>2. "ready" \in PCs /\ at[t] \in Hands /\ mine[t] \in 0 .. MaxPatches
      BY HandsTyped DEF PCs
    <3>3. QED
      BY <1>4, <3>1, <3>2, OneThread
  <2>2. QED
    BY <1>1, <1>6, <2>1
<1>7. QED
  BY <1>5, <1>6

(* What register_patcher does.                                               *)
LEMMA RegisterDoes ==
  ASSUME TypeOK, NEW t \in Thread, Register(t)
  PROVE  /\ pc[t] = "idle"
         /\ \E n \in Target :
              /\ registry[n] < MaxVersion
              /\ registry' = [registry EXCEPT ![n] = @ + 1] /\ hooked' = hooked \ {n}
              /\ Sets(t, "hook", [name |-> n, next |-> "idle"], todo[t], mine[t])
         /\ UNCHANGED <<setting, hooks, imported, installed, wraps, frames, outcome, clients,
                        uninstalled>>
<1>1. /\ pc[t] = "idle"
      /\ UNCHANGED <<setting, hooks, imported, installed, wraps, frames, outcome, clients,
                     uninstalled, todo, mine>>
      /\ pc' = [pc EXCEPT ![t] = "hook"]
  BY DEF Register, Goto, history
<1>2. PICK n \in Target :
        /\ registry[n] < MaxVersion
        /\ registry' = [registry EXCEPT ![n] = @ + 1] /\ hooked' = hooked \ {n}
        /\ at' = [at EXCEPT ![t] = [name |-> n, next |-> "idle"]]
  BY DEF Register
<1>3. "hook" \in PCs /\ "idle" \in PCs
  BY DEF PCs
<1>4. Sets(t, "hook", [name |-> n, next |-> "idle"], todo[t], mine[t])
  BY <1>1, <1>2, <1>3, HandsTyped, OneThread
<1>5. QED
  BY <1>1, <1>2, <1>4

(* What _hook does first.                                                    *)
LEMMA HookDoes ==
  ASSUME TypeOK, NEW t \in Thread, Hook(t)
  PROVE  LET n == at[t].name
         IN  /\ pc[t] = "hook" /\ hooked' = hooked \cup {n}
             /\ \/ n \in hooked /\ Sets(t, at[t].next, Nowhere, todo[t], mine[t])
                \/ n \notin hooked /\ Sets(t, "add", at[t], todo[t], mine[t])
             /\ UNCHANGED <<setting, registry, hooks, imported, installed, wraps, frames, outcome,
                            clients, uninstalled>>
<1> DEFINE n == at[t].name
<1>1. /\ pc[t] = "hook" /\ Mark(t, n, at[t].next)
      /\ UNCHANGED <<setting, registry, hooks, imported, installed, wraps, frames, outcome,
                     clients, uninstalled, todo, mine>>
  BY DEF Hook, history
<1>2. n \in Target /\ at[t].next \in PCs /\ todo[t] \in SUBSET Target /\ at[t] \in Hands
  BY HandsTyped
<1>3. [name |-> n, next |-> at[t].next] = at[t]
  BY <1>2 DEF Hands
<1> HIDE DEF n
<1>4. /\ hooked' = hooked \cup {n}
      /\ \/ n \in hooked /\ Sets(t, at[t].next, Nowhere, todo[t], mine[t])
         \/ n \notin hooked /\ Sets(t, "add", [name |-> n, next |-> at[t].next], todo[t], mine[t])
  BY <1>1, <1>2, MarkDoes
<1>5. QED
  BY <1>1, <1>3, <1>4 DEF n

(* What importpatch.add does.                                                *)
LEMMA AddDoes ==
  ASSUME TypeOK, NEW t \in Thread, Add(t)
  PROVE  /\ pc[t] = "add" /\ hooks' = hooks \cup {at[t].name}
         /\ \/ imported[at[t].name] # "no" /\ Sets(t, "wanted", at[t], todo[t], mine[t])
            \/ /\ imported[at[t].name] = "no"
               /\ Sets(t, at[t].next, GoneOn(t), todo[t], mine[t])
         /\ UNCHANGED <<setting, registry, hooked, imported, installed, wraps, frames, outcome,
                        clients, uninstalled>>
<1>1. /\ pc[t] = "add" /\ hooks' = hooks \cup {at[t].name}
      /\ UNCHANGED <<setting, registry, hooked, imported, installed, wraps, frames, outcome,
                     clients, uninstalled, todo, mine>>
  BY DEF Add, history
<1>2. CASE imported[at[t].name] # "no"
  <2>1. pc' = [pc EXCEPT ![t] = "wanted"] /\ UNCHANGED at
    BY <1>2 DEF Add, Goto
  <2>2. "wanted" \in PCs
    BY DEF PCs
  <2>3. Sets(t, "wanted", at[t], todo[t], mine[t])
    BY <1>1, <2>1, <2>2, HandsTyped, OneThread
  <2>4. QED
    BY <1>1, <1>2, <2>3
<1>3. CASE imported[at[t].name] = "no"
  <2>1. /\ pc' = [pc EXCEPT ![t] = at[t].next]
        /\ at' = [at EXCEPT ![t] = GoneOn(t)] \/ (UNCHANGED at /\ GoneOn(t) = at[t])
    BY <1>3 DEF Add, GoOn, Goto, GoneOn
  <2>2. GoneOn(t) \in Hands
    BY HandsTyped DEF GoneOn
  <2>3. Sets(t, at[t].next, GoneOn(t), todo[t], mine[t])
    BY <1>1, <2>1, <2>2, HandsTyped, OneThread
  <2>4. QED
    BY <1>1, <1>3, <2>3
<1>4. QED
  BY <1>2, <1>3

(* The client object a program makes now.                                    *)
MadeNow(n) ==
    [target |-> n, via |-> Via(n), promised |-> Promised(n), marked |-> Marked(n)]

(* The steps that are not a thread's own.                                    *)
OthersDo ==
    /\ UNCHANGED <<setting, registry, hooked, hooks, imported, pc, todo, at, mine, outcome>>
    /\ \/ /\ frames # << >> /\ outcome[Last(frames).id] = "returned" /\ frames' = Front(frames)
          /\ UNCHANGED <<installed, wraps, clients, uninstalled>>
       \/ frames' = << >> /\ UNCHANGED <<installed, wraps, clients, uninstalled>>
       \/ /\ MayUninstall /\ installed' = {} /\ frames' = << >> /\ uninstalled' = TRUE
          /\ wraps' = [n \in Target |-> IF n \in installed THEN [wraps[n] EXCEPT ![registry[n]] = 0]
                                        ELSE wraps[n]]
          /\ clients' = clients
       \/ /\ \E n \in Target :
               /\ imported[n] = "done" /\ Len(clients) < MaxClients
               /\ clients' = Append(clients, MadeNow(n))
          /\ UNCHANGED <<frames, installed, wraps, uninstalled>>

(* That is what they do.                                                     *)
LEMMA OthersDoThese ==
  ASSUME Undo \/ Unpatch \/ Uninstall \/ MakeClient
  PROVE  OthersDo
<1>1. CASE Undo
  BY <1>1 DEF Undo, Keep, OthersDo, environment, history
<1>2. CASE Unpatch
  BY <1>2 DEF Unpatch, Keep, OthersDo, environment, history
<1>3. CASE Uninstall
  BY <1>3 DEF Uninstall, OthersDo, environment
<1>4. CASE MakeClient
  BY <1>4 DEF MakeClient, MadeNow, OthersDo, environment
<1>5. QED
  BY <1>1, <1>2, <1>3, <1>4

-----------------------------------------------------------------------------
(* Types, the threads and the patches' numbers.                              *)

(* The types of what most steps leave alone.                                 *)
RestTyped ==
    /\ setting \in Setting /\ registry \in [Target -> 0 .. MaxVersion]
    /\ hooked \subseteq Target /\ hooks \subseteq Target /\ installed \subseteq Target
    /\ imported \in [Target -> {"no", "initializing", "done"}]
    /\ wraps \in [Target -> [Versions -> Nat]]
    /\ clients \in Seq(Client) /\ Len(clients) <= MaxClients /\ uninstalled \in BOOLEAN
FramesTyped ==
    /\ frames \in Seq(Frame)
    /\ outcome \in Seq({"running", "returned", "raised"}) /\ Len(outcome) <= MaxPatches

(* A step that changes one thread's place and hand in order leaves every thread in order. *)
LEMMA ThreadsOrdered ==
  ASSUME PatchingInv, NEW t \in Thread, NEW place, NEW hand, NEW left, NEW patch,
         Sets(t, place, hand, left, patch), Order(place, hand, left, patch)
  PROVE  /\ \A u \in Thread : ThreadOrder(u)'
         /\ \A u \in Thread : pc'[u] = "idle" => mine'[u] = 0 /\ todo'[u] = {}
<1>1. ASSUME NEW u \in Thread PROVE ThreadOrder(u)'
  <2>1. CASE u = t
    BY <2>1 DEF Sets, ThreadOrder
  <2>2. CASE u # t
    <3>1. ThreadOrder(u)
      BY DEF PatchingInv, PatchOrder
    <3>2. pc'[u] = pc[u] /\ at'[u] = at[u] /\ todo'[u] = todo[u] /\ mine'[u] = mine[u]
      BY <2>2 DEF Sets
    <3>3. QED
      BY <3>1, <3>2 DEF ThreadOrder
  <2>3. QED
    BY <2>1, <2>2
<1>2. QED
  BY <1>1 DEF ThreadOrder, Order

(* A step of one thread that begins and ends no patch.                       *)
LEMMA QuietStep ==
  ASSUME PatchingInv, NEW t \in Thread, NEW place, NEW hand, NEW left,
         Sets(t, place, hand, left, mine[t]), Order(place, hand, left, mine[t]),
         UNCHANGED <<frames, outcome>>, RestTyped'
  PROVE  PatchingInv'
<1>1. /\ \A u \in Thread : ThreadOrder(u)'
      /\ \A u \in Thread : pc'[u] = "idle" => mine'[u] = 0 /\ todo'[u] = {}
  BY ThreadsOrdered
<1>2. \A u \in Thread : mine'[u] = mine[u]
  BY DEF Sets
<1>3. TypeOK'
  BY <1>1 DEF PatchingInv, TypeOK, RestTyped, Sets, Hands
<1>4. PatchOrder'
  BY <1>1, <1>2 DEF PatchingInv, PatchOrder
<1>5. QED
  BY <1>3, <1>4 DEF PatchingInv

(* The types of what there is now.                                           *)
LEMMA TypesSplit ==
  ASSUME PatchingInv
  PROVE  /\ TypeOK /\ RestTyped /\ FramesTyped
         /\ \A u \in Thread : ThreadOrder(u)
BY DEF PatchingInv, PatchOrder, TypeOK, RestTyped, FramesTyped

(* A patch begins with the highest number yet.                               *)
LEMMA BeginOrder ==
  ASSUME PatchingInv, NEW t \in Thread, BeginPatch(t)
  PROVE  PatchingInv'
<1>1. TypeOK /\ RestTyped /\ FramesTyped /\ ThreadOrder(t)
  BY TypesSplit
<1>2. /\ pc[t] = "idle" /\ Len(outcome) < MaxPatches
      /\ outcome' = Append(outcome, "running")
      /\ UNCHANGED <<setting, registry, hooked, hooks, imported, installed, wraps, clients,
                     uninstalled>>
  BY <1>1, BeginPatchDoes
<1>3. PICK f \in Frame, p \in {"list", "import"} :
        /\ f.id = Len(outcome) + 1 /\ frames' = Append(frames, f)
        /\ Sets(t, p, at[t], f.names, Len(outcome) + 1)
  BY <1>1, BeginPatchDoes
<1>4. /\ Len(outcome) \in Nat /\ Len(frames) \in Nat /\ MaxPatches \in Nat
      /\ frames \in Seq(Frame) /\ outcome \in Seq({"running", "returned", "raised"})
  BY <1>1, PatchingAssumption DEF FramesTyped
<1>5. Order(p, at[t], f.names, Len(outcome) + 1)
  BY <1>1, <1>2, <1>4 DEF ThreadOrder, Order
<1>6. /\ \A u \in Thread : ThreadOrder(u)'
      /\ \A u \in Thread : pc'[u] = "idle" => mine'[u] = 0 /\ todo'[u] = {}
  BY <1>3, <1>5, ThreadsOrdered
<1>7. /\ outcome' \in Seq({"running", "returned", "raised"}) /\ Len(outcome') = Len(outcome) + 1
      /\ \A k \in 1 .. Len(outcome) : outcome'[k] = outcome[k]
      /\ outcome'[Len(outcome) + 1] = "running"
  BY <1>2, <1>4
<1>8. /\ frames' \in Seq(Frame) /\ Len(frames') = Len(frames) + 1
      /\ \A i \in 1 .. Len(frames) : frames'[i] = frames[i]
      /\ frames'[Len(frames) + 1] = f
  BY <1>3, <1>4
<1>9. TypeOK'
  <2>1. RestTyped'
    BY <1>1, <1>2 DEF RestTyped
  <2>2. FramesTyped'
    BY <1>2, <1>4, <1>7, <1>8 DEF FramesTyped
  <2>3. QED
    BY <1>3, <1>6, <2>1, <2>2 DEF TypeOK, RestTyped, FramesTyped, Sets, Hands
<1>10. \A i \in 1 .. Len(frames') : frames'[i].id \in 1 .. Len(outcome')
  BY <1>3, <1>4, <1>7, <1>8 DEF PatchingInv, PatchOrder
<1>11. ASSUME NEW i \in 1 .. Len(frames'), NEW j \in 1 .. Len(frames'), i < j
       PROVE  frames'[i].id < frames'[j].id
  <2>1. i \in 1 .. Len(frames) /\ frames'[i] = frames[i] /\ frames[i].id \in 1 .. Len(outcome)
    BY <1>4, <1>8, <1>11 DEF PatchingInv, PatchOrder
  <2>2. CASE j = Len(frames) + 1
    BY <1>3, <1>4, <1>8, <2>1, <2>2
  <2>3. CASE j \in 1 .. Len(frames)
    BY <1>8, <1>11, <2>1, <2>3 DEF PatchingInv, PatchOrder
  <2>4. QED
    BY <1>4, <1>8, <2>2, <2>3
<1>12. \A u \in Thread :
          mine[u] # 0 => mine[u] \in 1 .. Len(outcome) /\ outcome[mine[u]] = "running"
  BY <1>1, <1>4 DEF PatchingInv, PatchOrder, TypeOK
<1>13. mine'[t] = Len(outcome) + 1 /\ \A u \in Thread \ {t} : mine'[u] = mine[u]
  BY <1>3 DEF Sets
<1>14. \A u \in Thread : mine'[u] # 0 => mine'[u] <= Len(outcome') /\ outcome'[mine'[u]] = "running"
  BY <1>4, <1>7, <1>12, <1>13
<1>15. \A u, v \in Thread : mine'[u] # 0 /\ mine'[u] = mine'[v] => u = v
  BY <1>4, <1>12, <1>13 DEF PatchingInv, PatchOrder
<1>16. PatchOrder'
  BY <1>6, <1>10, <1>11, <1>14, <1>15 DEF PatchOrder
<1>17. QED
  BY <1>9, <1>16 DEF PatchingInv

(* A patch that ends was its thread's alone.                                 *)
LEMMA EndOrder ==
  ASSUME PatchingInv, NEW t \in Thread, NEW how \in {"returned", "raised"}, EndPatch(t, how),
         pc[t] \in {"import", "ready"}
  PROVE  PatchingInv'
<1>1. TypeOK /\ RestTyped /\ FramesTyped /\ ThreadOrder(t)
  BY TypesSplit
<1>2. /\ Sets(t, "idle", at[t], {}, 0)
      /\ outcome' = [outcome EXCEPT ![mine[t]] = how]
      /\ UNCHANGED <<setting, registry, hooked, hooks, imported, installed, wraps, frames,
                     clients, uninstalled>>
  BY <1>1, EndPatchDoes
<1>3. Order("idle", at[t], {}, 0)
  BY <1>1 DEF ThreadOrder, Order
<1>4. /\ \A u \in Thread : ThreadOrder(u)'
      /\ \A u \in Thread : pc'[u] = "idle" => mine'[u] = 0 /\ todo'[u] = {}
  BY <1>2, <1>3, ThreadsOrdered
<1>5. mine[t] # 0
  BY <1>1 DEF ThreadOrder, Order
<1>6. mine[t] \in 1 .. Len(outcome)
  BY <1>1, <1>5 DEF PatchingInv, PatchOrder, TypeOK
<1>7. /\ outcome' \in Seq({"running", "returned", "raised"}) /\ Len(outcome') = Len(outcome)
      /\ \A p \in 1 .. Len(outcome) : outcome'[p] = IF p = mine[t] THEN how ELSE outcome[p]
  BY <1>1, <1>2, <1>6, ExceptSeq DEF FramesTyped
<1>8. TypeOK'
  BY <1>1, <1>2, <1>4, <1>7 DEF TypeOK, RestTyped, FramesTyped, Sets, Hands
<1>9. mine'[t] = 0 /\ \A u \in Thread \ {t} : mine'[u] = mine[u]
  BY <1>2 DEF Sets
<1>10. \A u \in Thread \ {t} : mine[u] # 0 => mine[u] # mine[t] /\ mine[u] \in 1 .. Len(outcome)
  BY <1>1, <1>5 DEF PatchingInv, PatchOrder, TypeOK
<1>11. \A u \in Thread : mine'[u] # 0 => mine'[u] <= Len(outcome') /\ outcome'[mine'[u]] = "running"
  BY <1>7, <1>9, <1>10 DEF PatchingInv, PatchOrder
<1>12. PatchOrder'
  BY <1>2, <1>4, <1>7, <1>9, <1>11 DEF PatchingInv, PatchOrder
<1>13. QED
  BY <1>8, <1>12 DEF PatchingInv

(* The lowest frames of a stack of them are one.                             *)
LEMMA FrontProperties ==
  ASSUME NEW S, NEW s \in Seq(S), s # << >>
  PROVE  /\ Front(s) \in Seq(S) /\ Len(Front(s)) = Len(s) - 1 /\ Len(s) \in Nat \ {0}
         /\ \A i \in 1 .. Len(Front(s)) : Front(s)[i] = s[i] /\ i \in 1 .. Len(s)
<1> DEFINE n == Len(s) - 1
           t == SubSeq(s, 1, n)
<1>1. Len(s) \in Nat \ {0} /\ n \in Nat
  BY EmptySeq
<1>2. \A i \in 1 .. n : s[i] \in S
  BY <1>1
<1>3. /\ t \in Seq(S) /\ Len(t) = IF 1 <= n THEN n - 1 + 1 ELSE 0
      /\ \A i \in 1 .. n - 1 + 1 : t[i] = s[1 + i - 1]
  BY <1>1, <1>2, SubSeqProperties
<1>4. Front(s) = t
  BY DEF Front
<1>5. \A i \in 1 .. n : i \in 1 .. Len(s)
  BY <1>1
<1> HIDE DEF n, t
<1>6. Len(t) = n
  BY <1>1, <1>3
<1>7. ASSUME NEW i \in 1 .. n PROVE t[i] = s[i]
  <2>1. i \in 1 .. n - 1 + 1 /\ 1 + i - 1 = i
    BY <1>1
  <2>2. QED
    BY <1>3, <2>1
<1>8. QED
  BY <1>1, <1>3, <1>4, <1>5, <1>6, <1>7 DEF n

(* The frames a step that is not a thread's own leaves.                      *)
LEMMA OthersKeepFrames ==
  ASSUME FramesTyped, OthersDo
  PROVE  /\ FramesTyped'
         /\ Len(frames') <= Len(frames) /\ Len(frames') \in Nat /\ Len(frames) \in Nat
         /\ \A i \in 1 .. Len(frames') : frames'[i] = frames[i] /\ i \in 1 .. Len(frames)
<1>1. frames \in Seq(Frame) /\ outcome' = outcome /\ Len(frames) \in Nat
  BY DEF FramesTyped, OthersDo
<1>2. CASE frames # << >> /\ frames' = Front(frames)
  BY <1>1, <1>2, FrontProperties DEF FramesTyped
<1>3. CASE frames' = << >>
  BY <1>1, <1>3 DEF FramesTyped
<1>4. CASE frames' = frames
  BY <1>1, <1>4 DEF FramesTyped
<1>5. QED
  BY <1>2, <1>3, <1>4 DEF OthersDo

(* The clients and integrations it leaves are typed.                         *)
LEMMA OthersKeepTypes ==
  ASSUME RestTyped, OthersDo
  PROVE  RestTyped'
<1>1. UNCHANGED <<setting, registry, hooked, hooks, imported>>
  BY DEF OthersDo
<1>2. CASE UNCHANGED <<installed, wraps, clients, uninstalled>>
  BY <1>1, <1>2 DEF RestTyped
<1>3. CASE /\ installed' = {} /\ uninstalled' = TRUE /\ clients' = clients
           /\ wraps' = [n \in Target |-> IF n \in installed
                                          THEN [wraps[n] EXCEPT ![registry[n]] = 0] ELSE wraps[n]]
  <2>1. \A n \in Target : [wraps[n] EXCEPT ![registry[n]] = 0] \in [Versions -> Nat]
    BY DEF RestTyped
  <2>2. wraps' \in [Target -> [Versions -> Nat]]
    BY <1>3, <2>1 DEF RestTyped
  <2>3. QED
    BY <1>1, <1>3, <2>2 DEF RestTyped
<1>4. CASE /\ \E n \in Target :
                /\ imported[n] = "done" /\ Len(clients) < MaxClients
                /\ clients' = Append(clients, MadeNow(n))
           /\ UNCHANGED <<installed, wraps, uninstalled>>
  <2>1. PICK n \in Target :
          /\ Len(clients) < MaxClients
          /\ clients' = Append(clients, MadeNow(n))
    BY <1>4
  <2>2. Via(n) \in {"own", "adapter", "transport"}
    BY DEF Via
  <2>3. Promised(n) \in BOOLEAN /\ Marked(n) \in BOOLEAN
    BY DEF Promised, Marked
  <2>4. MadeNow(n) \in Client
    BY <2>2, <2>3 DEF Client, MadeNow
  <2>5. clients' \in Seq(Client) /\ Len(clients') <= MaxClients
    BY <2>1, <2>4, PatchingAssumption DEF RestTyped
  <2>6. QED
    BY <1>1, <1>4, <2>5 DEF RestTyped
<1>5. QED
  BY <1>2, <1>3, <1>4 DEF OthersDo

(* The steps that are not a thread's own keep the types and the order.       *)
LEMMA OthersKeepOrder ==
  ASSUME PatchingInv, OthersDo
  PROVE  PatchingInv'
<1>1. TypeOK /\ RestTyped /\ FramesTyped
  BY TypesSplit
<1>2. RestTyped'
  BY <1>1, OthersKeepTypes
<1>3. /\ FramesTyped'
      /\ Len(frames') <= Len(frames) /\ Len(frames') \in Nat /\ Len(frames) \in Nat
      /\ \A i \in 1 .. Len(frames') : frames'[i] = frames[i] /\ i \in 1 .. Len(frames)
  BY <1>1, OthersKeepFrames
<1>4. UNCHANGED <<pc, todo, at, mine, outcome>>
  BY DEF OthersDo
<1>5. TypeOK'
  BY <1>1, <1>2, <1>3, <1>4 DEF TypeOK, RestTyped, FramesTyped
<1>6. \A u \in Thread : ThreadOrder(u)'
  BY <1>4, TypesSplit DEF ThreadOrder
<1>7. PatchOrder'
  BY <1>3, <1>4, <1>6 DEF PatchingInv, PatchOrder
<1>8. QED
  BY <1>5, <1>7 DEF PatchingInv

(* The start: no thread runs anything, no patch was made.                    *)
LEMMA PatchingInit == Init => PatchingInv
<1> SUFFICES ASSUME Init PROVE PatchingInv
  OBVIOUS
<1>1. /\ Nowhere \in Hands /\ Nowhere.next = "idle"
  <2>1. (CHOOSE n \in Target : TRUE) \in Target
    BY PatchingAssumption
  <2>2. QED
    BY <2>1 DEF Nowhere, Hands, PCs
<1>2. Len(frames) = 0 /\ Len(outcome) = 0 /\ Len(clients) = 0
  BY DEF Init
<1>3. registry \in [Target -> 0 .. MaxVersion]
  <2>1. 0 \in 0 .. MaxVersion /\ 1 \in 0 .. MaxVersion
    BY PatchingAssumption
  <2>2. QED
    BY <2>1 DEF Init
<1>4. wraps \in [Target -> [Versions -> Nat]]
  BY DEF Init, Untouched
<1>5. /\ setting \in Setting /\ hooked \subseteq Target /\ hooks \subseteq Target
      /\ installed \subseteq Target /\ imported \in [Target -> {"no", "initializing", "done"}]
      /\ uninstalled \in BOOLEAN /\ clients \in Seq(Client) /\ frames \in Seq(Frame)
      /\ outcome \in Seq({"running", "returned", "raised"})
  <2>1. setting \in Setting
    BY PatchingAssumption DEF Init
  <2>2. BuiltIn \subseteq Target
    BY PatchingAssumption
  <2>3. imported \in [Target -> {"no", "initializing", "done"}]
    BY DEF Init
  <2>4. /\ hooked \subseteq Target /\ hooks \subseteq Target /\ installed \subseteq Target
        /\ uninstalled \in BOOLEAN
    BY <2>2 DEF Init
  <2>5. /\ clients \in Seq(Client) /\ frames \in Seq(Frame)
        /\ outcome \in Seq({"running", "returned", "raised"})
    BY EmptySeq DEF Init
  <2>6. QED
    BY <2>1, <2>3, <2>4, <2>5
<1>6. /\ pc \in [Thread -> PCs] /\ todo \in [Thread -> SUBSET Target]
      /\ at \in [Thread -> Hands] /\ mine \in [Thread -> 0 .. MaxPatches]
      /\ \A t \in Thread : /\ pc[t] = "idle" /\ todo[t] = {} /\ mine[t] = 0
                           /\ at[t].next = "idle"
  BY <1>1, PatchingAssumption DEF Init, PCs
<1>7. TypeOK
  BY <1>2, <1>3, <1>4, <1>5, <1>6, PatchingAssumption DEF TypeOK, Hands
<1>8. \A t \in Thread : ThreadOrder(t)
  BY <1>6 DEF ThreadOrder, Order
<1>9. PatchOrder
  BY <1>2, <1>6, <1>8 DEF PatchOrder
<1>10. QED
  BY <1>7, <1>9 DEF PatchingInv

(* Every step of a thread keeps the types and the order.                     *)
LEMMA StepOrder ==
  ASSUME PatchingInv, NEW t \in Thread, Step(t)
  PROVE  PatchingInv'
<1>1. TypeOK /\ RestTyped /\ FramesTyped /\ ThreadOrder(t)
  BY TypesSplit
<1> DEFINE o == Order(pc[t], at[t], todo[t], mine[t])
<1>2. o
  BY <1>1 DEF ThreadOrder
<1>3. CASE CheckWanted(t)
  <2>1. /\ pc[t] = "wanted"
        /\ \/ Sets(t, "install", at[t], todo[t], mine[t])
           \/ Sets(t, at[t].next, GoneOn(t), todo[t], mine[t])
        /\ UNCHANGED <<setting, registry, hooked, hooks, imported, installed, wraps, frames,
                       outcome, clients, uninstalled>>
    BY <1>1, <1>3, CheckWantedDoes
  <2>2. RestTyped' /\ UNCHANGED <<frames, outcome>>
    BY <1>1, <2>1 DEF RestTyped
  <2>3. /\ Order("install", at[t], todo[t], mine[t])
        /\ Order(at[t].next, GoneOn(t), todo[t], mine[t])
    BY <1>1, <1>2, <2>1, HandsTyped DEF Order, GoneOn
  <2>4. QED
    BY <2>1, <2>2, <2>3, QuietStep
<1>4. CASE Install(t)
  <2>1. /\ pc[t] = "install"
        /\ Sets(t, at[t].next, GoneOn(t), todo[t], mine[t])
        /\ \/ /\ at[t].name \in Registered \ (installed \cup Broken)
              /\ wraps' = [wraps EXCEPT ![at[t].name][registry[at[t].name]] = @ + 1]
              /\ installed' = installed \cup {at[t].name}
           \/ UNCHANGED <<wraps, installed>>
        /\ UNCHANGED <<setting, registry, hooked, hooks, imported, frames, outcome, clients,
                       uninstalled>>
    BY <1>1, <1>4, InstallDoes
  <2>2. RestTyped'
    <3>1. CASE UNCHANGED <<wraps, installed>>
      BY <1>1, <2>1, <3>1 DEF RestTyped
    <3>2. CASE /\ at[t].name \in Registered
               /\ wraps' = [wraps EXCEPT ![at[t].name][registry[at[t].name]] = @ + 1]
               /\ installed' = installed \cup {at[t].name}
      <4> DEFINE n == at[t].name
                 v == registry[n]
      <4>1. n \in Target
        BY <3>2 DEF Registered
      <4>2. v \in Versions
        BY <1>1, <3>2, <4>1, PatchingAssumption DEF RestTyped, Registered, Versions
      <4>3. wraps[n] \in [Versions -> Nat]
        BY <1>1, <4>1 DEF RestTyped
      <4>4. wraps' = [wraps EXCEPT ![n] = [wraps[n] EXCEPT ![v] = wraps[n][v] + 1]]
        BY <3>2
      <4> HIDE DEF n, v
      <4>5. [wraps[n] EXCEPT ![v] = wraps[n][v] + 1] \in [Versions -> Nat]
        BY <4>2, <4>3
      <4>6. wraps' \in [Target -> [Versions -> Nat]]
        BY <1>1, <4>1, <4>4, <4>5 DEF RestTyped
      <4>7. installed' \subseteq Target
        BY <1>1, <3>2, <4>1 DEF RestTyped, n
      <4>8. QED
        BY <1>1, <2>1, <4>6, <4>7 DEF RestTyped
    <3>3. QED
      BY <2>1, <3>1, <3>2
  <2>3. Order(at[t].next, GoneOn(t), todo[t], mine[t])
    BY <1>1, <1>2, <2>1, HandsTyped DEF Order, GoneOn
  <2>4. QED
    BY <2>1, <2>2, <2>3, QuietStep
<1>5. CASE Import(t)
  <2>1. /\ pc[t] = "idle"
        /\ UNCHANGED <<setting, registry, hooked, hooks, installed, wraps, frames, outcome,
                       clients, uninstalled>>
    BY <1>1, <1>5, ImportDoes
  <2>2. PICK n \in Target :
          /\ imported' = [imported EXCEPT ![n] = "initializing"]
          /\ Sets(t, "execute", [name |-> n, next |-> "loaded"], todo[t], mine[t])
    BY <1>1, <1>5, ImportDoes
  <2>3. RestTyped'
    BY <1>1, <2>1, <2>2 DEF RestTyped
  <2>4. Order("execute", [name |-> n, next |-> "loaded"], todo[t], mine[t])
    BY <1>2 DEF Order
  <2>5. QED
    BY <2>1, <2>2, <2>3, <2>4, QuietStep
<1>6. CASE ImportNamed(t)
  <2>1. /\ pc[t] = "import"
        /\ UNCHANGED <<setting, registry, hooked, hooks, installed, wraps, frames, outcome,
                       clients, uninstalled>>
    BY <1>1, <1>6, ImportNamedDoes
  <2>2. PICK n \in todo[t] :
          \/ /\ imported' = [imported EXCEPT ![n] = "initializing"]
             /\ Sets(t, "execute", [name |-> n, next |-> "loaded"], todo[t] \ {n}, mine[t])
          \/ /\ imported' = imported
             /\ Sets(t, "hook", [name |-> n, next |-> "import"], todo[t] \ {n}, mine[t])
    BY <1>1, <1>6, ImportNamedDoes
  <2>3. RestTyped'
    BY <1>1, <2>1, <2>2 DEF RestTyped
  <2>4. /\ Order("execute", [name |-> n, next |-> "loaded"], todo[t] \ {n}, mine[t])
        /\ Order("hook", [name |-> n, next |-> "import"], todo[t] \ {n}, mine[t])
    BY <1>2, <2>1 DEF Order
  <2>5. QED
    BY <2>1, <2>2, <2>3, <2>4, QuietStep
<1>7. CASE Executed(t)
  <2>1. /\ pc[t] = "execute"
        /\ \/ Sets(t, "wanted", at[t], todo[t], mine[t])
           \/ Sets(t, "loaded", at[t], todo[t], mine[t])
        /\ UNCHANGED <<setting, registry, hooked, hooks, imported, installed, wraps, frames,
                       outcome, clients, uninstalled>>
    BY <1>1, <1>7, ExecutedDoes
  <2>2. RestTyped'
    BY <1>1, <2>1 DEF RestTyped
  <2>3. Order("wanted", at[t], todo[t], mine[t]) /\ Order("loaded", at[t], todo[t], mine[t])
    BY <1>2, <2>1 DEF Order
  <2>4. QED
    BY <2>1, <2>2, <2>3, QuietStep
<1>8. CASE Loaded(t)
  <2>1. /\ pc[t] = "loaded"
        /\ \/ /\ mine[t] # 0
              /\ Sets(t, "hook", [name |-> at[t].name, next |-> "import"], todo[t], mine[t])
           \/ mine[t] = 0 /\ Sets(t, "idle", Nowhere, todo[t], mine[t])
        /\ imported' = [imported EXCEPT ![at[t].name] = "done"]
        /\ UNCHANGED <<setting, registry, hooked, hooks, installed, wraps, frames, outcome,
                       clients, uninstalled>>
    BY <1>1, <1>8, LoadedDoes
  <2>2. RestTyped'
    BY <1>1, <2>1 DEF RestTyped
  <2>3. /\ mine[t] # 0 => Order("hook", [name |-> at[t].name, next |-> "import"], todo[t], mine[t])
        /\ mine[t] = 0 => Order("idle", Nowhere, todo[t], mine[t])
    BY <1>1, <1>2, <2>1, HandsTyped DEF Order
  <2>4. QED
    BY <2>1, <2>2, <2>3, QuietStep
<1>9. CASE BeginPatch(t)
  BY <1>9, BeginOrder
<1>10. CASE ImportRaises(t)
  BY <1>10, EndOrder DEF ImportRaises
<1>11. CASE InstallReady(t)
  <2>1. /\ pc[t] \in {"import", "mark"}
        /\ Sets(t, "ready", at[t], Registered, mine[t])
        /\ UNCHANGED <<setting, registry, hooked, hooks, imported, installed, wraps, frames,
                       outcome, clients, uninstalled>>
    BY <1>1, <1>11, InstallReadyDoes
  <2>2. RestTyped'
    BY <1>1, <2>1 DEF RestTyped
  <2>3. Order("ready", at[t], Registered, mine[t])
    BY <1>2, <2>1 DEF Order
  <2>4. QED
    BY <2>1, <2>2, <2>3, QuietStep
<1>12. CASE InstallReadyOne(t)
  <2>1. /\ pc[t] = "ready"
        /\ UNCHANGED <<setting, registry, hooked, hooks, imported, installed, wraps, frames,
                       outcome, clients, uninstalled>>
    BY <1>1, <1>12, InstallReadyOneDoes
  <2>2. PICK n \in todo[t] :
          \/ Sets(t, "wanted", [name |-> n, next |-> "ready"], todo[t] \ {n}, mine[t])
          \/ Sets(t, "ready", at[t], todo[t] \ {n}, mine[t])
    BY <1>1, <1>12, InstallReadyOneDoes
  <2>3. RestTyped'
    BY <1>1, <2>1 DEF RestTyped
  <2>4. /\ Order("wanted", [name |-> n, next |-> "ready"], todo[t] \ {n}, mine[t])
        /\ Order("ready", at[t], todo[t] \ {n}, mine[t])
    BY <1>2, <2>1 DEF Order
  <2>5. QED
    BY <2>1, <2>2, <2>3, <2>4, QuietStep
<1>13. CASE PatchReturns(t)
  BY <1>13, EndOrder DEF PatchReturns
<1>14. CASE Register(t)
  <2>1. /\ pc[t] = "idle"
        /\ UNCHANGED <<setting, hooks, imported, installed, wraps, frames, outcome, clients,
                       uninstalled>>
    BY <1>1, <1>14, RegisterDoes
  <2>2. PICK n \in Target :
          /\ registry[n] < MaxVersion
          /\ registry' = [registry EXCEPT ![n] = @ + 1] /\ hooked' = hooked \ {n}
          /\ Sets(t, "hook", [name |-> n, next |-> "idle"], todo[t], mine[t])
    BY <1>1, <1>14, RegisterDoes
  <2>3. RestTyped'
    <3>1. registry \in [Target -> 0 .. MaxVersion] /\ registry[n] + 1 \in 0 .. MaxVersion
      BY <1>1, <2>2, PatchingAssumption DEF RestTyped
    <3>2. registry' \in [Target -> 0 .. MaxVersion]
      BY <2>2, <3>1
    <3>3. QED
      BY <1>1, <2>1, <2>2, <3>2 DEF RestTyped
  <2>4. Order("hook", [name |-> n, next |-> "idle"], todo[t], mine[t])
    BY <1>2, <2>1 DEF Order
  <2>5. QED
    BY <2>1, <2>2, <2>3, <2>4, QuietStep
<1>15. CASE Hook(t)
  <2>1. /\ pc[t] = "hook" /\ hooked' = hooked \cup {at[t].name}
        /\ \/ Sets(t, at[t].next, Nowhere, todo[t], mine[t])
           \/ Sets(t, "add", at[t], todo[t], mine[t])
        /\ UNCHANGED <<setting, registry, hooks, imported, installed, wraps, frames, outcome,
                       clients, uninstalled>>
    BY <1>1, <1>15, HookDoes
  <2>2. RestTyped'
    BY <1>1, <2>1, HandsTyped DEF RestTyped
  <2>3. Order(at[t].next, Nowhere, todo[t], mine[t]) /\ Order("add", at[t], todo[t], mine[t])
    BY <1>1, <1>2, <2>1, HandsTyped DEF Order
  <2>4. QED
    BY <2>1, <2>2, <2>3, QuietStep
<1>16. CASE Add(t)
  <2>1. /\ pc[t] = "add" /\ hooks' = hooks \cup {at[t].name}
        /\ \/ Sets(t, "wanted", at[t], todo[t], mine[t])
           \/ Sets(t, at[t].next, GoneOn(t), todo[t], mine[t])
        /\ UNCHANGED <<setting, registry, hooked, imported, installed, wraps, frames, outcome,
                       clients, uninstalled>>
    BY <1>1, <1>16, AddDoes
  <2>2. RestTyped'
    BY <1>1, <2>1, HandsTyped DEF RestTyped
  <2>3. /\ Order("wanted", at[t], todo[t], mine[t])
        /\ Order(at[t].next, GoneOn(t), todo[t], mine[t])
    BY <1>1, <1>2, <2>1, HandsTyped DEF Order, GoneOn
  <2>4. QED
    BY <2>1, <2>2, <2>3, QuietStep
<1>17. CASE ListTargets(t)
  <2>1. /\ pc[t] = "list"
        /\ Sets(t, "mark", at[t], Registered, mine[t])
        /\ UNCHANGED <<setting, registry, hooked, hooks, imported, installed, wraps, frames,
                       outcome, clients, uninstalled>>
    BY <1>1, <1>17, ListTargetsDoes
  <2>2. RestTyped'
    BY <1>1, <2>1 DEF RestTyped
  <2>3. Order("mark", at[t], Registered, mine[t])
    BY <1>2, <2>1 DEF Order
  <2>4. QED
    BY <2>1, <2>2, <2>3, QuietStep
<1>18. CASE HookEach(t)
  <2>1. /\ pc[t] = "mark"
        /\ UNCHANGED <<setting, registry, hooks, imported, installed, wraps, frames, outcome,
                       clients, uninstalled>>
    BY <1>1, <1>18, HookEachDoes
  <2>2. PICK n \in todo[t] :
          /\ hooked' = hooked \cup {n}
          /\ \/ Sets(t, "mark", Nowhere, todo[t] \ {n}, mine[t])
             \/ Sets(t, "add", [name |-> n, next |-> "mark"], todo[t] \ {n}, mine[t])
    BY <1>1, <1>18, HookEachDoes
  <2>3. RestTyped'
    BY <1>1, <2>1, <2>2, HandsTyped DEF RestTyped
  <2>4. /\ Order("mark", Nowhere, todo[t] \ {n}, mine[t])
        /\ Order("add", [name |-> n, next |-> "mark"], todo[t] \ {n}, mine[t])
    BY <1>1, <1>2, <2>1, HandsTyped DEF Order
  <2>5. QED
    BY <2>1, <2>2, <2>3, <2>4, QuietStep
<1>19. QED
  BY <1>3, <1>4, <1>5, <1>6, <1>7, <1>8, <1>9, <1>10, <1>11, <1>12, <1>13, <1>14, <1>15, <1>16,
     <1>17, <1>18 DEF Step

(* A step that changes nothing keeps them too.                               *)
LEMMA IdleOrder ==
  ASSUME PatchingInv, UNCHANGED vars
  PROVE  PatchingInv'
BY DEF PatchingInv, TypeOK, PatchOrder, ThreadOrder, vars

(* Every step does.                                                          *)
LEMMA PatchingNext == PatchingInv /\ [Next]_vars => PatchingInv'
<1> SUFFICES ASSUME PatchingInv, [Next]_vars PROVE PatchingInv'
  OBVIOUS
<1>1. CASE \E t \in Thread : Step(t)
  BY <1>1, StepOrder
<1>2. CASE Undo \/ Unpatch \/ Uninstall \/ MakeClient
  BY <1>2, OthersDoThese, OthersKeepOrder
<1>3. CASE UNCHANGED vars
  BY <1>3, IdleOrder
<1>4. QED
  BY <1>1, <1>2, <1>3 DEF Next

(* Frames lie in the order of their patches, and a patch under way is one    *)
(* thread's alone.                                                           *)
THEOREM PatchingInvariant == Spec => []PatchingInv
BY PatchingInit, PatchingNext, PTL DEF Spec

(* The variables keep their types; a thread between calls has nothing left   *)
(* of any: no patch and no names to go through.                              *)
THEOREM PatchingTypes == Spec => []TypeOK
<1>1. PatchingInv => TypeOK
  BY DEF PatchingInv
<1>2. QED
  BY <1>1, PatchingInvariant, PTL

-----------------------------------------------------------------------------
(* Undoing a patch.                                                          *)

(* What is active under the frames a step keeps stays what it was.           *)
LEMMA UnderStays ==
  ASSUME NEW k \in Nat, NEW n \in Target, setting' = setting,
         \A i \in 1 .. k : frames'[i] = frames[i]
  PROVE  ActiveUnder(k, n)' = ActiveUnder(k, n)
<1> DEFINE C == CoveringUpTo(k, n)
           newest == CHOOSE i \in C : \A j \in C : j <= i
<1>1. CoveringUpTo(k, n)' = C
  BY DEF CoveringUpTo
<1>2. Default(n)' = Default(n)
  BY DEF Default
<1>3. ActiveUnder(k, n) = IF C = {} THEN Default(n) ELSE frames[newest].id
  BY DEF ActiveUnder
<1>4. ActiveUnder(k, n)' = IF C = {} THEN Default(n) ELSE frames'[newest].id
  BY <1>1, <1>2 DEF ActiveUnder
<1>5. C \in SUBSET (1 .. k)
  BY DEF CoveringUpTo
<1> HIDE DEF C
<1>6. C # {} => \E i \in C : \A j \in C : j <= i
  BY <1>5, NewestExists
<1>7. C # {} => newest \in C
  BY <1>6
<1> HIDE DEF newest
<1>8. C # {} => frames'[newest] = frames[newest]
  BY <1>5, <1>7
<1>9. QED
  BY <1>3, <1>4, <1>8

(* What is active after a step, of the frames after it.                      *)
LEMMA ActiveIsAfter ==
  ASSUME NEW n \in Target, NEW k, k = Len(frames')
  PROVE  Active(n)' = ActiveUnder(k, n)'
BY DEF Active, ActiveUnder, CoveringUpTo

(* The frames after a thread's step are those before it, or one more.        *)
LEMMA StepFrames ==
  ASSUME PatchingInv, NEW t \in Thread, Step(t)
  PROVE  /\ setting' = setting
         /\ \/ frames' = frames
            \/ \E f \in Frame : /\ frames' = Append(frames, f)
                                /\ \A n \in Target : f.before[n] = Active(n)
<1>1. TypeOK
  BY DEF PatchingInv
<1>2. CASE BeginPatch(t)
  BY <1>1, <1>2, BeginPatchDoes
<1>3. CASE ~BeginPatch(t)
  BY <1>3 DEF Step, CheckWanted, Install, Import, ImportNamed, Executed, Loaded, ImportRaises,
     EndPatch, InstallReady, InstallReadyOne, PatchReturns, Register, Hook, Add, ListTargets,
     HookEach, environment
<1>4. QED
  BY <1>2, <1>3

(* Every frame remembers what was active under it, through every step.       *)
LEMMA BeforeNext ==
  ASSUME PatchingInv, BeforeKnown, [Next]_vars
  PROVE  BeforeKnown'
<1>1. TypeOK /\ FramesTyped /\ frames \in Seq(Frame) /\ Len(frames) \in Nat
  BY TypesSplit DEF FramesTyped
<1>2. ASSUME NEW f \in Frame, frames' = Append(frames, f), setting' = setting,
             \A n \in Target : f.before[n] = Active(n)
      PROVE  BeforeKnown'
  <2>1. /\ Len(frames') = Len(frames) + 1 /\ frames'[Len(frames) + 1] = f
        /\ \A i \in 1 .. Len(frames) : frames'[i] = frames[i]
    BY <1>1, <1>2
  <2>2. ASSUME NEW i \in 1 .. Len(frames'), NEW n \in Target
        PROVE  frames'[i].before[n] = ActiveUnder(i - 1, n)'
    <3>1. i - 1 \in Nat /\ \A j \in 1 .. i - 1 : frames'[j] = frames[j]
      BY <1>1, <2>1
    <3>2. ActiveUnder(i - 1, n)' = ActiveUnder(i - 1, n)
      BY <1>2, <3>1, UnderStays
    <3>3. CASE i = Len(frames) + 1
      <4>1. i - 1 = Len(frames) /\ frames'[i].before[n] = Active(n)
        BY <1>1, <1>2, <2>1, <3>3
      <4>2. QED
        BY <1>1, <3>2, <4>1, ActiveIs
    <3>4. CASE i \in 1 .. Len(frames)
      BY <2>1, <3>2, <3>4 DEF BeforeKnown
    <3>5. QED
      BY <1>1, <2>1, <3>3, <3>4
  <2>3. QED
    BY <2>2 DEF BeforeKnown
<1>3. ASSUME /\ setting' = setting
             /\ Len(frames') \in Nat /\ Len(frames') <= Len(frames)
             /\ \A i \in 1 .. Len(frames') : frames'[i] = frames[i] /\ i \in 1 .. Len(frames)
      PROVE  BeforeKnown'
  <2>1. ASSUME NEW i \in 1 .. Len(frames'), NEW n \in Target
        PROVE  frames'[i].before[n] = ActiveUnder(i - 1, n)'
    <3>1. i - 1 \in Nat /\ \A j \in 1 .. i - 1 : frames'[j] = frames[j]
      BY <1>3
    <3>2. ActiveUnder(i - 1, n)' = ActiveUnder(i - 1, n)
      BY <1>3, <3>1, UnderStays
    <3>3. QED
      BY <1>3, <3>2 DEF BeforeKnown
  <2>2. QED
    BY <2>1 DEF BeforeKnown
<1>4. CASE \E t \in Thread : Step(t)
  <2>1. PICK t \in Thread : Step(t)
    BY <1>4
  <2>2. /\ setting' = setting
        /\ \/ frames' = frames
           \/ \E f \in Frame : /\ frames' = Append(frames, f)
                               /\ \A n \in Target : f.before[n] = Active(n)
    BY <2>1, StepFrames
  <2>3. CASE frames' = frames
    BY <1>1, <1>3, <2>2, <2>3
  <2>4. QED
    BY <1>2, <2>2, <2>3
<1>5. CASE Undo \/ Unpatch \/ Uninstall \/ MakeClient
  <2>1. OthersDo /\ setting' = setting
    BY <1>5, OthersDoThese DEF OthersDo
  <2>2. QED
    BY <1>1, <1>3, <2>1, OthersKeepFrames
<1>6. CASE UNCHANGED vars
  <2>1. setting' = setting /\ frames' = frames
    BY <1>6 DEF vars
  <2>2. QED
    BY <1>1, <1>3, <2>1
<1>7. QED
  BY <1>4, <1>5, <1>6 DEF Next

(* Without an entry a sequence is one shorter.                               *)
LEMMA RemoveAtProperties ==
  ASSUME NEW S, NEW s \in Seq(S), NEW i \in 1 .. Len(s)
  PROVE  /\ Len(RemoveAt(s, i)) = Len(s) - 1
         /\ i < Len(s) => RemoveAt(s, i)[i] = s[i + 1]
<1> DEFINE a == SubSeq(s, 1, i - 1)
           b == SubSeq(s, i + 1, Len(s))
<1>1. Len(s) \in Nat /\ i \in Nat \ {0} /\ i <= Len(s)
  OBVIOUS
<1>2. \A j \in 1 .. Len(s) : s[j] \in S
  OBVIOUS
<1>3. a \in Seq(S) /\ Len(a) = i - 1
  <2>1. i - 1 \in Int /\ 1 \in Int /\ \A j \in 1 .. i - 1 : s[j] \in S
    BY <1>1, <1>2
  <2>2. a \in Seq(S) /\ Len(a) = IF 1 <= i - 1 THEN (i - 1) - 1 + 1 ELSE 0
    BY <2>1, SubSeqProperties
  <2>3. QED
    BY <1>1, <2>2
<1>4. /\ b \in Seq(S) /\ Len(b) = Len(s) - i
      /\ i < Len(s) => b[1] = s[i + 1]
  <2>1. i + 1 \in Int /\ Len(s) \in Int /\ \A j \in i + 1 .. Len(s) : s[j] \in S
    BY <1>1, <1>2
  <2>2. /\ b \in Seq(S) /\ Len(b) = IF i + 1 <= Len(s) THEN Len(s) - (i + 1) + 1 ELSE 0
        /\ \A j \in 1 .. Len(s) - (i + 1) + 1 : b[j] = s[(i + 1) + j - 1]
    BY <2>1, SubSeqProperties
  <2>3. Len(b) = Len(s) - i
    <3>1. Len(b) = IF i + 1 <= Len(s) THEN Len(s) - (i + 1) + 1 ELSE 0
      BY <2>2
    <3>2. i <= Len(s) /\ i \in Int /\ Len(s) \in Int
      BY <1>1
    <3> HIDE DEF b
    <3>3. QED
      BY <3>1, <3>2
  <2>4. ASSUME i < Len(s) PROVE b[1] = s[i + 1]
    <3>1. 1 \in 1 .. Len(s) - (i + 1) + 1 /\ (i + 1) + 1 - 1 = i + 1
      BY <1>1, <2>4
    <3>2. QED
      BY <2>2, <3>1
  <2>5. QED
    BY <2>2, <2>3, <2>4
<1> HIDE DEF a, b
<1>5. /\ Len(a \o b) = Len(a) + Len(b)
      /\ \A j \in 1 .. Len(a) + Len(b) : (a \o b)[j] = IF j <= Len(a) THEN a[j] ELSE b[j - Len(a)]
  BY <1>3, <1>4, ConcatProperties
<1>6. RemoveAt(s, i) = a \o b
  BY DEF RemoveAt, a, b
<1>7. ASSUME i < Len(s) PROVE (a \o b)[i] = s[i + 1]
  <2>1. i \in 1 .. Len(a) + Len(b) /\ ~(i <= Len(a)) /\ i - Len(a) = 1
    BY <1>1, <1>3, <1>4, <1>7
  <2>2. QED
    BY <1>4, <1>5, <1>7, <2>1
<1>8. Len(a \o b) = Len(s) - 1
  BY <1>1, <1>3, <1>4, <1>5
<1>9. QED
  BY <1>6, <1>7, <1>8

(* A step that takes one frame off takes the newest.                         *)
LEMMA OnlyUndoRemoves ==
  ASSUME PatchingInv, [Next]_vars, NEW i \in 1 .. Len(frames), frames' = RemoveAt(frames, i)
  PROVE  /\ i = Len(frames) /\ Len(frames') = Len(frames) - 1 /\ setting' = setting
         /\ \A j \in 1 .. Len(frames') : frames'[j] = frames[j]
<1>1. frames \in Seq(Frame) /\ Len(frames) \in Nat
  BY TypesSplit DEF FramesTyped
<1>2. Len(frames') = Len(frames) - 1
  BY <1>1, RemoveAtProperties
<1>3. CASE \E t \in Thread : Step(t)
  <2>1. frames' = frames \/ \E f \in Frame : frames' = Append(frames, f)
    BY <1>3, StepFrames
  <2>2. Len(frames') = Len(frames) \/ Len(frames') = Len(frames) + 1
    BY <1>1, <2>1
  <2>3. QED
    BY <1>1, <1>2, <2>2
<1>4. CASE UNCHANGED vars
  <2>1. Len(frames') = Len(frames)
    BY <1>4 DEF vars
  <2>2. QED
    BY <1>1, <1>2, <2>1
<1>5. CASE Undo \/ Unpatch \/ Uninstall \/ MakeClient
  <2>1. OthersDo /\ FramesTyped
    BY <1>5, OthersDoThese, TypesSplit
  <2>2. \A j \in 1 .. Len(frames') : frames'[j] = frames[j]
    BY <2>1, OthersKeepFrames
  <2>3. ASSUME i < Len(frames) PROVE FALSE
    <3>1. frames'[i] = frames[i + 1]
      BY <1>1, <2>3, RemoveAtProperties
    <3>2. i \in 1 .. Len(frames') /\ i + 1 \in 1 .. Len(frames) /\ i < i + 1
      BY <1>1, <1>2, <2>3
    <3>3. frames'[i] = frames[i]
      BY <2>2, <3>2
    <3>4. frames[i].id < frames[i + 1].id /\ frames[i].id \in 1 .. Len(outcome)
      BY <3>2 DEF PatchingInv, PatchOrder
    <3>5. QED
      BY <3>1, <3>3, <3>4
  <2>4. QED
    BY <1>1, <1>2, <2>1, <2>2, <2>3 DEF OthersDo
<1>6. QED
  BY <1>3, <1>4, <1>5 DEF Next

(* Whatever the threads patch and undo meanwhile, a patch that is undone     *)
(* leaves active for every client what was active when it began              *)
(* (patching.py:249-250, 267-276).                                           *)
THEOREM UndoneIsRestored == Spec => UndoRestores
<1> DEFINE Restores ==
      \A i \in 1 .. Len(frames) :
        frames' = RemoveAt(frames, i) => \A n \in Target : Active(n)' = frames[i].before[n]
<1>1. PatchingInv /\ BeforeKnown /\ [Next]_vars => [Restores]_vars
  <2> SUFFICES ASSUME PatchingInv, BeforeKnown, [Next]_vars, NEW i \in 1 .. Len(frames),
                      frames' = RemoveAt(frames, i), NEW n \in Target
               PROVE  Active(n)' = frames[i].before[n]
    OBVIOUS
  <2>1. /\ i = Len(frames) /\ Len(frames') = Len(frames) - 1 /\ setting' = setting
        /\ \A j \in 1 .. Len(frames') : frames'[j] = frames[j]
    BY OnlyUndoRemoves
  <2>2. Len(frames) \in Nat /\ Len(frames') \in Nat
    <3>1. Len(frames) \in Nat
      BY TypesSplit DEF FramesTyped
    <3>2. QED
      BY <2>1, <3>1
  <2>3. ASSUME NEW k \in Nat, k = Len(frames') PROVE Active(n)' = frames[i].before[n]
    <3>1. Active(n)' = ActiveUnder(k, n)'
      BY <2>3, ActiveIsAfter
    <3>2. ActiveUnder(k, n)' = ActiveUnder(k, n)
      BY <2>1, <2>3, UnderStays
    <3>3. frames[i].before[n] = ActiveUnder(i - 1, n)
      BY DEF BeforeKnown
    <3>4. k = i - 1
      BY <2>1, <2>2, <2>3
    <3>5. QED
      BY <3>1, <3>2, <3>3, <3>4
  <2>4. QED
    BY <2>2, <2>3
<1>2. Init => BeforeKnown
  <2> SUFFICES ASSUME Init PROVE BeforeKnown
    OBVIOUS
  <2>1. Len(frames) = 0
    BY DEF Init
  <2>2. QED
    BY <2>1 DEF BeforeKnown
<1>3. PatchingInv /\ BeforeKnown /\ [Next]_vars => BeforeKnown'
  BY BeforeNext
<1>4. QED
  BY <1>1, <1>2, <1>3, PatchingInit, PatchingNext, PTL DEF Spec, UndoRestores

-----------------------------------------------------------------------------
(* One install at a time.                                                    *)

(* No integration replaces another, or _uninstall is not called: a program   *)
(* that does both has installs undone by another's uninstall.                *)
NothingReplaced == MaxVersion = 1 \/ ~MayUninstall

OnceInv == InstalledOnce /\ installed \subseteq Registered

(* A step that leaves the clients alone keeps it.                            *)
LEMMA OnceStays ==
  ASSUME OnceInv, UNCHANGED <<installed, wraps>>,
         \A n \in Target : registry'[n] = registry[n] \/ registry'[n] = registry[n] + 1,
         registry \in [Target -> 0 .. MaxVersion]
  PROVE  OnceInv'
<1>1. Registered \subseteq Registered'
  BY PatchingAssumption DEF Registered
<1>2. QED
  BY <1>1 DEF OnceInv, InstalledOnce

(* An install changes a client nothing has changed.                          *)
LEMMA OnceInstall ==
  ASSUME PatchingInv, OnceInv, NEW t \in Thread, Install(t)
  PROVE  OnceInv'
<1> DEFINE n == at[t].name
           v == registry[n]
<1>1. TypeOK /\ RestTyped
  BY TypesSplit
<1>2. registry' = registry
  BY <1>1, InstallDoes
<1>3. CASE UNCHANGED <<wraps, installed>>
  BY <1>1, <1>2, <1>3, OnceStays DEF RestTyped
<1>4. CASE /\ n \in Registered \ (installed \cup Broken)
           /\ wraps' = [wraps EXCEPT ![n][v] = @ + 1]
           /\ installed' = installed \cup {n}
  <2>1. n \in Target /\ v \in Versions
    BY <1>1, <1>4, PatchingAssumption DEF RestTyped, Registered, Versions
  <2>2. wraps \in [Target -> [Versions -> Nat]]
    BY <1>1 DEF RestTyped
  <2>3. wraps[n] = Untouched
    BY <1>4, <2>1 DEF OnceInv, InstalledOnce
  <2>4. wraps' = [wraps EXCEPT ![n] = [wraps[n] EXCEPT ![v] = wraps[n][v] + 1]]
    BY <1>4
  <2>5. installed' = installed \cup {n} /\ Registered' = Registered /\ n \in Registered
    BY <1>2, <1>4 DEF Registered
  <2> HIDE DEF n, v
  <2>6. Untouched[v] + 1 = 1
    BY <2>1 DEF Untouched
  <2>7. wraps'[n] = [Untouched EXCEPT ![v] = 1]
    BY <2>1, <2>2, <2>3, <2>4, <2>6
  <2>8. \A m \in Target \ {n} : wraps'[m] = wraps[m]
    BY <2>2, <2>4
  <2>9. ASSUME NEW m \in Target
        PROVE  IF m \in installed' THEN \E w \in Versions : wraps'[m] = [Untouched EXCEPT ![w] = 1]
               ELSE wraps'[m] = Untouched
    <3>1. CASE m = n
      BY <2>1, <2>5, <2>7, <3>1
    <3>2. CASE m # n
      BY <2>5, <2>8, <3>2 DEF OnceInv, InstalledOnce
    <3>3. QED
      BY <3>1, <3>2
  <2>10. QED
    BY <2>5, <2>9 DEF OnceInv, InstalledOnce
<1>5. QED
  BY <1>1, <1>3, <1>4, InstallDoes

(* _uninstall takes back what was installed, when nothing replaced it.       *)
LEMMA OnceOthers ==
  ASSUME NothingReplaced, PatchingInv, OnceInv, OthersDo
  PROVE  OnceInv'
<1>1. RestTyped /\ registry' = registry
  BY TypesSplit DEF OthersDo
<1>2. CASE UNCHANGED <<installed, wraps>>
  BY <1>1, <1>2, OnceStays DEF RestTyped
<1>3. CASE /\ MayUninstall /\ installed' = {}
           /\ wraps' = [n \in Target |-> IF n \in installed
                                          THEN [wraps[n] EXCEPT ![registry[n]] = 0] ELSE wraps[n]]
  <2>1. Versions = {1}
    BY <1>3 DEF NothingReplaced, Versions
  <2>2. ASSUME NEW n \in Target PROVE wraps'[n] = Untouched
    <3>1. CASE n \in installed
      <4>1. PICK v \in Versions : wraps[n] = [Untouched EXCEPT ![v] = 1]
        BY <3>1 DEF OnceInv, InstalledOnce
      <4>2. v = 1
        BY <2>1
      <4>3. registry[n] = 1
        BY <1>1, <1>3, <3>1 DEF OnceInv, RestTyped, Registered, NothingReplaced
      <4>4. wraps'[n] = [wraps[n] EXCEPT ![1] = 0]
        BY <1>3, <3>1, <4>3
      <4>5. Untouched = [w \in {1} |-> 0]
        BY <2>1 DEF Untouched
      <4>6. QED
        BY <4>1, <4>2, <4>4, <4>5
    <3>2. CASE n \notin installed
      BY <1>3, <3>2 DEF OnceInv, InstalledOnce
    <3>3. QED
      BY <3>1, <3>2
  <2>3. QED
    BY <1>3, <2>2 DEF OnceInv, InstalledOnce
<1>4. QED
  BY <1>2, <1>3 DEF OthersDo

(* What a thread's step does to the registry and the clients, other than an  *)
(* install.                                                                  *)
LEMMA StepLeavesClients ==
  ASSUME PatchingInv, NEW t \in Thread, Step(t), ~Install(t)
  PROVE  /\ UNCHANGED <<installed, wraps>>
         /\ \A n \in Target : registry'[n] = registry[n] \/ registry'[n] = registry[n] + 1
<1>1. TypeOK /\ RestTyped
  BY TypesSplit
<1>2. CASE Register(t)
  <2>1. UNCHANGED <<installed, wraps>>
    BY <1>1, <1>2, RegisterDoes
  <2>2. PICK n \in Target : registry' = [registry EXCEPT ![n] = @ + 1]
    BY <1>1, <1>2, RegisterDoes
  <2>3. QED
    BY <1>1, <2>1, <2>2 DEF RestTyped
<1>3. CASE ~Register(t)
  <2>1. UNCHANGED <<installed, wraps, registry>>
    BY <1>3 DEF Step, CheckWanted, Import, ImportNamed, Executed, Loaded, ImportRaises, BeginPatch,
       EndPatch, InstallReady, InstallReadyOne, PatchReturns, Hook, Add, ListTargets, HookEach,
       environment
  <2>2. QED
    BY <2>1
<1>4. QED
  BY <1>2, <1>3

(* By however many threads, hooks and patches at once, a client's            *)
(* integration is installed at most once at a time, and _installed says      *)
(* whether it is (patching.py:189-202).                                      *)
THEOREM OnceInstalled ==
  ASSUME NothingReplaced
  PROVE  Spec => []InstalledOnce
<1>1. Init => OnceInv
  BY DEF Init, OnceInv, InstalledOnce
<1>2. PatchingInv /\ OnceInv /\ [Next]_vars => OnceInv'
  <2> SUFFICES ASSUME PatchingInv, OnceInv, [Next]_vars PROVE OnceInv'
    OBVIOUS
  <2>1. RestTyped
    BY TypesSplit
  <2>2. ASSUME NEW t \in Thread, Step(t) PROVE OnceInv'
    <3>1. CASE Install(t)
      BY <3>1, OnceInstall
    <3>2. CASE ~Install(t)
      BY <2>1, <2>2, <3>2, StepLeavesClients, OnceStays DEF RestTyped
    <3>3. QED
      BY <3>1, <3>2
  <2>3. CASE Undo \/ Unpatch \/ Uninstall \/ MakeClient
    BY <2>3, NothingReplaced, OthersDoThese, OnceOthers
  <2>4. CASE UNCHANGED vars
    <3>1. UNCHANGED <<installed, wraps, registry>>
      BY <2>4 DEF vars
    <3>2. QED
      BY <2>1, <3>1, OnceStays DEF RestTyped
  <2>5. QED
    BY <2>2, <2>3, <2>4 DEF Next
<1>3. OnceInv => InstalledOnce
  BY DEF OnceInv
<1>4. QED
  BY <1>1, <1>2, <1>3, PatchingInit, PatchingNext, PTL DEF Spec

-----------------------------------------------------------------------------
(* Whom a patch reaches.                                                     *)

(* No import runs while another thread patches.                              *)
ImportsWait == ~ImportsOverlap

(* What a thread that does not move is about to do, it still is.             *)
LEMMA OthersGoOn ==
  ASSUME NEW t \in Thread, NEW place, NEW hand, NEW left, NEW patch,
         Sets(t, place, hand, left, patch), NEW u \in Thread \ {t}, NEW n \in Target
  PROVE  /\ mine'[u] = mine[u] /\ pc'[u] = pc[u] /\ at'[u] = at[u]
         /\ WillReach(u, n) => WillReach(u, n)'
         /\ Registrar(u, n) /\ (n \in hooked' => n \in hooked) => Registrar(u, n)'
<1>1. pc'[u] = pc[u] /\ at'[u] = at[u] /\ todo'[u] = todo[u] /\ mine'[u] = mine[u]
  BY DEF Sets
<1>2. WillReach(u, n) => WillReach(u, n)'
  BY <1>1 DEF WillReach, InHand
<1>3. Registrar(u, n) /\ (n \in hooked' => n \in hooked) => Registrar(u, n)'
  BY <1>1 DEF Registrar
<1>4. QED
  BY <1>1, <1>2, <1>3

(* What a step of one thread has to see to, so that who is served stays so.  *)
LEMMA ServedStep ==
  ASSUME PatchingInv, ServedInv, NEW t \in Thread, NEW place, NEW hand, NEW left,
         Sets(t, place, hand, left, mine[t]),
         UNCHANGED <<setting, frames, outcome, uninstalled>>,
         installed \subseteq installed',
         \A n \in Installable' : n \in Installable \/ Served(n)',
         \A n \in Installable : n \in hooked' /\ n \notin hooked /\ imported[n] # "no" => Served(n)',
         \A n \in Installable : Registrar(t, n) /\ Asked(n) /\ imported[n] # "no" => Served(n)',
         \A n \in Installable :
           mine[t] # 0 /\ imported[n] = "done" /\ Asked(n) /\ WillReach(t, n)
             => WillReach(t, n)' \/ Served(n)',
         place = "loaded" /\ hand.name \in Installable /\ Asked(hand.name) => Served(hand.name)',
         \A n \in Installable :
           imported'[n] = "done" /\ imported[n] # "done" /\ Asked(n) => Served(n)'
  PROVE  FramesServed' /\ SettingServed' /\ ImportServed'
<1>1. TypeOK /\ FramesTyped
  BY TypesSplit
<1>2. \A n \in Target : Asked(n)' <=> Asked(n)
  BY DEF Asked, SettingWants
<1>3. Installable \subseteq Target /\ Installable' \subseteq Target
  BY DEF Installable, Registered
<1>4. ASSUME NEW n \in Installable, Served(n), Asked(n), imported[n] # "no" PROVE Served(n)'
  <2>1. CASE n \in installed
    BY <2>1 DEF Served
  <2>2. CASE n \in hooked' /\ n \notin hooked
    BY <1>4, <2>2
  <2>3. CASE n \notin installed /\ (n \in hooked' => n \in hooked)
    <3>1. PICK u \in Thread : Registrar(u, n)
      BY <1>4, <2>3 DEF Served, OnItsWay
    <3>2. CASE u = t
      BY <1>4, <3>1, <3>2
    <3>3. CASE u # t
      <4>1. Registrar(u, n)'
        BY <1>3, <2>3, <3>1, <3>3, OthersGoOn
      <4>2. QED
        BY <4>1 DEF Served, OnItsWay
    <3>4. QED
      BY <3>2, <3>3
  <2>4. QED
    BY <2>1, <2>2, <2>3
<1>5. FramesServed'
  <2> SUFFICES ASSUME NEW n \in Installable', NEW i \in 1 .. Len(frames'), imported'[n] = "done",
                      Covers(frames'[i], n), outcome'[frames'[i].id] # "raised"
               PROVE  Served(n)' \/ \E u \in Thread : mine'[u] = frames'[i].id /\ WillReach(u, n)'
    BY DEF FramesServed
  <2>1. CASE n \notin Installable
    BY <2>1
  <2>2. CASE n \in Installable
    <3>1. Asked(n)
      BY DEF Asked
    <3>2. CASE imported[n] # "done"
      BY <2>2, <3>1, <3>2
    <3>3. CASE imported[n] = "done"
      <4>1. Served(n) \/ \E u \in Thread : mine[u] = frames[i].id /\ WillReach(u, n)
        BY <2>2, <3>3 DEF ServedInv, FramesServed
      <4>2. CASE Served(n)
        BY <1>4, <2>2, <3>1, <3>3, <4>2
      <4>3. ASSUME NEW u \in Thread, mine[u] = frames[i].id, WillReach(u, n)
            PROVE  Served(n)' \/ \E v \in Thread : mine'[v] = frames'[i].id /\ WillReach(v, n)'
        <5>1. CASE u = t
          <6>1. mine[t] # 0
            BY <4>3, <5>1 DEF PatchingInv, PatchOrder
          <6>2. mine'[t] = mine[t]
            BY DEF Sets
          <6>3. WillReach(t, n)' \/ Served(n)'
            BY <2>2, <3>1, <3>3, <4>3, <5>1, <6>1
          <6>4. QED
            BY <4>3, <5>1, <6>2, <6>3
        <5>2. CASE u # t
          BY <1>3, <2>2, <4>3, <5>2, OthersGoOn
        <5>3. QED
          BY <5>1, <5>2
      <4>4. QED
        BY <4>1, <4>2, <4>3
    <3>4. QED
      BY <3>2, <3>3
  <2>3. QED
    BY <2>1, <2>2
<1>6. SettingServed'
  <2> SUFFICES ASSUME NEW n \in Installable', imported'[n] = "done", SettingWants(n)', ~uninstalled'
               PROVE  Served(n)'
    BY DEF SettingServed
  <2>1. CASE n \notin Installable
    BY <2>1
  <2>2. CASE n \in Installable
    <3>1. SettingWants(n) /\ ~uninstalled /\ Asked(n)
      BY DEF Asked, SettingWants
    <3>2. CASE imported[n] # "done"
      BY <2>2, <3>1, <3>2
    <3>3. CASE imported[n] = "done"
      <4>1. Served(n)
        BY <2>2, <3>1, <3>3 DEF ServedInv, SettingServed
      <4>2. QED
        BY <1>4, <2>2, <3>1, <3>3, <4>1
    <3>4. QED
      BY <3>2, <3>3
  <2>3. QED
    BY <2>1, <2>2
<1>7. ImportServed'
  <2> SUFFICES ASSUME NEW u \in Thread, NEW n \in Installable', pc'[u] = "loaded",
                      at'[u].name = n, Asked(n)'
               PROVE  Served(n)'
    BY DEF ImportServed
  <2>1. CASE n \notin Installable
    BY <2>1
  <2>2. CASE n \in Installable /\ u = t
    BY <1>2, <1>3, <2>2 DEF Sets
  <2>3. CASE n \in Installable /\ u # t
    <3>1. pc[u] = "loaded" /\ at[u].name = n
      BY <2>3 DEF Sets
    <3>2. Asked(n)
      BY <1>2, <1>3, <2>3
    <3>3. Served(n)
      BY <2>3, <3>1, <3>2 DEF ServedInv, ImportServed
    <3>4. imported[n] = "initializing"
      <4>1. at[u].next = "loaded"
        BY <3>1, TypesSplit DEF ThreadOrder, Order
      <4>2. QED
        BY <3>1, <4>1 DEF ServedInv, ImportsAlone
    <3>5. QED
      BY <1>4, <2>3, <3>2, <3>3, <3>4
  <2>4. QED
    BY <2>1, <2>2, <2>3
<1>8. QED
  BY <1>5, <1>6, <1>7

(* A client is served by who is about to see to it.                          *)
LEMMA RegistrarServes ==
  ASSUME NEW t \in Thread, NEW n \in Target, Registrar(t, n)'
  PROVE  Served(n)'
BY DEF Served, OnItsWay

(* A client another thread sees to is served still.                          *)
LEMMA OthersServe ==
  ASSUME NEW t \in Thread, NEW place, NEW hand, NEW left, NEW patch,
         Sets(t, place, hand, left, patch), NEW n \in Target, Served(n), ~Registrar(t, n),
         installed \subseteq installed', n \in hooked' => n \in hooked
  PROVE  Served(n)'
<1>1. CASE n \in installed
  BY <1>1 DEF Served
<1>2. CASE n \notin installed
  <2>1. PICK u \in Thread : Registrar(u, n)
    BY <1>2 DEF Served, OnItsWay
  <2>2. u \in Thread \ {t}
    BY <2>1
  <2>3. Registrar(u, n)'
    BY <2>1, <2>2, OthersGoOn
  <2>4. QED
    BY <2>3, RegistrarServes
<1>3. QED
  BY <1>1, <1>2

(* What is asked for is wanted.                                              *)
LEMMA AskedIsWanted ==
  ASSUME NEW n \in Target, Asked(n)
  PROVE  Wanted(n)
BY DEF Asked, Wanted

(* The three parts of it that every step has to see to.                      *)
AllServed == FramesServed /\ SettingServed /\ ImportServed

(* What is wanted goes on to _install.                                       *)
LEMMA CheckWantedServes ==
  ASSUME PatchingInv, ServedInv, NEW t \in Thread, CheckWanted(t)
  PROVE  AllServed'
<1>1. TypeOK /\ ThreadOrder(t)
  BY TypesSplit
<1>2. /\ pc[t] = "wanted"
      /\ \/ Wanted(at[t].name) /\ Sets(t, "install", at[t], todo[t], mine[t])
         \/ ~Wanted(at[t].name) /\ Sets(t, at[t].next, GoneOn(t), todo[t], mine[t])
      /\ UNCHANGED <<setting, registry, hooked, hooks, imported, installed, wraps, frames,
                     outcome, clients, uninstalled>>
  BY <1>1, CheckWantedDoes
<1>3. /\ installed \subseteq installed' /\ Installable' = Installable
      /\ \A n \in Installable : n \in Target
  BY <1>2 DEF Installable, Registered
<1>4. CASE Wanted(at[t].name) /\ Sets(t, "install", at[t], todo[t], mine[t])
  <2>1. PICK h \in Hands : h = at[t]
    BY <1>1, HandsTyped
  <2>2. Sets(t, "install", h, todo[t], mine[t])
    BY <1>4, <2>1
  <2>3. ASSUME NEW n \in Installable, Registrar(t, n) PROVE Served(n)'
    <3>1. Registrar(t, n)'
      BY <1>4, <2>3 DEF Registrar, Sets
    <3>2. QED
      BY <1>3, <3>1, RegistrarServes
  <2>4. ASSUME NEW n \in Installable, WillReach(t, n) PROVE WillReach(t, n)'
    BY <1>2, <1>4, <2>4 DEF WillReach, InHand, Sets
  <2>5. QED
    BY <1>2, <1>3, <2>2, <2>3, <2>4, ServedStep DEF AllServed
<1>5. CASE ~Wanted(at[t].name) /\ Sets(t, at[t].next, GoneOn(t), todo[t], mine[t])
  <2>1. PICK h \in Hands, p \in PCs : h = GoneOn(t) /\ p = at[t].next
    BY <1>1, HandsTyped DEF GoneOn
  <2>2. Sets(t, p, h, todo[t], mine[t])
    BY <1>5, <2>1
  <2>3. \A n \in Installable : Asked(n) => at[t].name # n
    BY <1>3, <1>5, AskedIsWanted
  <2>4. ASSUME NEW n \in Installable, Registrar(t, n), Asked(n) PROVE Served(n)'
    BY <2>3, <2>4 DEF Registrar
  <2>5. ASSUME NEW n \in Installable, Asked(n), WillReach(t, n) PROVE WillReach(t, n)'
    BY <1>2, <1>5, <2>3, <2>5 DEF WillReach, InHand, Sets, GoneOn
  <2>6. p = "loaded" /\ h.name \in Installable /\ Asked(h.name) => FALSE
    BY <2>1, <2>3 DEF GoneOn
  <2>7. QED
    BY <1>2, <1>3, <2>2, <2>4, <2>5, <2>6, ServedStep DEF AllServed
<1>6. QED
  BY <1>2, <1>4, <1>5

(* What _install was called for is installed.                                *)
LEMMA InstallServes ==
  ASSUME PatchingInv, ServedInv, NEW t \in Thread, Install(t)
  PROVE  AllServed'
<1>1. TypeOK /\ ThreadOrder(t)
  BY TypesSplit
<1>2. /\ pc[t] = "install"
      /\ Sets(t, at[t].next, GoneOn(t), todo[t], mine[t])
      /\ \/ installed' = installed \cup {at[t].name}
         \/ at[t].name \notin Registered \ (installed \cup Broken) /\ UNCHANGED installed
      /\ UNCHANGED <<setting, registry, hooked, hooks, imported, frames, outcome, clients,
                     uninstalled>>
  BY <1>1, InstallDoes
<1>3. /\ installed \subseteq installed' /\ Installable' = Installable
      /\ \A n \in Installable : n \in Target
  BY <1>2 DEF Installable, Registered
<1>4. \A n \in Installable : at[t].name = n => Served(n)'
  BY <1>2 DEF Installable, Served
<1>5. PICK h \in Hands, p \in PCs : h = GoneOn(t) /\ p = at[t].next
  BY <1>1, HandsTyped DEF GoneOn
<1>6. Sets(t, p, h, todo[t], mine[t])
  BY <1>2, <1>5
<1>7. ASSUME NEW n \in Installable, Registrar(t, n) PROVE Served(n)'
  BY <1>4, <1>7 DEF Registrar
<1>8. ASSUME NEW n \in Installable, WillReach(t, n) PROVE WillReach(t, n)' \/ Served(n)'
  <2>1. CASE at[t].name = n
    BY <1>4, <2>1
  <2>2. CASE at[t].name # n
    BY <1>2, <1>8, <2>2 DEF WillReach, InHand, Sets, GoneOn
  <2>3. QED
    BY <2>1, <2>2
<1>9. p = "loaded" /\ h.name \in Installable => Served(h.name)'
  <2>1. p = "loaded" => h.name = at[t].name
    BY <1>5 DEF GoneOn
  <2>2. QED
    BY <1>4, <2>1
<1>10. QED
  BY <1>2, <1>3, <1>6, <1>7, <1>8, <1>9, ServedStep DEF AllServed

(* The start of an import leaves everyone as they were.                      *)
LEMMA ImportServes ==
  ASSUME PatchingInv, ServedInv, NEW t \in Thread, Import(t)
  PROVE  AllServed'
<1>1. TypeOK /\ ThreadOrder(t)
  BY TypesSplit
<1>2. /\ pc[t] = "idle"
      /\ UNCHANGED <<setting, registry, hooked, hooks, installed, wraps, frames, outcome,
                     clients, uninstalled>>
  BY <1>1, ImportDoes
<1>3. PICK m \in Target :
        /\ imported' = [imported EXCEPT ![m] = "initializing"]
        /\ Sets(t, "execute", [name |-> m, next |-> "loaded"], todo[t], mine[t])
  BY <1>1, ImportDoes
<1>4. /\ installed \subseteq installed' /\ Installable' = Installable
      /\ \A n \in Installable : n \in Target
  BY <1>2 DEF Installable, Registered
<1>5. mine[t] = 0
  BY <1>1, <1>2 DEF ThreadOrder, Order
<1>6. \A n \in Installable : ~Registrar(t, n)
  BY <1>2 DEF Registrar
<1>7. \A n \in Target : imported'[n] = "done" => imported[n] = "done"
  BY <1>1, <1>3 DEF TypeOK
<1>8. QED
  BY <1>2, <1>3, <1>4, <1>5, <1>6, <1>7, ServedStep DEF AllServed

(* A patch that imports what it names has it to see to still.                *)
LEMMA ImportNamedServes ==
  ASSUME PatchingInv, ServedInv, NEW t \in Thread, ImportNamed(t)
  PROVE  AllServed'
<1>1. TypeOK /\ ThreadOrder(t)
  BY TypesSplit
<1>2. /\ pc[t] = "import"
      /\ UNCHANGED <<setting, registry, hooked, hooks, installed, wraps, frames, outcome,
                     clients, uninstalled>>
  BY <1>1, ImportNamedDoes
<1>3. PICK m \in todo[t] :
        \/ /\ imported' = [imported EXCEPT ![m] = "initializing"]
           /\ Sets(t, "execute", [name |-> m, next |-> "loaded"], todo[t] \ {m}, mine[t])
        \/ /\ imported' = imported
           /\ Sets(t, "hook", [name |-> m, next |-> "import"], todo[t] \ {m}, mine[t])
  BY <1>1, ImportNamedDoes
<1>4. /\ installed \subseteq installed' /\ Installable' = Installable
      /\ \A n \in Installable : n \in Target
  BY <1>2 DEF Installable, Registered
<1>5. PICK h \in Hands, p \in {"execute", "hook"} : Sets(t, p, h, todo[t] \ {m}, mine[t])
  <2>1. [name |-> m, next |-> "loaded"] \in Hands /\ [name |-> m, next |-> "import"] \in Hands
    <3>1. m \in Target /\ "loaded" \in PCs /\ "import" \in PCs
      BY <1>1, HandsTyped DEF PCs
    <3>2. QED
      BY <1>1, <3>1, HandsTyped
  <2>2. QED
    BY <1>3, <2>1
<1>6. \A n \in Installable : ~Registrar(t, n)
  BY <1>2 DEF Registrar
<1>7. \A n \in Target : imported'[n] = "done" => imported[n] = "done"
  BY <1>1, <1>3 DEF TypeOK
<1>8. ASSUME NEW n \in Installable PROVE WillReach(t, n)'
  BY <1>3 DEF WillReach, Sets
<1>9. QED
  BY <1>2, <1>4, <1>5, <1>6, <1>7, <1>8, ServedStep DEF AllServed

(* A module that ran without a hook has a registration to see to it.         *)
LEMMA ExecutedServes ==
  ASSUME PatchingInv, ServedInv, NEW t \in Thread, Executed(t)
  PROVE  AllServed'
<1>1. TypeOK /\ ThreadOrder(t)
  BY TypesSplit
<1>2. /\ pc[t] = "execute"
      /\ \/ at[t].name \in hooks /\ Sets(t, "wanted", at[t], todo[t], mine[t])
         \/ at[t].name \notin hooks /\ Sets(t, "loaded", at[t], todo[t], mine[t])
      /\ UNCHANGED <<setting, registry, hooked, hooks, imported, installed, wraps, frames,
                     outcome, clients, uninstalled>>
  BY <1>1, ExecutedDoes
<1>3. /\ installed \subseteq installed' /\ Installable' = Installable
      /\ \A n \in Installable : n \in Target /\ n \in Registered
  BY <1>2 DEF Installable, Registered
<1>4. PICK h \in Hands, p \in {"wanted", "loaded"} :
        /\ h = at[t] /\ Sets(t, p, h, todo[t], mine[t])
        /\ p = "loaded" => at[t].name \notin hooks
  BY <1>1, <1>2, HandsTyped
<1>5. \A n \in Installable : ~Registrar(t, n)
  BY <1>2 DEF Registrar
<1>6. at[t].next = "loaded"
  BY <1>1, <1>2 DEF ThreadOrder, Order
<1>7. ASSUME NEW n \in Installable PROVE WillReach(t, n)'
  BY <1>2, <1>6 DEF WillReach, Sets
<1>8. ASSUME p = "loaded", NEW n \in Installable, h.name = n PROVE Served(n)'
  <2>1. n \in Registered /\ n \notin hooks
    BY <1>3, <1>4, <1>8
  <2>2. \E u \in Thread \ {t} : Registrar(u, n)
    <3>1. CASE n \notin hooked
      <4>1. PICK u \in Thread : pc[u] = "hook" /\ at[u].name = n /\ at[u].next = "idle"
        BY <2>1, <3>1 DEF ServedInv, HooksFollow
      <4>2. QED
        BY <1>2, <3>1, <4>1 DEF Registrar
    <3>2. CASE n \in hooked
      <4>1. PICK u \in Thread : pc[u] = "add" /\ at[u].name = n
        BY <2>1, <3>2 DEF ServedInv, AddsFollow
      <4>2. at[u].next \in {"idle", "import", "mark"}
        BY <4>1, TypesSplit DEF ThreadOrder, Order
      <4>3. QED
        BY <1>2, <4>1, <4>2 DEF Registrar
    <3>3. QED
      BY <3>1, <3>2
  <2>3. PICK u \in Thread \ {t} : Registrar(u, n)
    BY <2>2
  <2>4. Registrar(u, n)'
    BY <1>2, <1>3, <1>4, <2>3, OthersGoOn
  <2>5. QED
    BY <1>3, <2>4, RegistrarServes
<1>9. QED
  BY <1>2, <1>3, <1>4, <1>5, <1>7, <1>8, ServedStep DEF AllServed

(* A client whose import ends was served at the end of its execution.        *)
LEMMA LoadedServes ==
  ASSUME PatchingInv, ServedInv, NEW t \in Thread, Loaded(t)
  PROVE  AllServed'
<1>1. TypeOK /\ ThreadOrder(t)
  BY TypesSplit
<1>2. /\ pc[t] = "loaded"
      /\ \/ /\ mine[t] # 0
            /\ Sets(t, "hook", [name |-> at[t].name, next |-> "import"], todo[t], mine[t])
         \/ mine[t] = 0 /\ Sets(t, "idle", Nowhere, todo[t], mine[t])
      /\ imported' = [imported EXCEPT ![at[t].name] = "done"]
      /\ UNCHANGED <<setting, registry, hooked, hooks, installed, wraps, frames, outcome,
                     clients, uninstalled>>
  BY <1>1, LoadedDoes
<1>3. /\ installed \subseteq installed' /\ Installable' = Installable
      /\ \A n \in Installable : n \in Target
  BY <1>2 DEF Installable, Registered
<1>4. PICK h \in Hands, p \in {"hook", "idle"} :
        Sets(t, p, h, todo[t], mine[t]) /\ (mine[t] # 0 => h.next = "import")
  <2>1. "import" \in PCs
    BY DEF PCs
  <2>2. QED
    BY <1>1, <1>2, <2>1, HandsTyped
<1>5. \A n \in Installable : ~Registrar(t, n)
  BY <1>2 DEF Registrar
<1>6. ASSUME NEW n \in Installable, mine[t] # 0 PROVE WillReach(t, n)'
  BY <1>4, <1>6 DEF WillReach, Sets
<1>7. ASSUME NEW n \in Installable, imported'[n] = "done", imported[n] # "done", Asked(n)
      PROVE  Served(n)'
  <2>1. at[t].name = n
    BY <1>1, <1>2, <1>3, <1>7 DEF TypeOK
  <2>2. Served(n)
    BY <1>2, <1>7, <2>1 DEF ServedInv, ImportServed
  <2>3. QED
    BY <1>2, <1>3, <1>4, <1>5, <2>2, OthersServe
<1>8. QED
  BY <1>2, <1>3, <1>4, <1>5, <1>6, <1>7, ServedStep DEF AllServed

(* A patch goes through everything registered.                               *)
LEMMA InstallReadyServes ==
  ASSUME PatchingInv, ServedInv, NEW t \in Thread, InstallReady(t)
  PROVE  AllServed'
<1>1. TypeOK /\ ThreadOrder(t)
  BY TypesSplit
<1>2. /\ pc[t] \in {"import", "mark"}
      /\ Sets(t, "ready", at[t], Registered, mine[t])
      /\ UNCHANGED <<setting, registry, hooked, hooks, imported, installed, wraps, frames,
                     outcome, clients, uninstalled>>
  BY <1>1, InstallReadyDoes
<1>3. /\ installed \subseteq installed' /\ Installable' = Installable
      /\ \A n \in Installable : n \in Target /\ n \in Registered
  BY <1>2 DEF Installable, Registered
<1>4. PICK h \in Hands, left \in SUBSET Target : h = at[t] /\ left = Registered
  BY <1>1, HandsTyped DEF Registered
<1>5. Sets(t, "ready", h, left, mine[t])
  BY <1>2, <1>4
<1>6. \A n \in Installable : ~Registrar(t, n)
  BY <1>2 DEF Registrar
<1>7. ASSUME NEW n \in Installable PROVE WillReach(t, n)'
  BY <1>3, <1>4, <1>5 DEF WillReach, Sets
<1>8. QED
  BY <1>2, <1>3, <1>5, <1>6, <1>7, ServedStep DEF AllServed

(* One that is imported goes on to be looked at.                             *)
LEMMA InstallReadyOneServes ==
  ASSUME PatchingInv, ServedInv, NEW t \in Thread, InstallReadyOne(t)
  PROVE  AllServed'
<1>1. TypeOK /\ ThreadOrder(t)
  BY TypesSplit
<1>2. /\ pc[t] = "ready"
      /\ UNCHANGED <<setting, registry, hooked, hooks, imported, installed, wraps, frames,
                     outcome, clients, uninstalled>>
  BY <1>1, InstallReadyOneDoes
<1>3. PICK m \in todo[t] :
        \/ Sets(t, "wanted", [name |-> m, next |-> "ready"], todo[t] \ {m}, mine[t])
        \/ imported[m] # "done" /\ Sets(t, "ready", at[t], todo[t] \ {m}, mine[t])
  BY <1>1, InstallReadyOneDoes
<1>4. /\ installed \subseteq installed' /\ Installable' = Installable
      /\ \A n \in Installable : n \in Target
  BY <1>2 DEF Installable, Registered
<1>5. PICK h \in Hands, p \in {"wanted", "ready"} : Sets(t, p, h, todo[t] \ {m}, mine[t])
  <2>1. [name |-> m, next |-> "ready"] \in Hands /\ at[t] \in Hands
    <3>1. m \in Target /\ "ready" \in PCs
      BY <1>1, HandsTyped DEF PCs
    <3>2. QED
      BY <1>1, <3>1, HandsTyped
  <2>2. QED
    BY <1>3, <2>1
<1>6. \A n \in Installable : ~Registrar(t, n)
  BY <1>2 DEF Registrar
<1>7. ASSUME NEW n \in Installable, imported[n] = "done", WillReach(t, n) PROVE WillReach(t, n)'
  <2>1. n \in todo[t]
    BY <1>1, <1>2, <1>7 DEF WillReach, InHand, ThreadOrder, Order
  <2>2. CASE Sets(t, "wanted", [name |-> m, next |-> "ready"], todo[t] \ {m}, mine[t])
    BY <2>1, <2>2 DEF WillReach, InHand, Sets
  <2>3. CASE imported[m] # "done" /\ Sets(t, "ready", at[t], todo[t] \ {m}, mine[t])
    BY <1>7, <2>1, <2>3 DEF WillReach, Sets
  <2>4. QED
    BY <1>3, <2>2, <2>3
<1>8. QED
  BY <1>2, <1>4, <1>5, <1>6, <1>7, ServedStep DEF AllServed

(* Who registers a client sees to it.                                        *)
LEMMA RegisterServes ==
  ASSUME PatchingInv, ServedInv, NEW t \in Thread, Register(t)
  PROVE  AllServed'
<1>1. TypeOK /\ ThreadOrder(t)
  BY TypesSplit
<1>2. /\ pc[t] = "idle"
      /\ UNCHANGED <<setting, hooks, imported, installed, wraps, frames, outcome, clients,
                     uninstalled>>
  BY <1>1, RegisterDoes
<1>3. PICK m \in Target :
        /\ registry' = [registry EXCEPT ![m] = @ + 1] /\ hooked' = hooked \ {m}
        /\ Sets(t, "hook", [name |-> m, next |-> "idle"], todo[t], mine[t])
  BY <1>1, RegisterDoes
<1>4. mine[t] = 0 /\ \A n \in Installable : n \in Target /\ ~Registrar(t, n)
  BY <1>1, <1>2 DEF ThreadOrder, Order, Registrar, Installable, Registered
<1>5. ASSUME NEW n \in Installable' PROVE n \in Installable \/ Served(n)'
  <2>1. CASE n = m
    <3>1. Registrar(t, m)'
      BY <1>3 DEF Registrar, Sets
    <3>2. QED
      BY <2>1, <3>1, RegistrarServes
  <2>2. CASE n # m
    <3>1. n \in Target /\ n \notin Broken /\ registry'[n] > 0
      BY <1>5 DEF Installable, Registered
    <3>2. registry'[n] = registry[n]
      BY <1>1, <1>3, <2>2, <3>1 DEF TypeOK
    <3>3. QED
      BY <3>1, <3>2 DEF Installable, Registered
  <2>3. QED
    BY <2>1, <2>2
<1>6. installed \subseteq installed' /\ \A n \in Installable : ~(n \in hooked' /\ n \notin hooked)
  BY <1>2, <1>3
<1>7. QED
  BY <1>2, <1>3, <1>4, <1>5, <1>6, ServedStep DEF AllServed

(* Who marks a client is to see to it.                                       *)
LEMMA HookServes ==
  ASSUME PatchingInv, ServedInv, NEW t \in Thread, Hook(t)
  PROVE  AllServed'
<1>1. TypeOK /\ ThreadOrder(t)
  BY TypesSplit
<1>2. /\ pc[t] = "hook" /\ hooked' = hooked \cup {at[t].name}
      /\ \/ at[t].name \in hooked /\ Sets(t, at[t].next, Nowhere, todo[t], mine[t])
         \/ at[t].name \notin hooked /\ Sets(t, "add", at[t], todo[t], mine[t])
      /\ UNCHANGED <<setting, registry, hooks, imported, installed, wraps, frames, outcome,
                     clients, uninstalled>>
  BY <1>1, HookDoes
<1>3. /\ installed \subseteq installed' /\ Installable' = Installable
      /\ \A n \in Installable : n \in Target
  BY <1>2 DEF Installable, Registered
<1>4. /\ at[t].next \in {"idle", "import", "mark"}
      /\ mine[t] # 0 => at[t].next \in {"import", "mark"}
  BY <1>1, <1>2 DEF ThreadOrder, Order
<1>5. PICK h \in Hands, p \in {"add", "idle", "import", "mark"} : Sets(t, p, h, todo[t], mine[t])
  BY <1>1, <1>2, <1>4, HandsTyped
<1>6. ASSUME NEW n \in Installable, at[t].name = n, n \notin hooked PROVE Served(n)'
  <2>1. Registrar(t, n)'
    BY <1>2, <1>4, <1>6 DEF Registrar, Sets
  <2>2. QED
    BY <1>3, <2>1, RegistrarServes
<1>7. ASSUME NEW n \in Installable, n \in hooked', n \notin hooked PROVE Served(n)'
  BY <1>2, <1>6, <1>7
<1>8. ASSUME NEW n \in Installable, Registrar(t, n) PROVE Served(n)'
  BY <1>2, <1>6, <1>8 DEF Registrar
<1>9. ASSUME NEW n \in Installable, mine[t] # 0 PROVE WillReach(t, n)'
  <2>1. CASE Sets(t, at[t].next, Nowhere, todo[t], mine[t])
    BY <1>4, <1>9, <2>1 DEF WillReach, Sets
  <2>2. CASE Sets(t, "add", at[t], todo[t], mine[t])
    BY <1>4, <1>9, <2>2 DEF WillReach, Sets
  <2>3. QED
    BY <1>2, <2>1, <2>2
<1>10. QED
  BY <1>2, <1>3, <1>5, <1>7, <1>8, <1>9, ServedStep DEF AllServed

(* A hook that is new runs at once for a client that is being imported.      *)
LEMMA AddServes ==
  ASSUME PatchingInv, ServedInv, NEW t \in Thread, Add(t)
  PROVE  AllServed'
<1>1. TypeOK /\ ThreadOrder(t)
  BY TypesSplit
<1>2. /\ pc[t] = "add"
      /\ \/ imported[at[t].name] # "no" /\ Sets(t, "wanted", at[t], todo[t], mine[t])
         \/ /\ imported[at[t].name] = "no"
            /\ Sets(t, at[t].next, GoneOn(t), todo[t], mine[t])
      /\ UNCHANGED <<setting, registry, hooked, imported, installed, wraps, frames, outcome,
                     clients, uninstalled>>
  BY <1>1, AddDoes
<1>3. /\ installed \subseteq installed' /\ Installable' = Installable
      /\ \A n \in Installable : n \in Target
  BY <1>2 DEF Installable, Registered
<1>4. /\ at[t].next \in {"idle", "import", "mark"}
      /\ mine[t] # 0 => at[t].next \in {"import", "mark"}
  BY <1>1, <1>2 DEF ThreadOrder, Order
<1>5. PICK h \in Hands, p \in {"wanted", "idle", "import", "mark"} :
        Sets(t, p, h, todo[t], mine[t])
  BY <1>1, <1>2, <1>4, HandsTyped DEF GoneOn
<1>6. ASSUME NEW n \in Installable, Registrar(t, n), imported[n] # "no" PROVE Served(n)'
  <2>1. Sets(t, "wanted", at[t], todo[t], mine[t]) /\ at[t].name = n
    BY <1>2, <1>6 DEF Registrar
  <2>2. Registrar(t, n)'
    BY <1>4, <2>1 DEF Registrar, Sets
  <2>3. QED
    BY <1>3, <2>2, RegistrarServes
<1>7. ASSUME NEW n \in Installable, mine[t] # 0 PROVE WillReach(t, n)'
  <2>1. CASE Sets(t, at[t].next, GoneOn(t), todo[t], mine[t])
    BY <1>4, <1>7, <2>1 DEF WillReach, Sets
  <2>2. CASE Sets(t, "wanted", at[t], todo[t], mine[t])
    BY <1>4, <1>7, <2>2 DEF WillReach, Sets
  <2>3. QED
    BY <1>2, <2>1, <2>2
<1>8. QED
  BY <1>2, <1>3, <1>5, <1>6, <1>7, ServedStep DEF AllServed

(* A patch that covers everything goes through what is registered.           *)
LEMMA ListTargetsServes ==
  ASSUME PatchingInv, ServedInv, NEW t \in Thread, ListTargets(t)
  PROVE  AllServed'
<1>1. TypeOK
  BY TypesSplit
<1>2. /\ pc[t] = "list"
      /\ Sets(t, "mark", at[t], Registered, mine[t])
      /\ UNCHANGED <<setting, registry, hooked, hooks, imported, installed, wraps, frames,
                     outcome, clients, uninstalled>>
  BY <1>1, ListTargetsDoes
<1>3. /\ installed \subseteq installed' /\ Installable' = Installable
      /\ \A n \in Installable : n \in Target
  BY <1>2 DEF Installable, Registered
<1>4. PICK h \in Hands, left \in SUBSET Target : Sets(t, "mark", h, left, mine[t])
  BY <1>1, <1>2, HandsTyped DEF Registered
<1>5. \A n \in Installable : ~Registrar(t, n)
  BY <1>2 DEF Registrar
<1>6. ASSUME NEW n \in Installable PROVE WillReach(t, n)'
  BY <1>4 DEF WillReach, Sets
<1>7. QED
  BY <1>2, <1>3, <1>4, <1>5, <1>6, ServedStep DEF AllServed

(* It marks each in turn.                                                    *)
LEMMA HookEachServes ==
  ASSUME PatchingInv, ServedInv, NEW t \in Thread, HookEach(t)
  PROVE  AllServed'
<1>1. TypeOK
  BY TypesSplit
<1>2. /\ pc[t] = "mark"
      /\ UNCHANGED <<setting, registry, hooks, imported, installed, wraps, frames, outcome,
                     clients, uninstalled>>
  BY <1>1, HookEachDoes
<1>3. PICK m \in todo[t] :
        /\ hooked' = hooked \cup {m}
        /\ \/ m \in hooked /\ Sets(t, "mark", Nowhere, todo[t] \ {m}, mine[t])
           \/ /\ m \notin hooked
              /\ Sets(t, "add", [name |-> m, next |-> "mark"], todo[t] \ {m}, mine[t])
  BY <1>1, HookEachDoes
<1>4. /\ installed \subseteq installed' /\ Installable' = Installable
      /\ \A n \in Installable : n \in Target
  BY <1>2 DEF Installable, Registered
<1>5. PICK h \in Hands, p \in {"mark", "add"} : Sets(t, p, h, todo[t] \ {m}, mine[t])
  <2>1. m \in Target /\ "mark" \in PCs
    BY <1>1, HandsTyped DEF PCs
  <2>2. Nowhere \in Hands /\ [name |-> m, next |-> "mark"] \in Hands
    BY <1>1, <2>1, HandsTyped
  <2>3. QED
    BY <1>3, <2>2
<1>6. \A n \in Installable : ~Registrar(t, n)
  BY <1>2 DEF Registrar
<1>7. ASSUME NEW n \in Installable, n \in hooked', n \notin hooked PROVE Served(n)'
  <2>1. Registrar(t, n)'
    BY <1>3, <1>7 DEF Registrar, Sets
  <2>2. QED
    BY <1>4, <2>1, RegistrarServes
<1>8. ASSUME NEW n \in Installable PROVE WillReach(t, n)'
  BY <1>3 DEF WillReach, Sets
<1>9. QED
  BY <1>2, <1>4, <1>5, <1>6, <1>7, <1>8, ServedStep DEF AllServed

(* A new patch has all it covers to see to.                                  *)
LEMMA BeginPatchServes ==
  ASSUME ImportsWait, PatchingInv, ServedInv, NEW t \in Thread, BeginPatch(t)
  PROVE  AllServed'
<1>1. TypeOK /\ ThreadOrder(t) /\ FramesTyped
  BY TypesSplit
<1>2. /\ pc[t] = "idle" /\ Importing = {} /\ outcome' = Append(outcome, "running")
      /\ UNCHANGED <<setting, registry, hooked, hooks, imported, installed, wraps, clients,
                     uninstalled>>
  BY <1>1, BeginPatchDoes DEF ImportsWait
<1>3. PICK f \in Frame, p \in {"list", "import"} :
        /\ f.id = Len(outcome) + 1 /\ frames' = Append(frames, f)
        /\ Sets(t, p, at[t], f.names, Len(outcome) + 1)
  BY <1>1, BeginPatchDoes
<1>4. /\ frames \in Seq(Frame) /\ outcome \in Seq({"running", "returned", "raised"})
      /\ Len(frames) \in Nat /\ Len(outcome) \in Nat
  BY <1>1 DEF FramesTyped
<1>5. /\ Len(frames') = Len(frames) + 1 /\ frames'[Len(frames) + 1] = f
      /\ \A i \in 1 .. Len(frames) : frames'[i] = frames[i] /\ frames[i].id \in 1 .. Len(outcome)
      /\ \A k \in 1 .. Len(outcome) : outcome'[k] = outcome[k]
  BY <1>2, <1>3, <1>4 DEF PatchingInv, PatchOrder
<1>6. Installable' = Installable /\ \A n \in Installable : n \in Target
  BY <1>2 DEF Installable, Registered
<1>7. PICK h, left, id : Sets(t, p, h, left, id)
  BY <1>3
<1>8. ASSUME NEW n \in Installable, Served(n) PROVE Served(n)'
  <2>1. ~Registrar(t, n)
    BY <1>2 DEF Registrar
  <2>2. QED
    BY <1>2, <1>6, <1>7, <1>8, <2>1, OthersServe
<1>9. FramesServed'
  <2> SUFFICES ASSUME NEW n \in Installable', NEW i \in 1 .. Len(frames'), imported'[n] = "done",
                      Covers(frames'[i], n), outcome'[frames'[i].id] # "raised"
               PROVE  Served(n)' \/ \E u \in Thread : mine'[u] = frames'[i].id /\ WillReach(u, n)'
    BY DEF FramesServed
  <2>1. CASE i = Len(frames) + 1
    BY <1>3, <1>5, <2>1 DEF WillReach, Sets
  <2>2. CASE i \in 1 .. Len(frames)
    <3>1. Served(n) \/ \E u \in Thread : mine[u] = frames[i].id /\ WillReach(u, n)
      BY <1>2, <1>5, <1>6, <2>2 DEF ServedInv, FramesServed
    <3>2. ASSUME NEW u \in Thread, mine[u] = frames[i].id, WillReach(u, n)
          PROVE  mine'[u] = frames'[i].id /\ WillReach(u, n)'
      <4>1. mine[t] = 0 /\ frames[i].id # 0
        BY <1>1, <1>2, <1>5, <2>2 DEF ThreadOrder, Order
      <4>2. u \in Thread \ {t}
        BY <3>2, <4>1
      <4>3. QED
        BY <1>5, <1>6, <1>7, <2>2, <3>2, <4>2, OthersGoOn
    <3>3. QED
      BY <1>6, <1>8, <3>1, <3>2
  <2>3. QED
    BY <1>4, <1>5, <2>1, <2>2
<1>10. SettingServed'
  <2> SUFFICES ASSUME NEW n \in Installable', imported'[n] = "done", SettingWants(n)', ~uninstalled'
               PROVE  Served(n)'
    BY DEF SettingServed
  <2>1. SettingWants(n)
    BY <1>2 DEF SettingWants
  <2>2. Served(n)
    BY <1>2, <1>6, <2>1 DEF ServedInv, SettingServed
  <2>3. QED
    BY <1>6, <1>8, <2>2
<1>11. ImportServed'
  <2>1. \A u \in Thread : pc[u] # "loaded"
    BY <1>2 DEF Importing
  <2>2. \A u \in Thread : pc'[u] # "loaded"
    BY <1>3, <2>1 DEF Sets
  <2>3. QED
    BY <2>2 DEF ImportServed
<1>12. QED
  BY <1>9, <1>10, <1>11 DEF AllServed

(* A patch that returns has nothing left to see to; one that raises promised *)
(* nothing.                                                                  *)
LEMMA EndPatchServes ==
  ASSUME PatchingInv, ServedInv, NEW t \in Thread, NEW how \in {"returned", "raised"},
         EndPatch(t, how), pc[t] \in {"import", "ready"},
         how = "returned" => pc[t] = "ready" /\ todo[t] = {}
  PROVE  AllServed'
<1>1. TypeOK /\ ThreadOrder(t) /\ FramesTyped
  BY TypesSplit
<1>2. /\ Sets(t, "idle", at[t], {}, 0)
      /\ outcome' = [outcome EXCEPT ![mine[t]] = how]
      /\ UNCHANGED <<setting, registry, hooked, hooks, imported, installed, wraps, frames,
                     clients, uninstalled>>
  BY <1>1, EndPatchDoes
<1>3. mine[t] \in 1 .. Len(outcome) /\ outcome[mine[t]] = "running"
  BY <1>1 DEF PatchingInv, PatchOrder, TypeOK, ThreadOrder, Order
<1>4. \A p \in 1 .. Len(outcome) : outcome'[p] = IF p = mine[t] THEN how ELSE outcome[p]
  BY <1>1, <1>2, <1>3, ExceptSeq DEF FramesTyped
<1>5. /\ Installable' = Installable /\ \A n \in Installable : n \in Target
      /\ \A n \in Target : Asked(n)' <=> Asked(n)
  BY <1>2 DEF Installable, Registered, Asked, SettingWants
<1>6. PICK h \in Hands : Sets(t, "idle", h, {}, 0)
  BY <1>1, <1>2, HandsTyped
<1>7. ASSUME NEW n \in Installable, Served(n) PROVE Served(n)'
  <2>1. ~Registrar(t, n)
    BY DEF Registrar
  <2>2. QED
    BY <1>2, <1>5, <1>6, <1>7, <2>1, OthersServe
<1>8. FramesServed'
  <2> SUFFICES ASSUME NEW n \in Installable', NEW i \in 1 .. Len(frames'), imported'[n] = "done",
                      Covers(frames'[i], n), outcome'[frames'[i].id] # "raised"
               PROVE  Served(n)' \/ \E u \in Thread : mine'[u] = frames'[i].id /\ WillReach(u, n)'
    BY DEF FramesServed
  <2>1. i \in 1 .. Len(frames) /\ frames[i].id \in 1 .. Len(outcome)
    BY <1>2 DEF PatchingInv, PatchOrder
  <2>2. outcome[frames[i].id] # "raised"
    BY <1>2, <1>3, <1>4, <2>1
  <2>3. Served(n) \/ \E u \in Thread : mine[u] = frames[i].id /\ WillReach(u, n)
    BY <1>2, <1>5, <2>1, <2>2 DEF ServedInv, FramesServed
  <2>4. ASSUME NEW u \in Thread, mine[u] = frames[i].id, WillReach(u, n)
        PROVE  mine'[u] = frames'[i].id /\ WillReach(u, n)'
    <3>1. CASE u = t
      <4>1. how = "returned"
        BY <1>2, <1>4, <2>1, <2>4, <3>1
      <4>2. ~WillReach(t, n)
        BY <1>1, <4>1 DEF WillReach, InHand, ThreadOrder, Order
      <4>3. QED
        BY <2>4, <3>1, <4>2
    <3>2. CASE u # t
      BY <1>2, <1>5, <1>6, <2>4, <3>2, OthersGoOn
    <3>3. QED
      BY <3>1, <3>2
  <2>5. QED
    BY <1>5, <1>7, <2>3, <2>4
<1>9. SettingServed'
  <2> SUFFICES ASSUME NEW n \in Installable', imported'[n] = "done", SettingWants(n)', ~uninstalled'
               PROVE  Served(n)'
    BY DEF SettingServed
  <2>1. SettingWants(n)
    BY <1>2 DEF SettingWants
  <2>2. Served(n)
    BY <1>2, <1>5, <2>1 DEF ServedInv, SettingServed
  <2>3. QED
    BY <1>5, <1>7, <2>2
<1>10. ImportServed'
  <2> SUFFICES ASSUME NEW u \in Thread, NEW n \in Installable', pc'[u] = "loaded",
                      at'[u].name = n, Asked(n)'
               PROVE  Served(n)'
    BY DEF ImportServed
  <2>1. pc[u] = "loaded" /\ at[u].name = n
    BY <1>2 DEF Sets
  <2>2. Served(n)
    BY <1>5, <2>1 DEF ServedInv, ImportServed
  <2>3. QED
    BY <1>5, <1>7, <2>2
<1>11. QED
  BY <1>8, <1>9, <1>10 DEF AllServed

(* Frames that are gone asked for nothing more, and a client that is made    *)
(* asks for nothing.                                                         *)
LEMMA OthersServes ==
  ASSUME PatchingInv, ServedInv, OthersDo
  PROVE  AllServed'
<1>1. FramesTyped
  BY TypesSplit
<1>2. UNCHANGED <<setting, registry, hooked, hooks, imported, pc, todo, at, mine, outcome>>
  BY DEF OthersDo
<1>3. CASE frames' = << >> /\ uninstalled' = TRUE
  <2>1. \A i \in 1 .. Len(frames') : FALSE
    BY <1>3
  <2>2. \A n : ~Asked(n)'
    BY <1>3, <2>1 DEF Asked
  <2>3. QED
    BY <1>3, <2>1, <2>2 DEF AllServed, FramesServed, SettingServed, ImportServed
<1>4. CASE UNCHANGED <<installed, uninstalled>>
  <2>1. \A i \in 1 .. Len(frames') : frames'[i] = frames[i] /\ i \in 1 .. Len(frames)
    BY <1>1, OthersKeepFrames
  <2>2. /\ \A n : Served(n)' <=> Served(n)
        /\ \A n : SettingWants(n)' <=> SettingWants(n)
        /\ Installable' = Installable
        /\ \A u, n : WillReach(u, n)' <=> WillReach(u, n)
    BY <1>2, <1>4 DEF Served, OnItsWay, Registrar, SettingWants, Installable, Registered, WillReach,
       InHand
  <2>3. \A n : Asked(n)' => Asked(n)
    BY <1>4, <2>1, <2>2 DEF Asked
  <2>4. FramesServed'
    BY <1>2, <2>1, <2>2 DEF ServedInv, FramesServed
  <2>5. SettingServed'
    BY <1>2, <1>4, <2>2 DEF ServedInv, SettingServed
  <2>6. ImportServed'
    <3> SUFFICES ASSUME NEW u \in Thread, NEW n \in Installable', pc'[u] = "loaded",
                        at'[u].name = n, Asked(n)'
                 PROVE  Served(n)'
      BY DEF ImportServed
    <3>1. pc[u] = "loaded" /\ at[u].name = n /\ n \in Installable /\ Asked(n)
      BY <1>2, <2>2, <2>3
    <3>2. QED
      BY <2>2, <3>1 DEF ServedInv, ImportServed
  <2>7. QED
    BY <2>4, <2>5, <2>6 DEF AllServed
<1>5. QED
  BY <1>3, <1>4 DEF OthersDo

(* A registration whose hook is still to be added is its thread's.           *)
LEMMA HooksNext ==
  ASSUME PatchingInv, ServedInv, NEW t \in Thread, Step(t)
  PROVE  HooksFollow'
<1>1. TypeOK /\ ThreadOrder(t)
  BY TypesSplit
<1>2. ASSUME NEW place, NEW hand, NEW left, NEW patch, Sets(t, place, hand, left, patch),
             NEW n \in Target, n \in Registered \ hooked, pc[t] = "hook" => at[t].name # n
      PROVE  \E u \in Thread : pc'[u] = "hook" /\ at'[u].name = n /\ at'[u].next = "idle"
  <2>1. PICK u \in Thread : pc[u] = "hook" /\ at[u].name = n /\ at[u].next = "idle"
    BY <1>2 DEF ServedInv, HooksFollow
  <2>2. pc'[u] = pc[u] /\ at'[u] = at[u]
    BY <1>2, <2>1 DEF Sets
  <2>3. QED
    BY <2>1, <2>2
<1>3. ASSUME UNCHANGED <<registry, hooked>>, pc[t] # "hook",
             \E place, hand, left, patch : Sets(t, place, hand, left, patch)
      PROVE  HooksFollow'
  <2>1. Registered' = Registered /\ Registered \subseteq Target
    BY <1>3 DEF Registered
  <2>2. QED
    BY <1>2, <1>3, <2>1 DEF HooksFollow
<1>4. CASE Register(t)
  <2>1. PICK m \in Target :
          /\ registry' = [registry EXCEPT ![m] = @ + 1] /\ hooked' = hooked \ {m}
          /\ Sets(t, "hook", [name |-> m, next |-> "idle"], todo[t], mine[t])
    BY <1>1, <1>4, RegisterDoes
  <2>2. pc[t] = "idle"
    BY <1>1, <1>4, RegisterDoes
  <2>3. ASSUME NEW n \in Registered' \ hooked'
        PROVE  \E u \in Thread : pc'[u] = "hook" /\ at'[u].name = n /\ at'[u].next = "idle"
    <3>1. CASE n = m
      BY <2>1, <3>1 DEF Sets
    <3>2. CASE n # m
      <4>1. n \in Target /\ registry'[n] = registry[n] /\ registry'[n] > 0 /\ n \notin hooked
        BY <1>1, <2>1, <2>3, <3>2 DEF TypeOK, Registered
      <4>2. n \in Registered \ hooked
        BY <4>1 DEF Registered
      <4>3. QED
        BY <1>2, <2>1, <2>2, <4>1, <4>2
    <3>3. QED
      BY <3>1, <3>2
  <2>4. QED
    BY <2>3 DEF HooksFollow
<1>5. CASE Hook(t)
  <2>1. /\ pc[t] = "hook" /\ hooked' = hooked \cup {at[t].name} /\ registry' = registry
        /\ \E p, hand : Sets(t, p, hand, todo[t], mine[t])
    BY <1>1, <1>5, HookDoes
  <2>2. Registered' = Registered /\ Registered \subseteq Target
    BY <2>1 DEF Registered
  <2>3. ASSUME NEW n \in Registered' \ hooked'
        PROVE  \E u \in Thread : pc'[u] = "hook" /\ at'[u].name = n /\ at'[u].next = "idle"
    BY <1>2, <2>1, <2>2, <2>3
  <2>4. QED
    BY <2>3 DEF HooksFollow
<1>6. CASE CheckWanted(t)
  BY <1>1, <1>3, <1>6, CheckWantedDoes
<1>7. CASE Install(t)
  BY <1>1, <1>3, <1>7, InstallDoes
<1>8. CASE Import(t)
  BY <1>1, <1>3, <1>8, ImportDoes
<1>9. CASE ImportNamed(t)
  BY <1>1, <1>3, <1>9, ImportNamedDoes
<1>10. CASE Executed(t)
  BY <1>1, <1>3, <1>10, ExecutedDoes
<1>11. CASE Loaded(t)
  BY <1>1, <1>3, <1>11, LoadedDoes
<1>12. CASE BeginPatch(t)
  BY <1>1, <1>3, <1>12, BeginPatchDoes
<1>13. CASE ImportRaises(t)
  BY <1>1, <1>3, <1>13, EndPatchDoes DEF ImportRaises
<1>14. CASE InstallReady(t)
  BY <1>1, <1>3, <1>14, InstallReadyDoes
<1>15. CASE InstallReadyOne(t)
  BY <1>1, <1>3, <1>15, InstallReadyOneDoes
<1>16. CASE PatchReturns(t)
  BY <1>1, <1>3, <1>16, EndPatchDoes DEF PatchReturns
<1>17. CASE Add(t)
  BY <1>1, <1>3, <1>17, AddDoes
<1>18. CASE ListTargets(t)
  BY <1>1, <1>3, <1>18, ListTargetsDoes
<1>19. CASE HookEach(t)
  <2>1. pc[t] = "mark" /\ registry' = registry
    BY <1>1, <1>19, HookEachDoes
  <2>2. PICK m \in todo[t] : /\ hooked' = hooked \cup {m}
                             /\ \E p, hand : Sets(t, p, hand, todo[t] \ {m}, mine[t])
    BY <1>1, <1>19, HookEachDoes
  <2>3. Registered' = Registered /\ Registered \subseteq Target
    BY <2>1 DEF Registered
  <2>4. ASSUME NEW n \in Registered' \ hooked'
        PROVE  \E u \in Thread : pc'[u] = "hook" /\ at'[u].name = n /\ at'[u].next = "idle"
    BY <1>2, <2>1, <2>2, <2>3, <2>4
  <2>5. QED
    BY <2>4 DEF HooksFollow
<1>20. QED
  BY <1>4, <1>5, <1>6, <1>7, <1>8, <1>9, <1>10, <1>11, <1>12, <1>13, <1>14, <1>15, <1>16, <1>17,
     <1>18, <1>19 DEF Step

(* A mark whose hook is still to be added is its thread's.                   *)
LEMMA AddsNext ==
  ASSUME PatchingInv, ServedInv, NEW t \in Thread, Step(t)
  PROVE  AddsFollow'
<1>1. TypeOK
  BY TypesSplit
<1>2. ASSUME NEW place, NEW hand, NEW left, NEW patch, Sets(t, place, hand, left, patch),
             NEW n \in hooked \ hooks, pc[t] = "add" => at[t].name # n
      PROVE  \E u \in Thread : pc'[u] = "add" /\ at'[u].name = n
  <2>1. PICK u \in Thread : pc[u] = "add" /\ at[u].name = n
    BY <1>2 DEF ServedInv, AddsFollow
  <2>2. pc'[u] = pc[u] /\ at'[u] = at[u]
    BY <1>2, <2>1 DEF Sets
  <2>3. QED
    BY <2>1, <2>2
<1>3. ASSUME hooked' \subseteq hooked, hooks' = hooks, pc[t] # "add",
             \E place, hand, left, patch : Sets(t, place, hand, left, patch)
      PROVE  AddsFollow'
  BY <1>2, <1>3 DEF AddsFollow
<1>4. ASSUME NEW m, hooked' = hooked \cup {m}, hooks' = hooks, pc[t] # "add",
             NEW place, NEW hand, NEW left, NEW patch, Sets(t, place, hand, left, patch),
             m \notin hooked => place = "add" /\ hand.name = m
      PROVE  AddsFollow'
  <2>1. ASSUME NEW n \in hooked' \ hooks'
        PROVE  \E u \in Thread : pc'[u] = "add" /\ at'[u].name = n
    <3>1. CASE n \in hooked
      BY <1>2, <1>4, <2>1, <3>1
    <3>2. CASE n \notin hooked
      BY <1>4, <2>1, <3>2 DEF Sets
    <3>3. QED
      BY <3>1, <3>2
  <2>2. QED
    BY <2>1 DEF AddsFollow
<1>5. CASE Hook(t)
  <2>1. /\ pc[t] = "hook" /\ hooked' = hooked \cup {at[t].name} /\ hooks' = hooks
        /\ \E place, hand : /\ Sets(t, place, hand, todo[t], mine[t])
                            /\ at[t].name \notin hooked => place = "add" /\ hand.name = at[t].name
    BY <1>1, <1>5, HookDoes
  <2>2. QED
    BY <1>4, <2>1
<1>6. CASE HookEach(t)
  <2>1. pc[t] = "mark" /\ hooks' = hooks
    BY <1>1, <1>6, HookEachDoes
  <2>2. PICK m \in todo[t] :
          /\ hooked' = hooked \cup {m}
          /\ \/ m \in hooked /\ Sets(t, "mark", Nowhere, todo[t] \ {m}, mine[t])
             \/ /\ m \notin hooked
                /\ Sets(t, "add", [name |-> m, next |-> "mark"], todo[t] \ {m}, mine[t])
    BY <1>1, <1>6, HookEachDoes
  <2>3. [name |-> m, next |-> "mark"].name = m
    OBVIOUS
  <2>4. QED
    BY <1>4, <2>1, <2>2, <2>3
<1>7. CASE Add(t)
  <2>1. /\ pc[t] = "add" /\ hooks' = hooks \cup {at[t].name} /\ hooked' = hooked
        /\ \E place, hand : Sets(t, place, hand, todo[t], mine[t])
    BY <1>1, <1>7, AddDoes
  <2>2. ASSUME NEW n \in hooked' \ hooks'
        PROVE  \E u \in Thread : pc'[u] = "add" /\ at'[u].name = n
    BY <1>2, <2>1, <2>2
  <2>3. QED
    BY <2>2 DEF AddsFollow
<1>8. CASE Register(t)
  BY <1>1, <1>3, <1>8, RegisterDoes
<1>9. CASE CheckWanted(t)
  BY <1>1, <1>3, <1>9, CheckWantedDoes
<1>10. CASE Install(t)
  BY <1>1, <1>3, <1>10, InstallDoes
<1>11. CASE Import(t)
  BY <1>1, <1>3, <1>11, ImportDoes
<1>12. CASE ImportNamed(t)
  BY <1>1, <1>3, <1>12, ImportNamedDoes
<1>13. CASE Executed(t)
  BY <1>1, <1>3, <1>13, ExecutedDoes
<1>14. CASE Loaded(t)
  BY <1>1, <1>3, <1>14, LoadedDoes
<1>15. CASE BeginPatch(t)
  BY <1>1, <1>3, <1>15, BeginPatchDoes
<1>16. CASE ImportRaises(t)
  BY <1>1, <1>3, <1>16, EndPatchDoes DEF ImportRaises
<1>17. CASE InstallReady(t)
  BY <1>1, <1>3, <1>17, InstallReadyDoes
<1>18. CASE InstallReadyOne(t)
  BY <1>1, <1>3, <1>18, InstallReadyOneDoes
<1>19. CASE PatchReturns(t)
  BY <1>1, <1>3, <1>19, EndPatchDoes DEF PatchReturns
<1>20. CASE ListTargets(t)
  BY <1>1, <1>3, <1>20, ListTargetsDoes
<1>21. QED
  BY <1>5, <1>6, <1>7, <1>8, <1>9, <1>10, <1>11, <1>12, <1>13, <1>14, <1>15, <1>16, <1>17, <1>18,
     <1>19, <1>20 DEF Step

(* What follows what another thread's import waits for.                      *)
LEMMA AloneStays ==
  ASSUME ServedInv, NEW t \in Thread, NEW place, NEW hand, NEW left, NEW patch,
         Sets(t, place, hand, left, patch), patch \in {mine[t], 0},
         hand.next = "loaded" => hand = at[t], imported' = imported
  PROVE  ImportsAlone'
<1>1. \A u \in Thread : at'[u].next = "loaded" => at'[u] = at[u]
  BY DEF Sets
<1>2. \A u \in Thread : mine[u] = 0 => mine'[u] = 0
  BY DEF Sets
<1>3. QED
  BY <1>1, <1>2 DEF ServedInv, ImportsAlone

(* No import runs while another thread patches, by any step of a thread.     *)
LEMMA AloneNext ==
  ASSUME ImportsWait, PatchingInv, ServedInv, NEW t \in Thread, Step(t)
  PROVE  ImportsAlone'
<1>1. TypeOK /\ ThreadOrder(t) /\ \A u \in Thread : mine[u] # 0 => u \in Patching
  BY TypesSplit DEF Patching
<1>2. \A u \in Thread : at[u].next = "loaded" =>
           /\ imported[at[u].name] = "initializing"
           /\ \A v \in Thread \ {u} :
                  mine[v] = 0 /\ ~(at[v].next = "loaded" /\ at[v].name = at[u].name)
  BY DEF ServedInv, ImportsAlone
<1>3. /\ imported \in [Target -> {"no", "initializing", "done"}]
      /\ \A u \in Thread : at[u].name \in Target
  BY <1>1, HandsTyped DEF TypeOK
<1>4. /\ GoneOn(t).next = "loaded" => GoneOn(t) = at[t]
      /\ Nowhere.next = "idle"
  BY <1>1, HandsTyped DEF GoneOn
<1>5. ASSUME NEW m \in Target, imported[m] = "no", Patching \subseteq {t},
             imported' = [imported EXCEPT ![m] = "initializing"],
             NEW left, Sets(t, "execute", [name |-> m, next |-> "loaded"], left, mine[t]),
             mine[t] # 0 \/ Patching = {}
      PROVE  ImportsAlone'
  <2>1. \A v \in Thread \ {t} : mine[v] = 0 /\ mine'[v] = 0
    BY <1>1, <1>5 DEF Sets
  <2>2. at'[t].name = m /\ imported'[m] = "initializing"
    BY <1>3, <1>5 DEF Sets
  <2>3. ASSUME NEW v \in Thread \ {t}, at'[v].next = "loaded"
        PROVE  /\ at'[v].name # m /\ imported'[at'[v].name] = "initializing" /\ mine'[t] = 0
               /\ \A u \in Thread \ {v, t} : ~(at'[u].next = "loaded" /\ at'[u].name = at'[v].name)
    <3>1. at'[v] = at[v] /\ imported[at[v].name] = "initializing" /\ mine[t] = 0
      BY <1>2, <1>5, <2>3 DEF Sets
    <3>2. at[v].name # m
      BY <1>5, <3>1
    <3>3. imported'[at[v].name] = "initializing"
      BY <1>3, <1>5, <3>1, <3>2
    <3>4. \A u \in Thread \ {v, t} :
              at'[u] = at[u] /\ ~(at[u].next = "loaded" /\ at[u].name = at[v].name)
      BY <1>2, <1>5, <2>3, <3>1 DEF Sets
    <3>5. mine'[t] = 0
      BY <1>5, <3>1 DEF Sets
    <3>6. QED
      BY <3>1, <3>2, <3>3, <3>4, <3>5
  <2>4. ASSUME NEW u \in Thread, at'[u].next = "loaded"
        PROVE  /\ imported'[at'[u].name] = "initializing"
               /\ \A v \in Thread \ {u} :
                    mine'[v] = 0 /\ ~(at'[v].next = "loaded" /\ at'[v].name = at'[u].name)
    <3>1. CASE u = t
      BY <2>1, <2>2, <2>3, <3>1
    <3>2. CASE u # t
      BY <2>1, <2>2, <2>3, <2>4, <3>2
    <3>3. QED
      BY <3>1, <3>2
  <2>5. QED
    BY <1>2, <1>5, <2>4 DEF ImportsAlone
<1>6. CASE CheckWanted(t)
  BY <1>1, <1>2, <1>4, <1>6, CheckWantedDoes, AloneStays
<1>7. CASE Install(t)
  <2>1. imported' = imported /\ Sets(t, at[t].next, GoneOn(t), todo[t], mine[t])
    BY <1>1, <1>7, InstallDoes
  <2>2. QED
    BY <1>2, <1>4, <2>1, AloneStays
<1>8. CASE Import(t)
  <2>1. Patching = {}
    BY <1>1, <1>8, ImportDoes DEF ImportsWait
  <2>2. QED
    BY <1>1, <1>5, <1>8, <2>1, ImportDoes
<1>9. CASE ImportNamed(t)
  <2>1. pc[t] = "import"
    BY <1>1, <1>9, ImportNamedDoes
  <2>2. PICK m \in todo[t] :
          \/ /\ imported[m] = "no" /\ Patching = {t}
             /\ imported' = [imported EXCEPT ![m] = "initializing"]
             /\ Sets(t, "execute", [name |-> m, next |-> "loaded"], todo[t] \ {m}, mine[t])
          \/ /\ imported' = imported
             /\ Sets(t, "hook", [name |-> m, next |-> "import"], todo[t] \ {m}, mine[t])
    BY <1>1, <1>9, ImportNamedDoes DEF ImportsWait
  <2>3. m \in Target /\ mine[t] # 0
    BY <1>1, <2>1, HandsTyped DEF ThreadOrder, Order
  <2>4. CASE /\ imported' = imported
             /\ Sets(t, "hook", [name |-> m, next |-> "import"], todo[t] \ {m}, mine[t])
    <3>1. [name |-> m, next |-> "import"].next # "loaded"
      OBVIOUS
    <3>2. QED
      BY <2>4, <3>1, AloneStays
  <2>5. QED
    BY <1>5, <2>1, <2>2, <2>3, <2>4
<1>10. CASE Executed(t)
  BY <1>1, <1>2, <1>10, ExecutedDoes, AloneStays
<1>11. CASE Loaded(t)
  <2>1. /\ pc[t] = "loaded" /\ imported' = [imported EXCEPT ![at[t].name] = "done"]
        /\ \E p, hand : Sets(t, p, hand, todo[t], mine[t]) /\ hand.next # "loaded"
    <3>1. Nowhere.next # "loaded" /\ [name |-> at[t].name, next |-> "import"].next # "loaded"
      BY <1>4
    <3>2. QED
      BY <1>1, <1>11, <3>1, LoadedDoes
  <2>2. at[t].next = "loaded"
    BY <1>1, <2>1 DEF ThreadOrder, Order
  <2>3. /\ at'[t].next # "loaded" /\ \A u \in Thread \ {t} : at'[u] = at[u]
        /\ \A u \in Thread : mine'[u] = mine[u]
    BY <1>4, <2>1 DEF Sets
  <2>4. ASSUME NEW u \in Thread, at'[u].next = "loaded"
        PROVE  imported'[at'[u].name] = "initializing" /\ u # t
    <3>1. u # t /\ at'[u] = at[u] /\ at[u].name # at[t].name
      BY <1>2, <2>2, <2>3, <2>4
    <3>2. imported'[at[u].name] = imported[at[u].name]
      BY <1>3, <2>1, <3>1
    <3>3. QED
      BY <1>2, <2>4, <3>1, <3>2
  <2>5. QED
    BY <1>2, <2>1, <2>3, <2>4 DEF ImportsAlone
<1>12. CASE BeginPatch(t)
  <2>1. Importing = {} /\ at' = at
    BY <1>1, <1>12, BeginPatchDoes DEF ImportsWait, BeginPatch
  <2>2. \A u \in Thread : at'[u].next # "loaded"
    BY <2>1 DEF Importing
  <2>3. QED
    BY <1>2, <2>1, <2>2 DEF ImportsAlone
<1>13. CASE ImportRaises(t)
  BY <1>1, <1>2, <1>13, EndPatchDoes, AloneStays DEF ImportRaises
<1>14. CASE InstallReady(t)
  BY <1>1, <1>2, <1>14, InstallReadyDoes, AloneStays
<1>15. CASE InstallReadyOne(t)
  <2>1. /\ imported' = imported
        /\ \E m \in todo[t] : \/ Sets(t, "wanted", [name |-> m, next |-> "ready"], todo[t] \ {m}, mine[t])
                              \/ Sets(t, "ready", at[t], todo[t] \ {m}, mine[t])
    BY <1>1, <1>15, InstallReadyOneDoes
  <2>2. \A m : [name |-> m, next |-> "ready"].next # "loaded"
    OBVIOUS
  <2>3. QED
    BY <1>2, <2>1, <2>2, AloneStays
<1>16. CASE PatchReturns(t)
  BY <1>1, <1>2, <1>16, EndPatchDoes, AloneStays DEF PatchReturns
<1>17. CASE Register(t)
  <2>1. PICK m \in Target :
          imported' = imported /\ Sets(t, "hook", [name |-> m, next |-> "idle"], todo[t], mine[t])
    BY <1>1, <1>17, RegisterDoes
  <2>2. [name |-> m, next |-> "idle"].next # "loaded"
    OBVIOUS
  <2>3. QED
    BY <2>1, <2>2, AloneStays
<1>18. CASE Hook(t)
  <2>1. /\ imported' = imported
        /\ \/ Sets(t, at[t].next, Nowhere, todo[t], mine[t])
           \/ Sets(t, "add", at[t], todo[t], mine[t])
    BY <1>1, <1>18, HookDoes
  <2>2. CASE Sets(t, at[t].next, Nowhere, todo[t], mine[t])
    BY <1>4, <2>1, <2>2, AloneStays
  <2>3. CASE Sets(t, "add", at[t], todo[t], mine[t])
    BY <2>1, <2>3, AloneStays
  <2>4. QED
    BY <2>1, <2>2, <2>3
<1>19. CASE Add(t)
  <2>1. /\ imported' = imported
        /\ \/ Sets(t, at[t].next, GoneOn(t), todo[t], mine[t])
           \/ Sets(t, "wanted", at[t], todo[t], mine[t])
    BY <1>1, <1>19, AddDoes
  <2>2. CASE Sets(t, at[t].next, GoneOn(t), todo[t], mine[t])
    BY <1>4, <2>1, <2>2, AloneStays
  <2>3. CASE Sets(t, "wanted", at[t], todo[t], mine[t])
    BY <2>1, <2>3, AloneStays
  <2>4. QED
    BY <2>1, <2>2, <2>3
<1>20. CASE ListTargets(t)
  BY <1>1, <1>20, ListTargetsDoes, AloneStays
<1>21. CASE HookEach(t)
  <2>1. /\ imported' = imported
        /\ \E m \in todo[t] :
             \/ Sets(t, "mark", Nowhere, todo[t] \ {m}, mine[t])
             \/ Sets(t, "add", [name |-> m, next |-> "mark"], todo[t] \ {m}, mine[t])
    BY <1>1, <1>21, HookEachDoes
  <2>2. Nowhere.next # "loaded" /\ \A m : [name |-> m, next |-> "mark"].next # "loaded"
    BY <1>4
  <2>3. QED
    BY <2>1, <2>2, AloneStays
<1>22. QED
  BY <1>6, <1>7, <1>8, <1>9, <1>10, <1>11, <1>12, <1>13, <1>14, <1>15, <1>16, <1>17, <1>18, <1>19,
     <1>20, <1>21 DEF Step

(* An install changes its client.                                            *)
LEMMA WrappedNext ==
  ASSUME PatchingInv, InstalledWrapped, NEW t \in Thread, Step(t)
  PROVE  InstalledWrapped'
<1>1. TypeOK /\ RestTyped
  BY TypesSplit
<1>2. CASE UNCHANGED <<wraps, installed>>
  BY <1>2 DEF InstalledWrapped
<1>3. CASE /\ at[t].name \in Registered
           /\ wraps' = [wraps EXCEPT ![at[t].name][registry[at[t].name]] = @ + 1]
           /\ installed' = installed \cup {at[t].name}
  <2> DEFINE n == at[t].name
             v == registry[n]
  <2>1. n \in Target /\ v \in Versions
    BY <1>1, <1>3, PatchingAssumption DEF RestTyped, Registered, Versions
  <2>2. wraps \in [Target -> [Versions -> Nat]] /\ installed \subseteq Target
    BY <1>1 DEF RestTyped
  <2>3. wraps' = [wraps EXCEPT ![n] = [wraps[n] EXCEPT ![v] = wraps[n][v] + 1]]
    BY <1>3
  <2>4. installed' = installed \cup {n}
    BY <1>3
  <2> HIDE DEF n, v
  <2>5. wraps'[n][v] = wraps[n][v] + 1 /\ wraps[n][v] \in Nat
    BY <2>1, <2>2, <2>3
  <2>6. wraps'[n] # Untouched
    <3>1. Untouched[v] = 0 /\ wraps'[n][v] # 0
      BY <2>1, <2>5 DEF Untouched
    <3>2. QED
      BY <3>1
  <2>7. \A m \in installed : m # n => wraps'[m] = wraps[m]
    BY <2>2, <2>3
  <2>8. QED
    BY <2>4, <2>6, <2>7 DEF InstalledWrapped
<1>4. CASE Install(t)
  BY <1>1, <1>2, <1>3, <1>4, InstallDoes
<1>5. CASE ~Install(t)
  BY <1>2, <1>5, StepLeavesClients
<1>6. QED
  BY <1>4, <1>5

(* No step of a thread makes a client.                                       *)
LEMMA StepMakesNone ==
  ASSUME NEW t \in Thread, Step(t)
  PROVE  clients' = clients
BY DEF Step, CheckWanted, Install, Import, ImportNamed, Executed, Loaded, ImportRaises, BeginPatch,
   EndPatch, InstallReady, InstallReadyOne, PatchReturns, Register, Hook, Add, ListTargets,
   HookEach, history

(* What is promised is installed.                                            *)
LEMMA PromisedIsInstalled ==
  ASSUME PatchingInv, ServedInv, NEW n \in Target, imported[n] = "done", Promised(n),
         ~Marked(n)
  PROVE  Via(n) # "own"
<1>1. n \in Installable
  BY DEF Promised, Installable
<1>2. ~OnItsWay(n)
  <2> SUFFICES ASSUME NEW u \in Thread, Registrar(u, n) PROVE FALSE
    BY DEF OnItsWay
  <2>1. at[u] \in Hands /\ at[u].name = n /\ at[u].next = "idle" /\ pc[u] # "idle"
    BY TypesSplit, HandsTyped DEF Registrar, Marked
  <2>2. at[u] = [name |-> n, next |-> "idle"]
    BY <2>1 DEF Hands
  <2>3. Registering(n)
    BY <2>1, <2>2 DEF Registering
  <2>4. QED
    BY <2>3 DEF Promised
<1>3. Served(n)
  <2>1. CASE SettingWants(n) /\ ~uninstalled
    BY <1>1, <2>1 DEF ServedInv, SettingServed
  <2>2. ASSUME NEW i \in 1 .. Len(frames), Covers(frames[i], n), outcome[frames[i].id] = "returned"
        PROVE  Served(n)
    <3>1. \A u \in Thread : mine[u] # frames[i].id
      BY <2>2 DEF PatchingInv, PatchOrder
    <3>2. QED
      BY <1>1, <2>2, <3>1 DEF ServedInv, FramesServed
  <2>3. QED
    BY <2>1, <2>2 DEF Promised
<1>4. wraps[n] # Untouched
  BY <1>2, <1>3 DEF Served, ServedInv, InstalledWrapped
<1>5. QED
  BY <1>4 DEF Via, Promised

(* The steps that are not a thread's own keep it.                            *)
LEMMA OthersServed ==
  ASSUME PatchingInv, ServedInv, OthersDo
  PROVE  ServedInv'
<1>1. AllServed'
  BY OthersServes
<1>2. ImportsAlone' /\ HooksFollow' /\ AddsFollow'
  BY DEF ServedInv, ImportsAlone, HooksFollow, AddsFollow, OthersDo, Registered
<1>3. InstalledWrapped'
  <2>1. CASE installed' = {}
    BY <2>1 DEF InstalledWrapped
  <2>2. CASE UNCHANGED <<installed, wraps>>
    BY <2>2 DEF ServedInv, InstalledWrapped
  <2>3. QED
    BY <2>1, <2>2 DEF OthersDo
<1>4. PromisesKept'
  <2>1. CASE clients' = clients
    BY <2>1 DEF ServedInv, PromisesKept
  <2>2. ASSUME NEW n \in Target, imported[n] = "done",
               clients' = Append(clients, MadeNow(n))
        PROVE  PromisesKept'
    <3>1. clients \in Seq(Client)
      BY TypesSplit DEF RestTyped
    <3> DEFINE c == MadeNow(n)
    <3>2. c.promised /\ ~c.marked => c.via # "own"
      BY <2>2, PromisedIsInstalled DEF MadeNow
    <3> HIDE DEF c
    <3>3. clients' = Append(clients, c)
      BY <2>2 DEF c
    <3>4. \A i \in 1 .. Len(clients') :
             clients'[i] = c \/ (i \in 1 .. Len(clients) /\ clients'[i] = clients[i])
      BY <3>1, <3>3
    <3>5. QED
      BY <3>2, <3>4 DEF ServedInv, PromisesKept
  <2>3. QED
    BY <2>1, <2>2 DEF OthersDo
<1>5. QED
  BY <1>1, <1>2, <1>3, <1>4 DEF ServedInv, AllServed

(* Every step does.                                                          *)
LEMMA ServedNext ==
  ASSUME ImportsWait, PatchingInv, ServedInv, [Next]_vars
  PROVE  ServedInv'
<1>1. ASSUME NEW t \in Thread, Step(t) PROVE ServedInv'
  <2>1. AllServed'
    <3>1. CASE ImportRaises(t)
      BY <3>1, EndPatchServes DEF ImportRaises
    <3>2. CASE PatchReturns(t)
      BY <3>2, EndPatchServes DEF PatchReturns
    <3>3. QED
      BY <1>1, <3>1, <3>2, ImportsWait, CheckWantedServes, InstallServes, ImportServes,
         ImportNamedServes, ExecutedServes, LoadedServes, InstallReadyServes,
         InstallReadyOneServes, RegisterServes, HookServes, AddServes, ListTargetsServes,
         HookEachServes, BeginPatchServes DEF Step
  <2>2. ImportsAlone' /\ HooksFollow' /\ AddsFollow'
    BY <1>1, ImportsWait, AloneNext, HooksNext, AddsNext
  <2>3. InstalledWrapped'
    BY <1>1, WrappedNext DEF ServedInv
  <2>4. PromisesKept'
    BY <1>1, StepMakesNone DEF ServedInv, PromisesKept
  <2>5. QED
    BY <2>1, <2>2, <2>3, <2>4 DEF ServedInv, AllServed
<1>2. CASE Undo \/ Unpatch \/ Uninstall \/ MakeClient
  BY <1>2, OthersDoThese, OthersServed
<1>3. CASE UNCHANGED vars
  <2>1. /\ \A n : Served(n)' <=> Served(n)
        /\ \A n : SettingWants(n)' <=> SettingWants(n)
        /\ \A n : Asked(n)' <=> Asked(n)
        /\ \A u, n : WillReach(u, n)' <=> WillReach(u, n)
        /\ Installable' = Installable /\ Registered' = Registered
    BY <1>3 DEF vars, Served, OnItsWay, Registrar, SettingWants, Asked, WillReach, InHand,
       Installable, Registered
  <2>2. ImportServed'
    BY <1>3, <2>1 DEF vars, ServedInv, ImportServed, Asked, SettingWants, Served, OnItsWay, Registrar
  <2>3. FramesServed' /\ SettingServed'
    BY <1>3, <2>1 DEF vars, ServedInv, FramesServed, SettingServed
  <2>4. ImportsAlone' /\ HooksFollow' /\ AddsFollow' /\ InstalledWrapped' /\ PromisesKept'
    BY <1>3, <2>1 DEF vars, ServedInv, ImportsAlone, HooksFollow, AddsFollow, InstalledWrapped,
       PromisesKept
  <2>5. QED
    BY <2>2, <2>3, <2>4 DEF ServedInv
<1>4. QED
  BY <1>1, <1>2, <1>3 DEF Next

(* At first every registered client has its hook, and none is imported.      *)
LEMMA ServedInit == Init => ServedInv
<1> SUFFICES ASSUME Init PROVE ServedInv
  OBVIOUS
<1>1. Len(frames) = 0 /\ Len(clients) = 0
  BY DEF Init
<1>2. \A t \in Thread : pc[t] = "idle" /\ at[t].next = "idle"
  BY DEF Init, Nowhere
<1>3. \A n \in Target : imported[n] = "no"
  BY DEF Init
<1>4. Registered \subseteq hooked /\ Registered \subseteq Target
  BY DEF Init, Registered
<1>5. hooked \subseteq hooks /\ installed = {}
  BY DEF Init
<1>6. QED
  BY <1>1, <1>2, <1>3, <1>4, <1>5 DEF ServedInv, ImportsAlone, HooksFollow, AddsFollow,
     FramesServed, SettingServed, ImportServed, InstalledWrapped, PromisesKept, Installable

(* A client made while a patch() that returned covers it, or while the       *)
(* settings have it installed, goes through the newest map with an opinion   *)
(* for as long as it lives, wherever its import, the patch and the           *)
(* registration ran (patching.py:9-11, 285-288), so long as no import runs   *)
(* while another thread patches; but for one made while a patch() has put    *)
(* its target in _hooked and not installed it (patching.py:241-245).         *)
THEOREM CoveredFollow ==
  ASSUME ImportsWait
  PROVE  Spec => []CoveredClientsFollow
<1>1. PatchingInv /\ ServedInv /\ [Next]_vars => ServedInv'
  BY ImportsWait, ServedNext
<1>2. ServedInv => CoveredClientsFollow
  BY DEF ServedInv, PromisesKept, CoveredClientsFollow, Follows, Route
<1>3. QED
  BY <1>1, <1>2, ServedInit, PatchingInit, PatchingNext, PTL DEF Spec
=============================================================================
