--------------------------- MODULE ResolversProofs ---------------------------
(***************************************************************************)
(* What is proved of the maps that own something, for every set of threads *)
(* and handles, every reply of the system and every deadline.              *)
(***************************************************************************)
EXTENDS Resolvers, DesktopSettings, WellFoundedInduction, TLAPS, SequenceTheorems, FiniteSetTheorems

USE MacAssumption, ResolversAssumption

-----------------------------------------------------------------------------
(* A set of naturals that has 0 and every successor has them all: induction   *)
(* by the least counterexample.                                              *)
LEMMA Induction ==
    ASSUME NEW T \in SUBSET Nat, 0 \in T, \A n \in T : n + 1 \in T
    PROVE  T = Nat
<1> SUFFICES ASSUME Nat \ T # {} PROVE FALSE
  OBVIOUS
<1>1. \E n \in Nat \ T : \A m \in Nat \ T : <<m, n>> \notin OpToRel(<, Nat)
  BY NatLessThanWellFounded, WFMin
<1>2. PICK n \in Nat \ T : \A m \in Nat \ T : ~ (m < n)
  BY <1>1 DEF OpToRel
<1>3. n - 1 \in T
  BY <1>2
<1>4. QED
  BY <1>2, <1>3

(* What one entry adds to what CFNetwork said before it. *)
SaidStep(r, m, f, n) ==
  IF n = 0 THEN <<>>
  ELSE f[n - 1] \o IF r[n] = "pac" THEN PacEntries(m[Runs(r, n)]) ELSE Usable(<<r[n]>>)

(* The recursive definition of what was said is the recursion it is written  *)
(* as.                                                                       *)
LEMMA SaidUnfolds ==
  ASSUME NEW r \in Seq(STRING), NEW m
  PROVE  SaidOf(r, m) = [n \in 0 .. Len(r) |-> SaidStep(r, m, SaidOf(r, m), n)]
<1> DEFINE Upto(f, n) == f = [i \in 0 .. n |-> SaidStep(r, m, f, i)]
           T == {n \in Nat : \E f : Upto(f, n)}
<1>1. \E f : Upto(f, 0)
  <2> DEFINE f == [i \in 0 .. 0 |-> SaidStep(r, m, <<>>, i)]
  <2>1. \A i \in 0 .. 0 : SaidStep(r, m, <<>>, i) = SaidStep(r, m, f, i)
    BY DEF SaidStep
  <2>2. Upto(f, 0)
    BY <2>1
  <2>3. QED
    BY <2>2
<1>2. ASSUME NEW n \in Nat, NEW f, Upto(f, n) PROVE \E g : Upto(g, n + 1)
  <2> DEFINE g == [i \in 0 .. n + 1 |-> SaidStep(r, m, f, i)]
  <2>1. \A i \in 0 .. n : g[i] = f[i]
    BY <1>2
  <2>2. \A i \in 0 .. n + 1 : SaidStep(r, m, f, i) = SaidStep(r, m, g, i)
    <3> TAKE i \in 0 .. n + 1
    <3>1. CASE i = 0
      BY <3>1 DEF SaidStep
    <3>2. CASE i # 0
      <4>1. i - 1 \in 0 .. n
        BY <3>2
      <4>2. g[i - 1] = f[i - 1]
        BY <2>1, <4>1
      <4> HIDE DEF g
      <4>3. QED
        BY <4>2, <3>2 DEF SaidStep
    <3>3. QED
      BY <3>1, <3>2
  <2>3. Upto(g, n + 1)
    BY <2>2
  <2>4. QED
    BY <2>3
<1>3. T = Nat
  <2>1. 0 \in T
    BY <1>1
  <2>2. \A n \in T : n + 1 \in T
    BY <1>2
  <2> HIDE DEF T
  <2>3. T \in SUBSET Nat
    BY DEF T
  <2>4. QED
    BY <2>1, <2>2, <2>3, Induction
<1>4. Len(r) \in T
  BY <1>3, LenProperties
<1>5. PICK g : Upto(g, Len(r))
  BY <1>4
<1>6. SaidOf(r, m) = CHOOSE f : Upto(f, Len(r))
  BY DEF SaidOf, SaidStep
<1>7. QED
  BY <1>5, <1>6

(* The two cases of the recursion. *)
LEMMA SaidCases ==
  ASSUME NEW r \in Seq(STRING), NEW m
  PROVE  /\ SaidOf(r, m)[0] = <<>>
         /\ \A n \in 1 .. Len(r) :
              SaidOf(r, m)[n] = SaidOf(r, m)[n - 1]
                \o IF r[n] = "pac" THEN PacEntries(m[Runs(r, n)]) ELSE Usable(<<r[n]>>)
<1>1. Len(r) \in Nat
  BY LenProperties
<1>2. \A n \in 0 .. Len(r) : SaidOf(r, m)[n] = SaidStep(r, m, SaidOf(r, m), n)
  BY SaidUnfolds
<1>3. SaidOf(r, m)[0] = SaidStep(r, m, SaidOf(r, m), 0)
  BY <1>1, <1>2
<1>4. ASSUME NEW n \in 1 .. Len(r)
      PROVE  n \in 0 .. Len(r) /\ n # 0
  OBVIOUS
<1>5. QED
  BY <1>2, <1>3, <1>4, Zenon DEF SaidStep

(* The runs among the first entries: none before the first, one more at a    *)
(* PAC and no fewer further on.                                              *)
LEMMA RunsCount ==
  ASSUME NEW r
  PROVE  /\ Runs(r, 0) = 0
         /\ \A n \in Nat : /\ Runs(r, n) \in Nat
                           /\ Runs(r, n + 1) = Runs(r, n) + (IF r[n + 1] = "pac" THEN 1 ELSE 0)
<1> DEFINE S(n) == {k \in 1 .. n : r[k] = "pac"}
<1>1. S(0) = {}
  OBVIOUS
<1>2. ASSUME NEW n \in Nat PROVE IsFiniteSet(S(n)) /\ Cardinality(S(n)) \in Nat
  <2>1. IsFiniteSet(1 .. n)
    BY FS_Interval
  <2>2. IsFiniteSet(S(n))
    BY <2>1, FS_Subset
  <2>3. QED
    BY <2>2, FS_CardinalityType
<1>3. ASSUME NEW n \in Nat
      PROVE  Cardinality(S(n + 1)) = Cardinality(S(n)) + (IF r[n + 1] = "pac" THEN 1 ELSE 0)
  <2>1. S(n + 1) = IF r[n + 1] = "pac" THEN S(n) \cup {n + 1} ELSE S(n)
    OBVIOUS
  <2>2. n + 1 \notin S(n)
    OBVIOUS
  <2>3. IsFiniteSet(S(n)) /\ Cardinality(S(n)) \in Nat
    BY <1>2
  <2> HIDE DEF S
  <2>4. CASE r[n + 1] = "pac"
    BY <2>1, <2>2, <2>3, <2>4, FS_AddElement
  <2>5. CASE r[n + 1] # "pac"
    BY <2>1, <2>3, <2>5
  <2>6. QED
    BY <2>4, <2>5
<1>4. Runs(r, 0) = 0
  BY <1>1, FS_EmptySet DEF Runs
<1>5. QED
  BY <1>2, <1>3, <1>4 DEF Runs

(* What was said up to an entry depends only on the runs up to it: a further *)
(* run of a PAC changes nothing of it.                                       *)
LEMMA SaidAgrees ==
  ASSUME NEW r \in Seq(STRING), NEW m, NEW m2, NEW p \in 0 .. Len(r),
         \A k \in 1 .. Runs(r, p) : m[k] = m2[k]
  PROVE  SaidOf(r, m)[p] = SaidOf(r, m2)[p]
<1> DEFINE T == {n \in Nat : n <= p /\ (\A k \in 1 .. Runs(r, n) : m[k] = m2[k])
                               => SaidOf(r, m)[n] = SaidOf(r, m2)[n]}
<1>1. 0 \in T
  BY SaidCases
<1>2. ASSUME NEW n \in T PROVE n + 1 \in T
  <2> SUFFICES ASSUME n + 1 <= p, \A k \in 1 .. Runs(r, n + 1) : m[k] = m2[k]
               PROVE  SaidOf(r, m)[n + 1] = SaidOf(r, m2)[n + 1]
    OBVIOUS
  <2>1. n \in Nat /\ n + 1 \in 1 .. Len(r) /\ (n + 1) - 1 = n /\ n <= p
    BY LenProperties
  <2>2. /\ Runs(r, n) \in Nat
        /\ Runs(r, n + 1) = Runs(r, n) + (IF r[n + 1] = "pac" THEN 1 ELSE 0)
    BY <2>1, RunsCount
  <2>3. SaidOf(r, m)[n] = SaidOf(r, m2)[n]
    BY <2>1, <2>2
  <2>4. r[n + 1] = "pac" => m[Runs(r, n + 1)] = m2[Runs(r, n + 1)]
    BY <2>2
  <2>5. /\ SaidOf(r, m)[n + 1] = SaidOf(r, m)[n]
             \o IF r[n + 1] = "pac" THEN PacEntries(m[Runs(r, n + 1)]) ELSE Usable(<<r[n + 1]>>)
        /\ SaidOf(r, m2)[n + 1] = SaidOf(r, m2)[n]
             \o IF r[n + 1] = "pac" THEN PacEntries(m2[Runs(r, n + 1)]) ELSE Usable(<<r[n + 1]>>)
    <3> DEFINE j == n + 1
    <3>1. j \in 1 .. Len(r) /\ j - 1 = n
      BY <2>1
    <3> HIDE DEF j
    <3>2. /\ SaidOf(r, m)[j] = SaidOf(r, m)[j - 1]
               \o IF r[j] = "pac" THEN PacEntries(m[Runs(r, j)]) ELSE Usable(<<r[j]>>)
          /\ SaidOf(r, m2)[j] = SaidOf(r, m2)[j - 1]
               \o IF r[j] = "pac" THEN PacEntries(m2[Runs(r, j)]) ELSE Usable(<<r[j]>>)
      BY <3>1, SaidCases, Zenon
    <3>3. QED
      BY <3>1, <3>2, Zenon DEF j
  <2>6. QED
    BY <2>3, <2>4, <2>5
<1>3. T = Nat
  <2> HIDE DEF T
  <2>1. T \in SUBSET Nat
    BY DEF T
  <2>2. QED
    BY <1>1, <1>2, <2>1, Induction
<1>4. p \in T
  BY <1>3, LenProperties
<1>5. QED
  BY <1>4

-----------------------------------------------------------------------------
(* Where a lookup stands, from what it owns: an object from its creation to  *)
(* the release that goes with it, an answered PAC's list from its callback.  *)
Answered == callback.done /\ callback.list # Failed

Holds(o) ==
  \/ o = "url" /\ mpc \in {"settings", "proxies", "entries", "execute", "loop", "array"}
  \/ o = "settings" /\ mpc \in {"proxies", "entries", "execute", "loop", "array"}
  \/ o = "proxies" /\ mpc \in {"entries", "execute", "loop", "array"}
  \/ o = "pacUrl" /\ mpc \in {"execute", "loop"}
  \/ o = "source" /\ mpc = "loop"
  \/ o = "array" /\ mpc \in {"loop", "array"} /\ Answered

OwnsWhatItHolds == owned = [o \in Objects |-> IF Holds(o) THEN 1 ELSE 0]

Lists == PacReplies \cup {Failed}

MacType ==
  /\ mpc \in {"idle", "settings", "proxies", "entries", "execute", "loop", "array", "returned"}
  /\ reply \in Seq(STRING) /\ macSaid \in Seq(Lists)
  /\ callback \in [done : BOOLEAN, list : Lists]
  /\ mpc \notin {"loop", "array", "returned"} => ~callback.done
  /\ mpc = "array" => Answered

(* Before the loop nothing was said; in it, the results are all that was     *)
(* said up to the entry it is at, none of it a failure.                      *)
InLoop ==
  /\ place \in 1 .. Len(reply) + 1
  /\ mpc # "entries" => place <= Len(reply) /\ reply[place] = "pac"
  /\ \A k \in 1 .. place - 1 : reply[k] # "badPac"
  /\ results = SaidOf(reply, macSaid)[place - 1]
  /\ Len(macSaid) = Runs(reply, place - 1) + (IF callback.done THEN 1 ELSE 0)
  /\ \A k \in 1 .. Runs(reply, place - 1) : macSaid[k] # Failed
  /\ callback.done => macSaid[Len(macSaid)] = callback.list

SaysAll ==
  /\ mpc \in {"idle", "settings", "proxies"} =>
       reply = <<>> /\ place = 1 /\ results = <<>> /\ macSaid = <<>>
  /\ mpc \in {"entries", "execute", "loop", "array"} => InLoop
  /\ WholeOrNoOpinion

MacInv == MacType /\ OwnsWhatItHolds /\ SaysAll

(* The objects a lookup releases on a way out are those it holds there. *)
LEMMA ReleasesWhatItHolds ==
  ASSUME OwnsWhatItHolds, NEW objects \in SUBSET Objects, NEW answer,
         Leave(objects, answer), \A o \in Objects : Holds(o) <=> o \in objects
  PROVE  OwnsWhatItHolds' /\ mpc' = "returned"
<1>1. owned' = [o \in Objects |-> 0]
  BY DEF OwnsWhatItHolds, Leave, Without
<1>2. mpc' = "returned"
  BY DEF Leave
<1>3. \A o \in Objects : ~Holds(o)'
  BY <1>2 DEF Objects, Holds
<1>4. QED
  BY <1>1, <1>2, <1>3 DEF OwnsWhatItHolds

(* A lookup may end without an opinion wherever it releases what it holds.   *)
LEMMA LeavesWithoutOpinion ==
  ASSUME MacInv, NEW objects \in SUBSET Objects, Leave(objects, NoOpinion),
         \A o \in Objects : Holds(o) <=> o \in objects
  PROVE  MacInv'
<1>1. OwnsWhatItHolds' /\ mpc' = "returned"
  BY ReleasesWhatItHolds DEF MacInv
<1>2. MacType'
  BY <1>1 DEF MacInv, MacType, Leave, Lists, Answered
<1>3. SaysAll'
  BY <1>1 DEF SaysAll, WholeOrNoOpinion, Leave
<1>4. QED
  BY <1>1, <1>2, <1>3 DEF MacInv

(* An object that is made is held from then on. *)
LEMMA HoldsWhatItMakes ==
  ASSUME OwnsWhatItHolds, NEW o \in Objects, ~Holds(o), owned' = With(o), Holds(o)',
         \A p \in Objects \ {o} : Holds(p)' <=> Holds(p)
  PROVE  OwnsWhatItHolds'
<1>1. owned' = [p \in Objects |-> IF p = o THEN 1 ELSE IF Holds(p) THEN 1 ELSE 0]
  BY DEF OwnsWhatItHolds, With
<1>2. \A p \in Objects : (IF p = o THEN 1 ELSE IF Holds(p) THEN 1 ELSE 0)
                           = IF Holds(p)' THEN 1 ELSE 0
  OBVIOUS
<1>3. QED
  BY <1>1, <1>2, Zenon DEF OwnsWhatItHolds

(* Objects that are released are held no longer. *)
LEMMA HoldsNotWhatItFrees ==
  ASSUME OwnsWhatItHolds, NEW objects \in SUBSET Objects, owned' = Without(objects),
         \A o \in objects : Holds(o) /\ ~Holds(o)',
         \A o \in Objects \ objects : Holds(o)' <=> Holds(o)
  PROVE  OwnsWhatItHolds'
<1>1. owned' = [o \in Objects |-> IF o \in objects THEN 0 ELSE IF Holds(o) THEN 1 ELSE 0]
  BY DEF OwnsWhatItHolds, Without
<1>2. \A o \in Objects : (IF o \in objects THEN 0 ELSE IF Holds(o) THEN 1 ELSE 0)
                           = IF Holds(o)' THEN 1 ELSE 0
  OBVIOUS
<1>3. QED
  BY <1>1, <1>2, Zenon DEF OwnsWhatItHolds

(* The steps up to the loop over the entries. *)
LEMMA MacBegins ==
  ASSUME MacInv, MacStart \/ CopySettings \/ CopyProxies
  PROVE  MacInv'
<1> USE DEF Objects
<1>1. CASE MacStart
  <2>1. CASE Leave({}, NoOpinion)
    BY <1>1, <2>1, LeavesWithoutOpinion DEF MacStart, Holds
  <2>2. CASE /\ mpc' = "settings" /\ owned' = With("url")
             /\ UNCHANGED <<reply, place, results, waited, callback, macSaid, macResult>>
    <3>1. OwnsWhatItHolds'
      BY <1>1, <2>2, HoldsWhatItMakes DEF MacStart, Holds, MacInv, Answered
    <3>2. MacType' /\ SaysAll'
      BY <1>1, <2>2 DEF MacStart, MacInv, MacType, SaysAll, WholeOrNoOpinion, Answered, Lists
    <3>3. QED
      BY <3>1, <3>2 DEF MacInv
  <2>3. QED
    BY <1>1, <2>1, <2>2 DEF MacStart, Obtain
<1>2. CASE CopySettings
  <2>1. CASE Leave({"url"}, NoOpinion)
    BY <1>2, <2>1, LeavesWithoutOpinion DEF CopySettings, Holds
  <2>2. CASE /\ mpc' = "proxies" /\ owned' = With("settings")
             /\ UNCHANGED <<reply, place, results, waited, callback, macSaid, macResult>>
    <3>1. OwnsWhatItHolds'
      BY <1>2, <2>2, HoldsWhatItMakes DEF CopySettings, Holds, MacInv, Answered
    <3>2. MacType' /\ SaysAll'
      BY <1>2, <2>2 DEF CopySettings, MacInv, MacType, SaysAll, WholeOrNoOpinion, Answered, Lists
    <3>3. QED
      BY <3>1, <3>2 DEF MacInv
  <2>3. QED
    BY <1>2, <2>1, <2>2 DEF CopySettings, Obtain
<1>3. CASE CopyProxies
  <2>1. CASE Leave({"url", "settings"}, NoOpinion)
    BY <1>3, <2>1, LeavesWithoutOpinion DEF CopyProxies, Holds
  <2>2. CASE /\ reply' \in MacReplies
             /\ mpc' = "entries" /\ owned' = With("proxies")
             /\ UNCHANGED <<place, results, waited, callback, macSaid, macResult>>
    <3>1. OwnsWhatItHolds'
      BY <1>3, <2>2, HoldsWhatItMakes DEF CopyProxies, Holds, MacInv, Answered
    <3>2. MacType'
      BY <1>3, <2>2 DEF CopyProxies, MacInv, MacType, Answered, Lists
    <3>3. place = 1 /\ results = <<>> /\ macSaid = <<>> /\ ~callback.done
      BY <1>3, <2>2 DEF CopyProxies, MacInv, MacType, SaysAll
    <3>4. reply' \in Seq(STRING)
      BY <2>2
    <3>5. SaidOf(reply', macSaid)[0] = <<>> /\ Runs(reply', 0) = 0
      BY <3>4, SaidCases, RunsCount
    <3>6. Len(reply') \in Nat /\ Len(macSaid) = 0
      BY <3>3, <3>4
    <3>7. InLoop'
      <4>1. place' = 1 /\ results' = <<>> /\ macSaid' = <<>> /\ ~callback'.done /\ place' - 1 = 0
        BY <3>3, <2>2
      <4>2. SaidOf(reply, macSaid)'[0] = <<>> /\ Runs(reply, 0)' = 0
        BY <3>5, <2>2, Zenon
      <4>3. place' \in 1 .. Len(reply') + 1
        BY <4>1, <3>6
      <4>4. \A k \in 1 .. place' - 1 : reply'[k] # "badPac"
        BY <4>1
      <4>5. results' = SaidOf(reply, macSaid)'[place' - 1]
        BY <4>1, <4>2, Zenon
      <4>6. Runs(reply, place - 1)' = 0
        BY <4>1, <4>2, Zenon
      <4>7. Len(macSaid') = Runs(reply, place - 1)' + (IF callback'.done THEN 1 ELSE 0)
        BY <4>1, <4>6
      <4>8. \A k \in 1 .. Runs(reply, place - 1)' : macSaid'[k] # Failed
        BY <4>6
      <4>9. QED
        BY <4>1, <4>3, <4>4, <4>5, <4>7, <4>8, <2>2 DEF InLoop
    <3>8. SaysAll'
      BY <3>7, <2>2 DEF SaysAll, WholeOrNoOpinion
    <3>9. QED
      BY <3>1, <3>2, <3>8 DEF MacInv
  <2>3. QED
    BY <1>3, <2>1, <2>2 DEF CopyProxies
<1>4. QED
  BY <1>1, <1>2, <1>3

(* The steps of the loop that run no PAC. *)
LEMMA MacReads ==
  ASSUME MacInv, ReadEntry \/ BadPacEntry \/ PacEntry \/ LastEntry \/ ExecutePac
  PROVE  MacInv'
<1> USE DEF Objects
<1>0. reply \in Seq(STRING) /\ Len(reply) \in Nat
  BY LenProperties DEF MacInv, MacType
<1>1. CASE ReadEntry
  <2>1. /\ mpc = "entries" /\ mpc' = "entries" /\ place' = place + 1
        /\ reply[place] \notin {"pac", "badPac"} /\ place \in 1 .. Len(reply)
        /\ results' = results \o Usable(<<reply[place]>>)
        /\ InLoop /\ ~callback.done
        /\ UNCHANGED <<owned, reply, waited, callback, macSaid, macResult>>
    BY <1>0, <1>1 DEF ReadEntry, MacInv, SaysAll, InLoop, MacType
  <2>2. SaidOf(reply, macSaid)[place] = SaidOf(reply, macSaid)[place - 1] \o Usable(<<reply[place]>>)
    BY <1>0, <2>1, SaidCases
  <2>3. results' = SaidOf(reply, macSaid)[place]
    BY <2>1, <2>2, Zenon DEF InLoop
  <2>4. Runs(reply, place) = Runs(reply, place - 1)
    <3> DEFINE n == place - 1
    <3>1. n \in Nat /\ place = n + 1
      BY <1>0, <2>1
    <3> HIDE DEF n
    <3>2. reply[n + 1] # "pac"
      BY <2>1, <3>1
    <3>3. Runs(reply, n + 1) = Runs(reply, n)
      BY <3>1, <3>2, RunsCount
    <3>4. QED
      BY <3>1, <3>3, Zenon DEF n
  <2>5. InLoop'
    <3>1. place' - 1 = place /\ place' \in 1 .. Len(reply') + 1
      BY <1>0, <2>1
    <3>2. \A k \in 1 .. place : reply[k] # "badPac"
      BY <1>0, <2>1 DEF InLoop
    <3>3. results' = SaidOf(reply, macSaid)'[place' - 1]
      BY <2>1, <2>3, <3>1, Zenon
    <3>4. Runs(reply, place - 1)' = Runs(reply, place - 1)
      BY <2>1, <2>4, <3>1, Zenon
    <3>5. QED
      BY <2>1, <3>1, <3>2, <3>3, <3>4 DEF InLoop
  <2>6. OwnsWhatItHolds'
    BY <2>1 DEF MacInv, OwnsWhatItHolds, Holds, Answered
  <2>7. MacType' /\ SaysAll'
    BY <2>1, <2>5 DEF MacInv, MacType, SaysAll, WholeOrNoOpinion
  <2>8. QED
    BY <2>6, <2>7 DEF MacInv
<1>2. CASE BadPacEntry
  BY <1>2, LeavesWithoutOpinion DEF BadPacEntry, Holds, Outer
<1>3. CASE PacEntry
  <2>1. CASE Leave(Outer, NoOpinion)
    BY <1>3, <2>1, LeavesWithoutOpinion DEF PacEntry, Holds, Outer
  <2>2. CASE /\ mpc' = "execute" /\ owned' = With("pacUrl")
             /\ UNCHANGED <<reply, place, results, waited, callback, macSaid, macResult>>
    <3>1. OwnsWhatItHolds'
      BY <1>3, <2>2, HoldsWhatItMakes DEF PacEntry, Holds, MacInv, Answered
    <3>2. MacType' /\ SaysAll'
      BY <1>3, <2>2 DEF PacEntry, MacInv, MacType, SaysAll, WholeOrNoOpinion, InLoop
    <3>3. QED
      BY <3>1, <3>2 DEF MacInv
  <2>3. QED
    BY <1>3, <2>1, <2>2 DEF PacEntry, Obtain
<1>4. CASE LastEntry
  <2> DEFINE answer == IF results = <<>> THEN <<"direct">> ELSE results
  <2>1. /\ mpc = "entries" /\ place > Len(reply) /\ Leave(Outer, answer) /\ InLoop
        /\ ~callback.done
    BY <1>4 DEF LastEntry, MacInv, MacType, SaysAll
  <2>2. OwnsWhatItHolds' /\ mpc' = "returned"
    BY <2>1, ReleasesWhatItHolds DEF MacInv, Holds, Outer
  <2>3. /\ macResult' = answer
        /\ UNCHANGED <<reply, place, results, waited, callback, macSaid>>
    BY <2>1 DEF Leave
  <2>4. MacType'
    BY <2>2, <2>3 DEF MacInv, MacType
  <2>5. place = Len(reply) + 1 /\ place - 1 = Len(reply)
    BY <1>0, <2>1 DEF InLoop
  <2>6. results = Said
    BY <2>1, <2>5, Zenon DEF InLoop, Said
  <2>7. Len(macSaid) = Runs(reply, Len(reply)) /\ Runs(reply, Len(reply)) \in Nat
    BY <1>0, <2>1, <2>5, RunsCount DEF InLoop
  <2>8. macSaid \in Seq(Lists)
    BY DEF MacInv, MacType
  <2>9. Failed \notin Range(macSaid)
    <3>1. DOMAIN macSaid = 1 .. Runs(reply, Len(reply))
      BY <2>7, <2>8
    <3>2. \A k \in DOMAIN macSaid : macSaid[k] # Failed
      BY <2>1, <2>5, <3>1, Zenon DEF InLoop
    <3>3. QED
      BY <3>2 DEF Range
  <2>10. "badPac" \notin Range(reply)
    <3>1. DOMAIN reply = 1 .. place - 1
      BY <1>0, <2>5
    <3>2. QED
      BY <2>1, <3>1 DEF InLoop, Range
  <2>11. WholeOrNoOpinion'
    <3>1. Said' = Said
      BY <2>3, Zenon DEF Said
    <3>2. Runs(reply, Len(reply))' = Runs(reply, Len(reply)) /\ Range(reply)' = Range(reply)
          /\ Range(macSaid)' = Range(macSaid)
      BY <2>3, Zenon
    <3> HIDE DEF Said
    <3>3. macResult' = IF Said' = <<>> THEN <<"direct">> ELSE Said'
      BY <2>3, <2>6, <3>1
    <3>4. QED
      BY <2>3, <2>7, <2>9, <2>10, <3>2, <3>3 DEF WholeOrNoOpinion
  <2>12. QED
    BY <2>2, <2>4, <2>11 DEF MacInv, SaysAll
<1>5. CASE ExecutePac
  <2>1. CASE Leave(Outer \cup {"pacUrl"}, NoOpinion)
    BY <1>5, <2>1, LeavesWithoutOpinion DEF ExecutePac, Holds, Outer
  <2>2. CASE /\ mpc' = "loop" /\ owned' = With("source")
             /\ UNCHANGED <<reply, place, results, waited, callback, macSaid, macResult>>
    <3>1. OwnsWhatItHolds'
      BY <1>5, <2>2, HoldsWhatItMakes DEF ExecutePac, Holds, MacInv, MacType, Answered
    <3>2. MacType' /\ SaysAll'
      BY <1>5, <2>2 DEF ExecutePac, MacInv, MacType, SaysAll, WholeOrNoOpinion, InLoop
    <3>3. QED
      BY <3>1, <3>2 DEF MacInv
  <2>3. QED
    BY <1>5, <2>1, <2>2 DEF ExecutePac, Obtain
<1>6. QED
  BY <1>1, <1>2, <1>3, <1>4, <1>5

(* The steps of the loop that pumps the run loop of a PAC. *)
LEMMA MacPumps ==
  ASSUME MacInv, RunSlice \/ PacOverran \/ PacFailed \/ PacAnswered
  PROVE  MacInv'
<1> USE DEF Objects
<1>0. reply \in Seq(STRING) /\ Len(reply) \in Nat /\ macSaid \in Seq(Lists)
  BY LenProperties DEF MacInv, MacType
<1>1. CASE RunSlice
  <2>1. /\ mpc = "loop" /\ mpc' = "loop" /\ ~callback.done /\ InLoop
        /\ UNCHANGED <<reply, place, results, macResult>>
    BY <1>1 DEF RunSlice, MacInv, SaysAll
  <2>2. CASE waited' = waited + 1 /\ UNCHANGED <<owned, callback, macSaid>>
    <3>1. MacType' /\ SaysAll'
      BY <2>1, <2>2 DEF MacInv, MacType, SaysAll, WholeOrNoOpinion, InLoop
    <3>2. OwnsWhatItHolds'
      BY <2>1, <2>2 DEF MacInv, OwnsWhatItHolds, Holds, Answered
    <3>3. QED
      BY <3>1, <3>2 DEF MacInv
  <2>3. ASSUME NEW list \in Lists, callback' = [done |-> TRUE, list |-> list],
               owned' = IF list = Failed THEN owned ELSE With("array"),
               macSaid' = Append(macSaid, list)
        PROVE  MacInv'
    <3> DEFINE n == Runs(reply, place - 1)
    <3>1. place - 1 \in 0 .. Len(reply) /\ n \in Nat
      BY <1>0, <2>1, RunsCount DEF InLoop
    <3>2. Len(macSaid) = n
      BY <2>1, <3>1 DEF InLoop
    <3>3. /\ macSaid' \in Seq(Lists) /\ Len(macSaid') = n + 1 /\ macSaid'[n + 1] = list
          /\ \A k \in 1 .. n : macSaid'[k] = macSaid[k]
      <4> HIDE DEF n
      <4>1. QED
        BY <1>0, <2>3, <3>1, <3>2, AppendProperties
    <3>4. SaidOf(reply, macSaid')[place - 1] = SaidOf(reply, macSaid)[place - 1]
      <4> DEFINE p == place - 1
      <4>1. p \in 0 .. Len(reply) /\ \A k \in 1 .. Runs(reply, p) : macSaid'[k] = macSaid[k]
        BY <3>1, <3>3
      <4> HIDE DEF p
      <4>2. SaidOf(reply, macSaid')[p] = SaidOf(reply, macSaid)[p]
        BY <1>0, <4>1, SaidAgrees
      <4>3. SaidOf(reply, macSaid)' = SaidOf(reply, macSaid')
        BY <2>1, Zenon
      <4>4. QED
        BY <4>2, <4>3, Zenon DEF p
    <3>5. n' = n /\ reply' = reply /\ place' = place /\ results' = results
      BY <2>1
    <3>6. results' = SaidOf(reply, macSaid)'[place' - 1]
      BY <2>1, <3>4, <3>5, Zenon DEF InLoop
    <3>7. n = Runs(reply, place - 1) /\ n' = Runs(reply, place - 1)'
      OBVIOUS
    <3> HIDE DEF n
    <3>8. InLoop'
      <4>1. /\ place \in 1 .. Len(reply) + 1 /\ place <= Len(reply) /\ reply[place] = "pac"
            /\ \A k \in 1 .. place - 1 : reply[k] # "badPac"
            /\ \A k \in 1 .. n : macSaid[k] # Failed
        BY <2>1, <3>7 DEF InLoop
      <4>2. callback'.done /\ callback'.list = list
        BY <2>3
      <4>3. Len(macSaid') = Runs(reply, place - 1)' + (IF callback'.done THEN 1 ELSE 0)
        BY <3>1, <3>3, <3>5, <3>7, <4>2
      <4>4. \A k \in 1 .. Runs(reply, place - 1)' : macSaid'[k] # Failed
        BY <3>3, <3>5, <3>7, <4>1
      <4>5. macSaid'[Len(macSaid')] = callback'.list
        BY <3>3, <4>2
      <4>6. QED
        BY <2>1, <3>5, <3>6, <4>1, <4>3, <4>4, <4>5 DEF InLoop
    <3>9. MacType'
      BY <2>1, <2>3, <3>3, <3>5 DEF MacInv, MacType
    <3>10. SaysAll'
      BY <2>1, <3>8 DEF SaysAll, WholeOrNoOpinion
    <3>11. OwnsWhatItHolds'
      <4>1. CASE list = Failed
        BY <2>1, <2>3, <4>1 DEF MacInv, OwnsWhatItHolds, Holds, Answered
      <4>2. CASE list # Failed
        BY <2>1, <2>3, <4>2, HoldsWhatItMakes DEF MacInv, Holds, Answered
      <4>3. QED
        BY <4>1, <4>2
    <3>12. QED
      BY <3>9, <3>10, <3>11 DEF MacInv
  <2>4. QED
    BY <1>1, <2>2, <2>3 DEF RunSlice, Lists
<1>2. CASE PacOverran
  BY <1>2, LeavesWithoutOpinion DEF PacOverran, Holds, Outer, Answered
<1>3. CASE PacFailed
  BY <1>3, LeavesWithoutOpinion DEF PacFailed, Holds, Outer, Answered
<1>4. CASE PacAnswered
  <2>1. OwnsWhatItHolds'
    BY <1>4, HoldsNotWhatItFrees DEF PacAnswered, MacInv, Holds, Answered
  <2>2. MacType' /\ SaysAll'
    BY <1>4 DEF PacAnswered, MacInv, MacType, SaysAll, WholeOrNoOpinion, InLoop, Answered
  <2>3. QED
    BY <2>1, <2>2 DEF MacInv
<1>5. QED
  BY <1>1, <1>2, <1>3, <1>4

(* The steps that end a PAC's run and a lookup. *)
LEMMA MacEnds ==
  ASSUME MacInv, ReadArray \/ MacReturn
  PROVE  MacInv'
<1> USE DEF Objects
<1>0. reply \in Seq(STRING) /\ Len(reply) \in Nat /\ macSaid \in Seq(Lists)
  BY LenProperties DEF MacInv, MacType
<1>1. CASE ReadArray
  <2>1. /\ mpc = "array" /\ mpc' = "entries" /\ place' = place + 1
        /\ callback.done /\ callback.list # Failed /\ ~callback'.done /\ InLoop
        /\ results' = results \o PacEntries(callback.list)
        /\ UNCHANGED <<reply, waited, macSaid, macResult>>
    BY <1>1 DEF ReadArray, MacInv, MacType, SaysAll, Answered
  <2>2. place \in 1 .. Len(reply) /\ reply[place] = "pac"
    BY <1>0, <2>1 DEF InLoop
  <2> DEFINE n == Runs(reply, place - 1)
  <2>3. n \in Nat /\ Runs(reply, place) = n + 1
    <3> DEFINE p == place - 1
    <3>1. p \in Nat /\ place = p + 1
      BY <1>0, <2>2
    <3> HIDE DEF p
    <3>2. reply[p + 1] = "pac"
      BY <2>2, <3>1
    <3>3. Runs(reply, p) \in Nat /\ Runs(reply, p + 1) = Runs(reply, p) + 1
      BY <3>1, <3>2, RunsCount
    <3>4. QED
      BY <3>1, <3>3, Zenon DEF p
  <2>4. /\ Len(macSaid) = n + 1 /\ macSaid[n + 1] = callback.list
        /\ \A k \in 1 .. n : macSaid[k] # Failed
    BY <2>1, <2>3 DEF InLoop
  <2>5. SaidOf(reply, macSaid)[place]
          = SaidOf(reply, macSaid)[place - 1] \o PacEntries(macSaid[Runs(reply, place)])
    BY <1>0, <2>2, SaidCases
  <2>6. results' = SaidOf(reply, macSaid)[place]
    <3>1. macSaid[Runs(reply, place)] = callback.list
      BY <2>3, <2>4, Zenon
    <3>2. results = SaidOf(reply, macSaid)[place - 1]
      BY <2>1 DEF InLoop
    <3>3. QED
      BY <2>1, <2>5, <3>1, <3>2, Zenon
  <2>7. place' - 1 = place /\ place' \in 1 .. Len(reply') + 1
    BY <1>0, <2>1, <2>2
  <2>8. Runs(reply, place - 1)' = n + 1
    BY <2>1, <2>3, <2>7, Zenon
  <2> HIDE DEF n
  <2>9. InLoop'
    <3>1. \A k \in 1 .. place : reply[k] # "badPac"
      BY <1>0, <2>1, <2>2 DEF InLoop
    <3>2. results' = SaidOf(reply, macSaid)'[place' - 1]
      BY <2>1, <2>6, <2>7, Zenon
    <3>3. Len(macSaid') = Runs(reply, place - 1)' + (IF callback'.done THEN 1 ELSE 0)
      BY <2>1, <2>3, <2>4, <2>8
    <3>4. \A k \in 1 .. Runs(reply, place - 1)' : macSaid'[k] # Failed
      BY <2>1, <2>3, <2>4, <2>8
    <3>5. QED
      BY <2>1, <2>7, <3>1, <3>2, <3>3, <3>4 DEF InLoop
  <2>10. MacType' /\ SaysAll'
    BY <1>1, <2>1, <2>9 DEF ReadArray, MacInv, MacType, SaysAll, WholeOrNoOpinion, Lists
  <2>11. OwnsWhatItHolds'
    BY <1>1, <2>1, HoldsNotWhatItFrees DEF ReadArray, MacInv, Holds, Answered
  <2>12. QED
    BY <2>10, <2>11 DEF MacInv
<1>2. CASE MacReturn
  BY <1>2 DEF MacReturn, MacInv, MacType, SaysAll, WholeOrNoOpinion, Lists,
              OwnsWhatItHolds, Holds, Answered
<1>3. QED
  BY <1>1, <1>2

(* Every step of a lookup, and every step that leaves it alone. *)
LEMMA MacStep ==
  ASSUME MacInv, MacNext \/ UNCHANGED macVars
  PROVE  MacInv'
<1>1. CASE UNCHANGED macVars
  BY <1>1 DEF macVars, MacInv, MacType, SaysAll, WholeOrNoOpinion, InLoop, Said,
              OwnsWhatItHolds, Holds, Answered
<1>2. CASE MacNext
  BY <1>2, MacBegins, MacReads, MacPumps, MacEnds DEF MacNext
<1>3. QED
  BY <1>1, <1>2

(* A macOS lookup starts owning nothing. *)
LEMMA MacStarts == MacInit => MacInv
<1>1. \A o \in Objects : MacInit => ~Holds(o)
  BY DEF MacInit, Holds
<1>2. QED
  BY <1>1 DEF MacInit, MacInv, MacType, SaysAll, WholeOrNoOpinion, Lists, OwnsWhatItHolds

-----------------------------------------------------------------------------
(* The maps whose handles threads share.  Only libproxy's is closed while    *)
(* other threads look up: its lock is what protects the factory.             *)
OnlyLibproxyClosesAnytime == ClosesAnytime \subseteq {"libproxy"}

Steps == {"idle", "peek", "lock", "make", "fetch", "call", "retry", "call2", "array",
          "returned", "swap", "check", "free"}
Results == {"none", "no opinion", "settings", "answer", "error", "TypeError", "closed"}
Closers == {"swap", "check", "free"}

HandleTypes ==
  /\ kind \in {"libproxy", "winhttp", "pac", "httpx", "macos"}
  /\ slot \in [MapKeys(kind) -> Handles \cup {0}]
  /\ alive \in SUBSET Handles
  /\ lock \in Threads \cup {NoOne}
  /\ pc \in [Threads -> Steps]
  /\ key \in [Threads -> Keys \cup {"map"}]
  /\ left \in [Threads -> Nat]
  /\ using \in [Threads -> Handles \cup {0}]
  /\ closing \in [Threads -> SUBSET Handles]
  /\ arrays \in SUBSET Threads
  /\ result \in [Threads -> Results]

(* The steps a thread can be at, by the kind of the map it uses. *)
StepOfKind(t) ==
  /\ kind = "macos" => pc[t] = "idle"
  /\ pc[t] = "peek" => kind \in {"winhttp", "pac"} /\ key[t] \in MapKeys(kind)
  /\ pc[t] \in {"lock", "make"} => kind \in {"libproxy", "pac", "httpx"} /\ key[t] \in MapKeys(kind)
  /\ pc[t] = "fetch" => kind \in {"libproxy", "winhttp", "pac"} /\ slot["map"] # 0
  /\ pc[t] = "retry" => kind = "winhttp" /\ slot["map"] # 0
  /\ pc[t] \in {"call2", "check"} => kind = "winhttp"
  /\ pc[t] = "call" /\ kind = "winhttp" => slot["map"] # 0
  /\ pc[t] = "array" => kind = "libproxy"
  /\ pc[t] = "swap" => kind \in {"libproxy", "pac", "httpx"}
StepsOfKind == \A t \in Threads : StepOfKind(t)

(* The lock is held over the making of a handle, and over libproxy's call. *)
Holding(t) == pc[t] = "make" \/ (kind = "libproxy" /\ pc[t] \in {"fetch", "call"})
LockIsHeld == \A t \in Threads : lock = t <=> Holding(t)

ClosesAlone ==
  kind # "libproxy" =>
    \A t, u \in Threads : t # u /\ pc[t] \in Closers => pc[u] \in {"idle", "returned"}

(* A call is given a handle that the map still keeps. *)
UsesSlot(t) ==
  using[t] # 0 => pc[t] \in {"call", "call2"} /\ \E k \in MapKeys(kind) : slot[k] = using[t]
UsesTheSlot == \A t \in Threads : UsesSlot(t)

(* What the map keeps is alive, but for a WinHTTP session being closed. *)
SlotIsAlive ==
  \A k \in MapKeys(kind) :
    slot[k] \in alive \cup {0} \/ (kind = "winhttp" /\ \E t \in Threads : pc[t] = "free")

(* What a close() took is alive, its own and, but for WinHTTP, not the map's. *)
ClosesItsOwn ==
  \A t \in Threads :
    /\ closing[t] \subseteq alive
    /\ closing[t] # {} => pc[t] = "free"
    /\ \A u \in Threads : t # u => closing[t] \cap closing[u] = {}
    /\ kind # "winhttp" => \A k \in MapKeys(kind) : slot[k] \notin closing[t]
    /\ kind = "winhttp" /\ pc[t] = "free" => alive \subseteq closing[t]

NoneIsLost ==
  \A h \in alive : (\E k \in MapKeys(kind) : slot[k] = h) \/ \E t \in Threads : h \in closing[t]

Ends == /\ \A t \in Threads : result[t] # "TypeError"
        /\ \A t \in arrays : pc[t] = "array"

HandleInv ==
  /\ HandleTypes /\ StepsOfKind /\ LockIsHeld /\ ClosesAlone /\ UsesTheSlot /\ SlotIsAlive
  /\ ClosesItsOwn /\ NoneIsLost /\ Ends

(* The least of a set of numbers is one of them: a new handle is one that     *)
(* nobody holds.                                                             *)
LEMMA LeastIsOne ==
  ASSUME NEW S \in SUBSET Nat, S # {}
  PROVE  Min(S) \in S
<1>1. \E n \in S : \A m \in S : <<m, n>> \notin OpToRel(<, Nat)
  BY NatLessThanWellFounded, WFMin
<1>2. PICK n \in S : \A m \in S : ~ (m < n)
  BY <1>1 DEF OpToRel
<1>3. \A m \in S : n <= m
  BY <1>2
<1>4. \E x \in S : \A y \in S : x <= y
  BY <1>3
<1>5. QED
  BY <1>4 DEF Min

(* A new handle is one that nobody has. *)
LEMMA NewHandles ==
  ASSUME Unused # {}
  PROVE  /\ Min(Unused) \in Handles /\ Min(Unused) # 0 /\ Min(Unused) \notin alive
         /\ \A t \in DOMAIN closing : Min(Unused) \notin closing[t]
<1>1. Unused \in SUBSET Nat
  BY DEF Unused
<1>2. Min(Unused) \in Unused
  BY <1>1, LeastIsOne
<1>3. QED
  BY <1>2 DEF Unused, Range

(* What the two ways on do to the program counter and the result.            *)
LEMMA Goes ==
  ASSUME pc \in [Threads -> Steps], NEW t \in Threads, NEW step \in Steps, Goto(t, step)
  PROVE  /\ pc' \in [Threads -> Steps] /\ pc'[t] = step
         /\ \A u \in Threads : u # t => pc'[u] = pc[u]
BY DEF Goto

(* A thread that answers has returned with its result, and no other has moved. *)
LEMMA Answers ==
  ASSUME pc \in [Threads -> Steps], result \in [Threads -> Results],
         NEW t \in Threads, NEW r \in Results, Answer(t, r)
  PROVE  /\ pc' \in [Threads -> Steps] /\ pc'[t] = "returned"
         /\ \A u \in Threads : u # t => pc'[u] = pc[u]
         /\ result' \in [Threads -> Results] /\ result'[t] = r
         /\ \A u \in Threads : u # t => result'[u] = result[u]
BY DEF Goto, Answer, Steps

(* A thread that neither makes nor closes a handle keeps the invariant when  *)
(* it keeps what the invariant says of that thread.                          *)
LEMMA OthersStay ==
  ASSUME HandleInv, NEW t \in Threads, UNCHANGED <<kind, slot, alive, closing>>, HandleTypes',
         \A u \in Threads : u # t => /\ pc'[u] = pc[u] /\ key'[u] = key[u]
                                     /\ using'[u] = using[u] /\ (lock' = u <=> lock = u),
         pc[t] \notin Closers, pc'[t] \notin Closers,
         \/ kind = "libproxy" \/ pc[t] \notin {"idle", "returned"}
         \/ pc'[t] \in {"idle", "returned"} \/ \A u \in Threads : pc[u] \notin Closers,
         StepOfKind(t)', (lock = t <=> Holding(t))', UsesSlot(t)', Ends'
  PROVE  HandleInv'
<1> USE DEF HandleInv
<1>1. StepsOfKind'
  <2>1. \A u \in Threads : u # t => (StepOfKind(u)' <=> StepOfKind(u))
    BY DEF StepOfKind
  <2>2. QED
    BY <2>1 DEF StepsOfKind
<1>2. LockIsHeld'
  BY DEF LockIsHeld, Holding
<1>3. ClosesAlone'
  BY DEF ClosesAlone, Closers
<1>4. UsesTheSlot'
  BY DEF UsesTheSlot, UsesSlot
<1>5. SlotIsAlive' /\ ClosesItsOwn'
  <2>1. pc[t] # "free" /\ pc'[t] # "free"
    BY DEF Closers
  <2>2. \A u \in Threads : pc'[u] = "free" <=> pc[u] = "free"
    BY <2>1
  <2>3. QED
    BY <2>2 DEF SlotIsAlive, ClosesItsOwn
<1>6. NoneIsLost'
  BY DEF NoneIsLost
<1>7. QED
  BY <1>1, <1>2, <1>3, <1>4, <1>5, <1>6

(* The steps of a lookup that make no handle keep the invariant. *)
LEMMA LooksUp ==
  ASSUME HandleInv, OnlyLibproxyClosesAnytime, NEW t \in Threads,
         \/ BeginLookup(t) \/ Peek(t) \/ Lock(t) \/ UseMade(t) \/ MakeFails(t) \/ Fetch(t)
         \/ CallEnds(t) \/ Retry(t) \/ RetryEnds(t) \/ ReadProxies(t) \/ Return(t)
  PROVE  HandleInv'
<1> USE DEF HandleInv, HandleTypes
<1>0. /\ UNCHANGED <<kind, slot, alive, closing>>
      /\ pc[t] \notin Closers
  BY DEF BeginLookup, Peek, Lock, UseMade, MakeFails, Fetch, CallEnds, Retry, RetryEnds,
         ReadProxies, Return, Closers
<1>s. /\ "peek" \in Steps /\ "lock" \in Steps /\ "make" \in Steps /\ "fetch" \in Steps
      /\ "call" \in Steps /\ "retry" \in Steps /\ "call2" \in Steps /\ "array" \in Steps
      /\ "idle" \in Steps
  BY DEF Steps
<1>r. /\ "none" \in Results /\ "no opinion" \in Results /\ "settings" \in Results
      /\ "answer" \in Results /\ "error" \in Results
  BY DEF Results
<1>1. CASE BeginLookup(t)
  <2>1. CASE /\ kind \in {"winhttp", "pac"}
             /\ pc[t] = "idle"
             /\ left[t] > 0
             /\ kind = "libproxy" \/ \A u \in Threads : pc[u] \notin Closers
             /\ \E k \in MapKeys(kind) : key' = [key EXCEPT ![t] = k]
             /\ left' = [left EXCEPT ![t] = @ - 1]
             /\ UNCHANGED <<lock, using, arrays, result>>
             /\ Goto(t, "peek")
    <3>1. /\ pc' \in [Threads -> Steps] /\ pc'[t] = "peek"
          /\ \A u \in Threads : u # t => pc'[u] = pc[u]
      BY <2>1, Goes, <1>s
    <3>2. HandleTypes'
      <4>1. MapKeys(kind) \subseteq Keys \cup {"map"}
        BY DEF MapKeys
      <4>2. key' \in [Threads -> Keys \cup {"map"}]
        BY <2>1, <4>1
      <4>3. left' \in [Threads -> Nat]
        BY <2>1
      <4>4. QED
        BY <1>0, <2>1, <3>1, <4>2, <4>3
    <3>3. \A u \in Threads : u # t => /\ pc'[u] = pc[u] /\ key'[u] = key[u]
                                      /\ using'[u] = using[u] /\ (lock' = u <=> lock = u)
      BY <2>1, <3>1 DEF NoOne, LockIsHeld, Holding
    <3>4. StepOfKind(t)' /\ (lock = t <=> Holding(t))'
      BY <1>0, <2>1, <3>1 DEF StepsOfKind, StepOfKind, LockIsHeld, Holding, NoOne, MapKeys
    <3>5. UsesSlot(t)'
      BY <1>0, <2>1, <3>1 DEF UsesTheSlot, UsesSlot, StepsOfKind, StepOfKind, MapKeys, Keys
    <3>6. Ends'
      BY <2>1, <3>1 DEF Ends
    <3>7. QED
      BY <1>0, <2>1, <3>1, <3>2, <3>3, <3>4, <3>5, <3>6, OthersStay DEF Closers
  <2>2. CASE /\ kind \in {"libproxy", "httpx"}
             /\ pc[t] = "idle"
             /\ left[t] > 0
             /\ kind = "libproxy" \/ \A u \in Threads : pc[u] \notin Closers
             /\ \E k \in MapKeys(kind) : key' = [key EXCEPT ![t] = k]
             /\ left' = [left EXCEPT ![t] = @ - 1]
             /\ UNCHANGED <<lock, using, arrays, result>>
             /\ Goto(t, "lock")
    <3>1. /\ pc' \in [Threads -> Steps] /\ pc'[t] = "lock"
          /\ \A u \in Threads : u # t => pc'[u] = pc[u]
      BY <2>2, Goes, <1>s
    <3>2. HandleTypes'
      <4>1. MapKeys(kind) \subseteq Keys \cup {"map"}
        BY DEF MapKeys
      <4>2. key' \in [Threads -> Keys \cup {"map"}]
        BY <2>2, <4>1
      <4>3. left' \in [Threads -> Nat]
        BY <2>2
      <4>4. QED
        BY <1>0, <2>2, <3>1, <4>2, <4>3
    <3>3. \A u \in Threads : u # t => /\ pc'[u] = pc[u] /\ key'[u] = key[u]
                                      /\ using'[u] = using[u] /\ (lock' = u <=> lock = u)
      BY <2>2, <3>1 DEF NoOne, LockIsHeld, Holding
    <3>4. StepOfKind(t)' /\ (lock = t <=> Holding(t))'
      BY <1>0, <2>2, <3>1 DEF StepsOfKind, StepOfKind, LockIsHeld, Holding, NoOne, MapKeys
    <3>5. UsesSlot(t)'
      BY <1>0, <2>2, <3>1 DEF UsesTheSlot, UsesSlot, StepsOfKind, StepOfKind, MapKeys, Keys
    <3>6. Ends'
      BY <2>2, <3>1 DEF Ends
    <3>7. QED
      BY <1>0, <2>2, <3>1, <3>2, <3>3, <3>4, <3>5, <3>6, OthersStay DEF Closers
  <2>3. QED
    BY <1>1, <2>1, <2>2 DEF BeginLookup, OnlyLibproxyClosesAnytime, Closers, StepsOfKind, StepOfKind
<1>2. CASE Peek(t)
  <2>1. CASE /\ pc[t] = "peek"
             /\ UNCHANGED <<lock, key, left, using, arrays>>
             /\ Answer(t, "no opinion")
    <3>1. /\ pc' \in [Threads -> Steps] /\ pc'[t] = "returned"
          /\ \A u \in Threads : u # t => pc'[u] = pc[u]
          /\ result' \in [Threads -> Results] /\ result'[t] # "TypeError"
          /\ \A u \in Threads : u # t => result'[u] = result[u]
      BY <2>1, Answers, <1>r
    <3>2. HandleTypes'
      BY <1>0, <2>1, <3>1 DEF StepsOfKind, StepOfKind, Keys, MapKeys, NoOne
    <3>3. \A u \in Threads : u # t => /\ pc'[u] = pc[u] /\ key'[u] = key[u]
                                      /\ using'[u] = using[u] /\ (lock' = u <=> lock = u)
      BY <2>1, <3>1 DEF NoOne, LockIsHeld, Holding
    <3>4. StepOfKind(t)' /\ (lock = t <=> Holding(t))'
      BY <1>0, <2>1, <3>1 DEF StepsOfKind, StepOfKind, LockIsHeld, Holding, NoOne, MapKeys
    <3>5. UsesSlot(t)'
      BY <1>0, <2>1, <3>1 DEF UsesTheSlot, UsesSlot, StepsOfKind, StepOfKind, MapKeys, Keys
    <3>6. Ends'
      BY <2>1, <3>1 DEF Ends
    <3>7. QED
      BY <1>0, <2>1, <3>1, <3>2, <3>3, <3>4, <3>5, <3>6, OthersStay DEF Closers
  <2>2. CASE /\ pc[t] = "peek"
             /\ kind = "pac"
             /\ UNCHANGED <<lock, key, left, using, arrays, result>>
             /\ Goto(t, "lock")
    <3>1. /\ pc' \in [Threads -> Steps] /\ pc'[t] = "lock"
          /\ \A u \in Threads : u # t => pc'[u] = pc[u]
      BY <2>2, Goes, <1>s
    <3>2. HandleTypes'
      BY <1>0, <2>2, <3>1 DEF StepsOfKind, StepOfKind, Keys, MapKeys, NoOne
    <3>3. \A u \in Threads : u # t => /\ pc'[u] = pc[u] /\ key'[u] = key[u]
                                      /\ using'[u] = using[u] /\ (lock' = u <=> lock = u)
      BY <2>2, <3>1 DEF NoOne, LockIsHeld, Holding
    <3>4. StepOfKind(t)' /\ (lock = t <=> Holding(t))'
      BY <1>0, <2>2, <3>1 DEF StepsOfKind, StepOfKind, LockIsHeld, Holding, NoOne, MapKeys
    <3>5. UsesSlot(t)'
      BY <1>0, <2>2, <3>1 DEF UsesTheSlot, UsesSlot, StepsOfKind, StepOfKind, MapKeys, Keys
    <3>6. Ends'
      BY <2>2, <3>1 DEF Ends
    <3>7. QED
      BY <1>0, <2>2, <3>1, <3>2, <3>3, <3>4, <3>5, <3>6, OthersStay DEF Closers
  <2>3. CASE /\ pc[t] = "peek"
             /\ slot["map"] # 0
             /\ UNCHANGED <<lock, key, left, using, arrays, result>>
             /\ Goto(t, "fetch")
    <3>1. /\ pc' \in [Threads -> Steps] /\ pc'[t] = "fetch"
          /\ \A u \in Threads : u # t => pc'[u] = pc[u]
      BY <2>3, Goes, <1>s
    <3>2. HandleTypes'
      BY <1>0, <2>3, <3>1 DEF StepsOfKind, StepOfKind, Keys, MapKeys, NoOne
    <3>3. \A u \in Threads : u # t => /\ pc'[u] = pc[u] /\ key'[u] = key[u]
                                      /\ using'[u] = using[u] /\ (lock' = u <=> lock = u)
      BY <2>3, <3>1 DEF NoOne, LockIsHeld, Holding
    <3>4. StepOfKind(t)' /\ (lock = t <=> Holding(t))'
      BY <1>0, <2>3, <3>1 DEF StepsOfKind, StepOfKind, LockIsHeld, Holding, NoOne, MapKeys
    <3>5. UsesSlot(t)'
      BY <1>0, <2>3, <3>1 DEF UsesTheSlot, UsesSlot, StepsOfKind, StepOfKind, MapKeys, Keys
    <3>6. Ends'
      BY <2>3, <3>1 DEF Ends
    <3>7. QED
      BY <1>0, <2>3, <3>1, <3>2, <3>3, <3>4, <3>5, <3>6, OthersStay DEF Closers
  <2>4. QED
    BY <1>2, <2>1, <2>2, <2>3 DEF Peek, OnlyLibproxyClosesAnytime, Closers, StepsOfKind, StepOfKind
<1>3. CASE Lock(t)
  <2>1. CASE /\ pc[t] = "lock"
             /\ lock = NoOne
             /\ lock' = t
             /\ UNCHANGED <<key, left, using, arrays, result>>
             /\ Goto(t, "make")
    <3>1. /\ pc' \in [Threads -> Steps] /\ pc'[t] = "make"
          /\ \A u \in Threads : u # t => pc'[u] = pc[u]
      BY <2>1, Goes, <1>s
    <3>2. HandleTypes'
      BY <1>0, <2>1, <3>1 DEF StepsOfKind, StepOfKind, Keys, MapKeys, NoOne
    <3>3. \A u \in Threads : u # t => /\ pc'[u] = pc[u] /\ key'[u] = key[u]
                                      /\ using'[u] = using[u] /\ (lock' = u <=> lock = u)
      BY <2>1, <3>1 DEF NoOne, LockIsHeld, Holding
    <3>4. StepOfKind(t)' /\ (lock = t <=> Holding(t))'
      BY <1>0, <2>1, <3>1 DEF StepsOfKind, StepOfKind, LockIsHeld, Holding, NoOne, MapKeys
    <3>5. UsesSlot(t)'
      BY <1>0, <2>1, <3>1 DEF UsesTheSlot, UsesSlot, StepsOfKind, StepOfKind, MapKeys, Keys
    <3>6. Ends'
      BY <2>1, <3>1 DEF Ends
    <3>7. QED
      BY <1>0, <2>1, <3>1, <3>2, <3>3, <3>4, <3>5, <3>6, OthersStay DEF Closers
  <2>2. QED
    BY <1>3, <2>1 DEF Lock, OnlyLibproxyClosesAnytime, Closers, StepsOfKind, StepOfKind
<1>4. CASE UseMade(t)
  <2>1. CASE /\ pc[t] = "make"
             /\ slot[key[t]] # 0
             /\ kind = "libproxy"
             /\ UNCHANGED <<lock, key, left, using, arrays, result>>
             /\ Goto(t, "fetch")
    <3>1. /\ pc' \in [Threads -> Steps] /\ pc'[t] = "fetch"
          /\ \A u \in Threads : u # t => pc'[u] = pc[u]
      BY <2>1, Goes, <1>s
    <3>2. HandleTypes'
      BY <1>0, <2>1, <3>1 DEF StepsOfKind, StepOfKind, Keys, MapKeys, NoOne
    <3>3. \A u \in Threads : u # t => /\ pc'[u] = pc[u] /\ key'[u] = key[u]
                                      /\ using'[u] = using[u] /\ (lock' = u <=> lock = u)
      BY <2>1, <3>1 DEF NoOne, LockIsHeld, Holding
    <3>4. StepOfKind(t)' /\ (lock = t <=> Holding(t))'
      BY <1>0, <2>1, <3>1 DEF StepsOfKind, StepOfKind, LockIsHeld, Holding, NoOne, MapKeys
    <3>5. UsesSlot(t)'
      BY <1>0, <2>1, <3>1 DEF UsesTheSlot, UsesSlot, StepsOfKind, StepOfKind, MapKeys, Keys
    <3>6. Ends'
      BY <2>1, <3>1 DEF Ends
    <3>7. QED
      BY <1>0, <2>1, <3>1, <3>2, <3>3, <3>4, <3>5, <3>6, OthersStay DEF Closers
  <2>2. CASE /\ pc[t] = "make"
             /\ slot[key[t]] # 0
             /\ kind = "httpx"
             /\ lock' = NoOne
             /\ using' = [using EXCEPT ![t] = slot[key[t]]]
             /\ UNCHANGED <<key, left, arrays, result>>
             /\ Goto(t, "call")
    <3>1. /\ pc' \in [Threads -> Steps] /\ pc'[t] = "call"
          /\ \A u \in Threads : u # t => pc'[u] = pc[u]
      BY <2>2, Goes, <1>s
    <3>2. HandleTypes'
      BY <1>0, <2>2, <3>1 DEF StepsOfKind, StepOfKind, Keys, MapKeys, NoOne
    <3>3. \A u \in Threads : u # t => /\ pc'[u] = pc[u] /\ key'[u] = key[u]
                                      /\ using'[u] = using[u] /\ (lock' = u <=> lock = u)
      BY <2>2, <3>1 DEF NoOne, LockIsHeld, Holding
    <3>4. StepOfKind(t)' /\ (lock = t <=> Holding(t))'
      BY <1>0, <2>2, <3>1 DEF StepsOfKind, StepOfKind, LockIsHeld, Holding, NoOne, MapKeys
    <3>5. UsesSlot(t)'
      BY <1>0, <2>2, <3>1 DEF UsesTheSlot, UsesSlot, StepsOfKind, StepOfKind, MapKeys, Keys
    <3>6. Ends'
      BY <2>2, <3>1 DEF Ends
    <3>7. QED
      BY <1>0, <2>2, <3>1, <3>2, <3>3, <3>4, <3>5, <3>6, OthersStay DEF Closers
  <2>3. CASE /\ pc[t] = "make"
             /\ slot[key[t]] # 0
             /\ kind \notin {"libproxy", "httpx"}
             /\ lock' = NoOne
             /\ UNCHANGED <<key, left, using, arrays, result>>
             /\ Goto(t, "fetch")
    <3>1. /\ pc' \in [Threads -> Steps] /\ pc'[t] = "fetch"
          /\ \A u \in Threads : u # t => pc'[u] = pc[u]
      BY <2>3, Goes, <1>s
    <3>2. HandleTypes'
      BY <1>0, <2>3, <3>1 DEF StepsOfKind, StepOfKind, Keys, MapKeys, NoOne
    <3>3. \A u \in Threads : u # t => /\ pc'[u] = pc[u] /\ key'[u] = key[u]
                                      /\ using'[u] = using[u] /\ (lock' = u <=> lock = u)
      BY <2>3, <3>1 DEF NoOne, LockIsHeld, Holding
    <3>4. StepOfKind(t)' /\ (lock = t <=> Holding(t))'
      BY <1>0, <2>3, <3>1 DEF StepsOfKind, StepOfKind, LockIsHeld, Holding, NoOne, MapKeys
    <3>5. UsesSlot(t)'
      BY <1>0, <2>3, <3>1 DEF UsesTheSlot, UsesSlot, StepsOfKind, StepOfKind, MapKeys, Keys
    <3>6. Ends'
      BY <2>3, <3>1 DEF Ends
    <3>7. QED
      BY <1>0, <2>3, <3>1, <3>2, <3>3, <3>4, <3>5, <3>6, OthersStay DEF Closers
  <2>4. QED
    BY <1>4, <2>1, <2>2, <2>3
       DEF UseMade, OnlyLibproxyClosesAnytime, Closers, StepsOfKind, StepOfKind
<1>5. CASE MakeFails(t)
  <2>1. CASE /\ pc[t] = "make"
             /\ lock' = NoOne
             /\ UNCHANGED <<key, left, using, arrays>>
             /\ \E r \in {"no opinion", "error"} : Answer(t, r)
    <3>1. /\ pc' \in [Threads -> Steps] /\ pc'[t] = "returned"
          /\ \A u \in Threads : u # t => pc'[u] = pc[u]
          /\ result' \in [Threads -> Results] /\ result'[t] # "TypeError"
          /\ \A u \in Threads : u # t => result'[u] = result[u]
      <4>1. PICK r \in {"no opinion", "error"} : Answer(t, r)
        BY <2>1
      <4>2. r \in Results /\ r # "TypeError"
        BY <1>r
      <4>3. QED
        BY <4>1, <4>2, Answers
    <3>2. HandleTypes'
      BY <1>0, <2>1, <3>1 DEF StepsOfKind, StepOfKind, Keys, MapKeys, NoOne
    <3>3. \A u \in Threads : u # t => /\ pc'[u] = pc[u] /\ key'[u] = key[u]
                                      /\ using'[u] = using[u] /\ (lock' = u <=> lock = u)
      BY <2>1, <3>1 DEF NoOne, LockIsHeld, Holding
    <3>4. StepOfKind(t)' /\ (lock = t <=> Holding(t))'
      BY <1>0, <2>1, <3>1 DEF StepsOfKind, StepOfKind, LockIsHeld, Holding, NoOne, MapKeys
    <3>5. UsesSlot(t)'
      BY <1>0, <2>1, <3>1 DEF UsesTheSlot, UsesSlot, StepsOfKind, StepOfKind, MapKeys, Keys
    <3>6. Ends'
      BY <2>1, <3>1 DEF Ends
    <3>7. QED
      BY <1>0, <2>1, <3>1, <3>2, <3>3, <3>4, <3>5, <3>6, OthersStay DEF Closers
  <2>2. QED
    BY <1>5, <2>1 DEF MakeFails, OnlyLibproxyClosesAnytime, Closers, StepsOfKind, StepOfKind
<1>6. CASE Fetch(t)
  <2>1. CASE /\ pc[t] = "fetch"
             /\ using' = [using EXCEPT ![t] = slot["map"]]
             /\ UNCHANGED <<lock, key, left, arrays, result>>
             /\ Goto(t, "call")
    <3>1. /\ pc' \in [Threads -> Steps] /\ pc'[t] = "call"
          /\ \A u \in Threads : u # t => pc'[u] = pc[u]
      BY <2>1, Goes, <1>s
    <3>2. HandleTypes'
      BY <1>0, <2>1, <3>1 DEF StepsOfKind, StepOfKind, Keys, MapKeys, NoOne
    <3>3. \A u \in Threads : u # t => /\ pc'[u] = pc[u] /\ key'[u] = key[u]
                                      /\ using'[u] = using[u] /\ (lock' = u <=> lock = u)
      BY <2>1, <3>1 DEF NoOne, LockIsHeld, Holding
    <3>4. StepOfKind(t)' /\ (lock = t <=> Holding(t))'
      BY <1>0, <2>1, <3>1 DEF StepsOfKind, StepOfKind, LockIsHeld, Holding, NoOne, MapKeys
    <3>5. UsesSlot(t)'
      BY <1>0, <2>1, <3>1 DEF UsesTheSlot, UsesSlot, StepsOfKind, StepOfKind, MapKeys, Keys
    <3>6. Ends'
      BY <2>1, <3>1 DEF Ends
    <3>7. QED
      BY <1>0, <2>1, <3>1, <3>2, <3>3, <3>4, <3>5, <3>6, OthersStay DEF Closers
  <2>2. CASE /\ pc[t] = "fetch"
             /\ kind = "winhttp"
             /\ UNCHANGED <<lock, key, left, using, arrays>>
             /\ Answer(t, "settings")
    <3>1. /\ pc' \in [Threads -> Steps] /\ pc'[t] = "returned"
          /\ \A u \in Threads : u # t => pc'[u] = pc[u]
          /\ result' \in [Threads -> Results] /\ result'[t] # "TypeError"
          /\ \A u \in Threads : u # t => result'[u] = result[u]
      BY <2>2, Answers, <1>r
    <3>2. HandleTypes'
      BY <1>0, <2>2, <3>1 DEF StepsOfKind, StepOfKind, Keys, MapKeys, NoOne
    <3>3. \A u \in Threads : u # t => /\ pc'[u] = pc[u] /\ key'[u] = key[u]
                                      /\ using'[u] = using[u] /\ (lock' = u <=> lock = u)
      BY <2>2, <3>1 DEF NoOne, LockIsHeld, Holding
    <3>4. StepOfKind(t)' /\ (lock = t <=> Holding(t))'
      BY <1>0, <2>2, <3>1 DEF StepsOfKind, StepOfKind, LockIsHeld, Holding, NoOne, MapKeys
    <3>5. UsesSlot(t)'
      BY <1>0, <2>2, <3>1 DEF UsesTheSlot, UsesSlot, StepsOfKind, StepOfKind, MapKeys, Keys
    <3>6. Ends'
      BY <2>2, <3>1 DEF Ends
    <3>7. QED
      BY <1>0, <2>2, <3>1, <3>2, <3>3, <3>4, <3>5, <3>6, OthersStay DEF Closers
  <2>3. QED
    BY <1>6, <2>1, <2>2 DEF Fetch, OnlyLibproxyClosesAnytime, Closers, StepsOfKind, StepOfKind
<1>7. CASE CallEnds(t)
  <2>1. CASE /\ pc[t] = "call"
             /\ using' = [using EXCEPT ![t] = 0]
             /\ lock' = IF lock = t THEN NoOne ELSE lock
             /\ kind = "libproxy"
             /\ arrays' = arrays \cup {t}
             /\ UNCHANGED <<key, left, result>>
             /\ Goto(t, "array")
    <3>1. /\ pc' \in [Threads -> Steps] /\ pc'[t] = "array"
          /\ \A u \in Threads : u # t => pc'[u] = pc[u]
      BY <2>1, Goes, <1>s
    <3>2. HandleTypes'
      BY <1>0, <2>1, <3>1 DEF StepsOfKind, StepOfKind, Keys, MapKeys, NoOne
    <3>3. \A u \in Threads : u # t => /\ pc'[u] = pc[u] /\ key'[u] = key[u]
                                      /\ using'[u] = using[u] /\ (lock' = u <=> lock = u)
      BY <2>1, <3>1 DEF NoOne, LockIsHeld, Holding
    <3>4. StepOfKind(t)' /\ (lock = t <=> Holding(t))'
      BY <1>0, <2>1, <3>1 DEF StepsOfKind, StepOfKind, LockIsHeld, Holding, NoOne, MapKeys
    <3>5. UsesSlot(t)'
      BY <1>0, <2>1, <3>1 DEF UsesTheSlot, UsesSlot, StepsOfKind, StepOfKind, MapKeys, Keys
    <3>6. Ends'
      BY <2>1, <3>1 DEF Ends
    <3>7. QED
      BY <1>0, <2>1, <3>1, <3>2, <3>3, <3>4, <3>5, <3>6, OthersStay DEF Closers
  <2>2. CASE /\ pc[t] = "call"
             /\ using' = [using EXCEPT ![t] = 0]
             /\ lock' = IF lock = t THEN NoOne ELSE lock
             /\ kind = "winhttp"
             /\ UNCHANGED <<key, left, arrays, result>>
             /\ Goto(t, "retry")
    <3>1. /\ pc' \in [Threads -> Steps] /\ pc'[t] = "retry"
          /\ \A u \in Threads : u # t => pc'[u] = pc[u]
      BY <2>2, Goes, <1>s
    <3>2. HandleTypes'
      BY <1>0, <2>2, <3>1 DEF StepsOfKind, StepOfKind, Keys, MapKeys, NoOne
    <3>3. \A u \in Threads : u # t => /\ pc'[u] = pc[u] /\ key'[u] = key[u]
                                      /\ using'[u] = using[u] /\ (lock' = u <=> lock = u)
      BY <2>2, <3>1 DEF NoOne, LockIsHeld, Holding
    <3>4. StepOfKind(t)' /\ (lock = t <=> Holding(t))'
      BY <1>0, <2>2, <3>1 DEF StepsOfKind, StepOfKind, LockIsHeld, Holding, NoOne, MapKeys
    <3>5. UsesSlot(t)'
      BY <1>0, <2>2, <3>1 DEF UsesTheSlot, UsesSlot, StepsOfKind, StepOfKind, MapKeys, Keys
    <3>6. Ends'
      BY <2>2, <3>1 DEF Ends
    <3>7. QED
      BY <1>0, <2>2, <3>1, <3>2, <3>3, <3>4, <3>5, <3>6, OthersStay DEF Closers
  <2>3. CASE /\ pc[t] = "call"
             /\ using' = [using EXCEPT ![t] = 0]
             /\ lock' = IF lock = t THEN NoOne ELSE lock
             /\ UNCHANGED <<key, left, arrays>>
             /\ \E r \in {"no opinion", "answer", "settings", "error"} : Answer(t, r)
    <3>1. /\ pc' \in [Threads -> Steps] /\ pc'[t] = "returned"
          /\ \A u \in Threads : u # t => pc'[u] = pc[u]
          /\ result' \in [Threads -> Results] /\ result'[t] # "TypeError"
          /\ \A u \in Threads : u # t => result'[u] = result[u]
      <4>1. PICK r \in {"no opinion", "answer", "settings", "error"} : Answer(t, r)
        BY <2>3
      <4>2. r \in Results /\ r # "TypeError"
        BY <1>r
      <4>3. QED
        BY <4>1, <4>2, Answers
    <3>2. HandleTypes'
      BY <1>0, <2>3, <3>1 DEF StepsOfKind, StepOfKind, Keys, MapKeys, NoOne
    <3>3. \A u \in Threads : u # t => /\ pc'[u] = pc[u] /\ key'[u] = key[u]
                                      /\ using'[u] = using[u] /\ (lock' = u <=> lock = u)
      BY <2>3, <3>1 DEF NoOne, LockIsHeld, Holding
    <3>4. StepOfKind(t)' /\ (lock = t <=> Holding(t))'
      BY <1>0, <2>3, <3>1 DEF StepsOfKind, StepOfKind, LockIsHeld, Holding, NoOne, MapKeys
    <3>5. UsesSlot(t)'
      BY <1>0, <2>3, <3>1 DEF UsesTheSlot, UsesSlot, StepsOfKind, StepOfKind, MapKeys, Keys
    <3>6. Ends'
      BY <2>3, <3>1 DEF Ends
    <3>7. QED
      BY <1>0, <2>3, <3>1, <3>2, <3>3, <3>4, <3>5, <3>6, OthersStay DEF Closers
  <2>4. QED
    BY <1>7, <2>1, <2>2, <2>3
       DEF CallEnds, OnlyLibproxyClosesAnytime, Closers, StepsOfKind, StepOfKind
<1>8. CASE Retry(t)
  <2>1. CASE /\ pc[t] = "retry"
             /\ using' = [using EXCEPT ![t] = slot["map"]]
             /\ UNCHANGED <<lock, key, left, arrays, result>>
             /\ Goto(t, "call2")
    <3>1. /\ pc' \in [Threads -> Steps] /\ pc'[t] = "call2"
          /\ \A u \in Threads : u # t => pc'[u] = pc[u]
      BY <2>1, Goes, <1>s
    <3>2. HandleTypes'
      BY <1>0, <2>1, <3>1 DEF StepsOfKind, StepOfKind, Keys, MapKeys, NoOne
    <3>3. \A u \in Threads : u # t => /\ pc'[u] = pc[u] /\ key'[u] = key[u]
                                      /\ using'[u] = using[u] /\ (lock' = u <=> lock = u)
      BY <2>1, <3>1 DEF NoOne, LockIsHeld, Holding
    <3>4. StepOfKind(t)' /\ (lock = t <=> Holding(t))'
      BY <1>0, <2>1, <3>1 DEF StepsOfKind, StepOfKind, LockIsHeld, Holding, NoOne, MapKeys
    <3>5. UsesSlot(t)'
      BY <1>0, <2>1, <3>1 DEF UsesTheSlot, UsesSlot, StepsOfKind, StepOfKind, MapKeys, Keys
    <3>6. Ends'
      BY <2>1, <3>1 DEF Ends
    <3>7. QED
      BY <1>0, <2>1, <3>1, <3>2, <3>3, <3>4, <3>5, <3>6, OthersStay DEF Closers
  <2>2. QED
    BY <1>8, <2>1 DEF Retry, OnlyLibproxyClosesAnytime, Closers, StepsOfKind, StepOfKind
<1>9. CASE RetryEnds(t)
  <2>1. CASE /\ pc[t] = "call2"
             /\ using' = [using EXCEPT ![t] = 0]
             /\ UNCHANGED <<lock, key, left, arrays>>
             /\ \E r \in {"answer", "settings"} : Answer(t, r)
    <3>1. /\ pc' \in [Threads -> Steps] /\ pc'[t] = "returned"
          /\ \A u \in Threads : u # t => pc'[u] = pc[u]
          /\ result' \in [Threads -> Results] /\ result'[t] # "TypeError"
          /\ \A u \in Threads : u # t => result'[u] = result[u]
      <4>1. PICK r \in {"answer", "settings"} : Answer(t, r)
        BY <2>1
      <4>2. r \in Results /\ r # "TypeError"
        BY <1>r
      <4>3. QED
        BY <4>1, <4>2, Answers
    <3>2. HandleTypes'
      BY <1>0, <2>1, <3>1 DEF StepsOfKind, StepOfKind, Keys, MapKeys, NoOne
    <3>3. \A u \in Threads : u # t => /\ pc'[u] = pc[u] /\ key'[u] = key[u]
                                      /\ using'[u] = using[u] /\ (lock' = u <=> lock = u)
      BY <2>1, <3>1 DEF NoOne, LockIsHeld, Holding
    <3>4. StepOfKind(t)' /\ (lock = t <=> Holding(t))'
      BY <1>0, <2>1, <3>1 DEF StepsOfKind, StepOfKind, LockIsHeld, Holding, NoOne, MapKeys
    <3>5. UsesSlot(t)'
      BY <1>0, <2>1, <3>1 DEF UsesTheSlot, UsesSlot, StepsOfKind, StepOfKind, MapKeys, Keys
    <3>6. Ends'
      BY <2>1, <3>1 DEF Ends
    <3>7. QED
      BY <1>0, <2>1, <3>1, <3>2, <3>3, <3>4, <3>5, <3>6, OthersStay DEF Closers
  <2>2. QED
    BY <1>9, <2>1 DEF RetryEnds, OnlyLibproxyClosesAnytime, Closers, StepsOfKind, StepOfKind
<1>10. CASE ReadProxies(t)
  <2>1. CASE /\ pc[t] = "array"
             /\ arrays' = arrays \ {t}
             /\ UNCHANGED <<lock, key, left, using>>
             /\ \E r \in {"answer", "error"} : Answer(t, r)
    <3>1. /\ pc' \in [Threads -> Steps] /\ pc'[t] = "returned"
          /\ \A u \in Threads : u # t => pc'[u] = pc[u]
          /\ result' \in [Threads -> Results] /\ result'[t] # "TypeError"
          /\ \A u \in Threads : u # t => result'[u] = result[u]
      <4>1. PICK r \in {"answer", "error"} : Answer(t, r)
        BY <2>1
      <4>2. r \in Results /\ r # "TypeError"
        BY <1>r
      <4>3. QED
        BY <4>1, <4>2, Answers
    <3>2. HandleTypes'
      BY <1>0, <2>1, <3>1 DEF StepsOfKind, StepOfKind, Keys, MapKeys, NoOne
    <3>3. \A u \in Threads : u # t => /\ pc'[u] = pc[u] /\ key'[u] = key[u]
                                      /\ using'[u] = using[u] /\ (lock' = u <=> lock = u)
      BY <2>1, <3>1 DEF NoOne, LockIsHeld, Holding
    <3>4. StepOfKind(t)' /\ (lock = t <=> Holding(t))'
      BY <1>0, <2>1, <3>1 DEF StepsOfKind, StepOfKind, LockIsHeld, Holding, NoOne, MapKeys
    <3>5. UsesSlot(t)'
      BY <1>0, <2>1, <3>1 DEF UsesTheSlot, UsesSlot, StepsOfKind, StepOfKind, MapKeys, Keys
    <3>6. Ends'
      BY <2>1, <3>1 DEF Ends
    <3>7. QED
      BY <1>0, <2>1, <3>1, <3>2, <3>3, <3>4, <3>5, <3>6, OthersStay DEF Closers
  <2>2. QED
    BY <1>10, <2>1 DEF ReadProxies, OnlyLibproxyClosesAnytime, Closers, StepsOfKind, StepOfKind
<1>11. CASE Return(t)
  <2>1. CASE /\ pc[t] = "returned"
             /\ result' = [result EXCEPT ![t] = "none"]
             /\ key' = [key EXCEPT ![t] = "map"]
             /\ UNCHANGED <<lock, left, using, arrays>>
             /\ Goto(t, "idle")
    <3>1. /\ pc' \in [Threads -> Steps] /\ pc'[t] = "idle"
          /\ \A u \in Threads : u # t => pc'[u] = pc[u]
      BY <2>1, Goes, <1>s
    <3>2. HandleTypes'
      <4>1. key' \in [Threads -> Keys \cup {"map"}]
        BY <2>1
      <4>2. result' \in [Threads -> Results]
        BY <2>1, <1>r
      <4>3. QED
        BY <1>0, <2>1, <3>1, <4>1, <4>2
    <3>3. \A u \in Threads : u # t => /\ pc'[u] = pc[u] /\ key'[u] = key[u]
                                      /\ using'[u] = using[u] /\ (lock' = u <=> lock = u)
      BY <2>1, <3>1 DEF NoOne, LockIsHeld, Holding
    <3>4. StepOfKind(t)' /\ (lock = t <=> Holding(t))'
      BY <1>0, <2>1, <3>1 DEF StepsOfKind, StepOfKind, LockIsHeld, Holding, NoOne, MapKeys
    <3>5. UsesSlot(t)'
      BY <1>0, <2>1, <3>1 DEF UsesTheSlot, UsesSlot, StepsOfKind, StepOfKind, MapKeys, Keys
    <3>6. Ends'
      BY <2>1, <3>1 DEF Ends
    <3>7. QED
      BY <1>0, <2>1, <3>1, <3>2, <3>3, <3>4, <3>5, <3>6, OthersStay DEF Closers
  <2>2. QED
    BY <1>11, <2>1 DEF Return, OnlyLibproxyClosesAnytime, Closers, StepsOfKind, StepOfKind
<1>12. QED
  BY <1>1, <1>2, <1>3, <1>4, <1>5, <1>6, <1>7, <1>8, <1>9, <1>10, <1>11

(* The steps that make or close handles keep the invariant. *)
LEMMA HandlesChange ==
  ASSUME HandleInv, OnlyLibproxyClosesAnytime, NEW t \in Threads,
         Make(t) \/ BeginClose(t) \/ Swap(t) \/ CheckSession(t) \/ Free(t) \/ Closed(t)
  PROVE  HandleInv'
<1> USE DEF HandleInv, HandleTypes
<1>s. "check" \in Steps /\ "swap" \in Steps /\ "free" \in Steps /\ "closed" \in Results
  BY DEF Steps, Results
<1>1. CASE Make(t)
  <2>1. /\ pc[t] = "make" /\ slot[key[t]] = 0 /\ key[t] \in MapKeys(kind) /\ kind # "winhttp"
        /\ Min(Unused) \in Handles /\ Min(Unused) # 0 /\ Min(Unused) \notin alive
        /\ \A u \in Threads : Min(Unused) \notin closing[u]
        /\ \A k \in MapKeys(kind) : slot'[k] = IF k = key[t] THEN Min(Unused) ELSE slot[k]
        /\ slot' \in [MapKeys(kind) -> Handles \cup {0}]
        /\ alive' = alive \cup {Min(Unused)}
        /\ UNCHANGED <<kind, lock, pc, key, left, using, closing, arrays, result>>
    BY <1>1, NewHandles DEF Make, StepsOfKind, StepOfKind
  <2>f. kind # "httpx" => "map" \in MapKeys(kind)
    BY DEF MapKeys
  <2>2. HandleTypes'
    BY <2>1, <2>f
  <2>3. StepsOfKind'
    BY <2>1, <2>f DEF StepsOfKind, StepOfKind
  <2>4. LockIsHeld'
    BY <2>1, <2>f DEF LockIsHeld, Holding
  <2>5. ClosesAlone'
    BY <2>1, <2>f DEF ClosesAlone, Closers
  <2>6. UsesTheSlot'
    BY <2>1, <2>f DEF UsesTheSlot, UsesSlot
  <2>7. SlotIsAlive'
    BY <2>1, <2>f DEF SlotIsAlive
  <2>8. ClosesItsOwn'
    <3>1. \A u \in Threads : closing'[u] \subseteq alive'
      BY <2>1 DEF ClosesItsOwn
    <3>2. \A u \in Threads : \A k \in MapKeys(kind) : slot'[k] \notin closing[u]
      <4> TAKE u \in Threads
      <4> TAKE k \in MapKeys(kind)
      <4>1. CASE k = key[t]
        BY <2>1, <4>1
      <4>2. CASE k # key[t]
        <5>1. slot[k] \notin closing[u] /\ slot'[k] = slot[k]
          BY <2>1, <4>2 DEF ClosesItsOwn
        <5>2. QED
          BY <5>1
      <4>3. QED
        BY <4>1, <4>2
    <3>3. QED
      BY <2>1, <3>1, <3>2 DEF ClosesItsOwn
  <2>9. NoneIsLost'
    BY <2>1, <2>f DEF NoneIsLost
  <2>10. Ends'
    BY <2>1, <2>f DEF Ends
  <2>11. QED
    BY <2>2, <2>3, <2>4, <2>5, <2>6, <2>7, <2>8, <2>9, <2>10
<1>2. CASE BeginClose(t)
  <2>1. /\ pc[t] = "idle" /\ pc'[t] \in {"check", "swap"} /\ pc' \in [Threads -> Steps]
        /\ pc'[t] = "check" <=> kind = "winhttp"
        /\ \A u \in Threads : u # t => pc'[u] = pc[u]
        /\ kind \in {"libproxy", "winhttp", "pac", "httpx"}
        /\ kind = "libproxy" \/ \A u \in Threads : pc[u] \in {"idle", "returned"}
        /\ left' \in [Threads -> Nat]
        /\ UNCHANGED <<kind, slot, alive, lock, key, using, closing, arrays, result>>
    BY <1>2, Goes, <1>s DEF BeginClose, OnlyLibproxyClosesAnytime, Goto
  <2>2. HandleTypes'
    BY <2>1
  <2>3. StepsOfKind'
    BY <2>1 DEF StepsOfKind, StepOfKind
  <2>4. LockIsHeld'
    BY <2>1 DEF LockIsHeld, Holding
  <2>5. ClosesAlone'
    BY <2>1 DEF ClosesAlone, Closers
  <2>6. UsesTheSlot'
    BY <2>1 DEF UsesTheSlot, UsesSlot
  <2>7. SlotIsAlive'
    BY <2>1 DEF SlotIsAlive
  <2>8. ClosesItsOwn'
    BY <2>1 DEF ClosesItsOwn
  <2>9. NoneIsLost'
    BY <2>1 DEF NoneIsLost
  <2>10. Ends'
    BY <2>1 DEF Ends
  <2>11. QED
    BY <2>2, <2>3, <2>4, <2>5, <2>6, <2>7, <2>8, <2>9, <2>10
<1>3. CASE Swap(t)
  <2>1. /\ pc[t] = "swap" /\ lock = NoOne /\ pc'[t] = "free" /\ pc' \in [Threads -> Steps]
        /\ \A u \in Threads : u # t => pc'[u] = pc[u] /\ closing'[u] = closing[u]
        /\ \A h \in Handles : h \in closing'[t] <=> \E k \in MapKeys(kind) : slot[k] = h
        /\ closing' \in [Threads -> SUBSET Handles]
        /\ slot' \in [MapKeys(kind) -> Handles \cup {0}]
        /\ \A k \in MapKeys(kind) : slot'[k] = 0
        /\ UNCHANGED <<kind, alive, lock, key, left, using, arrays, result>>
    BY <1>3, Goes, <1>s DEF Swap, Range
  <2>f. /\ kind # "winhttp" /\ closing[t] = {} /\ using[t] = 0
        /\ \A u \in Threads : pc[u] \notin {"fetch", "call", "retry", "call2"} /\ using[u] = 0
    <3>1. kind # "winhttp" /\ closing[t] = {}
      BY <2>1 DEF StepsOfKind, StepOfKind, ClosesItsOwn
    <3>2. \A u \in Threads : pc[u] \notin {"fetch", "call", "retry", "call2"}
      <4>1. CASE kind = "libproxy"
        BY <2>1, <4>1 DEF LockIsHeld, Holding, NoOne, StepsOfKind, StepOfKind
      <4>2. CASE kind # "libproxy"
        BY <2>1, <4>2 DEF ClosesAlone, Closers
      <4>3. QED
        BY <4>1, <4>2
    <3>3. QED
      BY <3>1, <3>2 DEF UsesTheSlot, UsesSlot
  <2>2. HandleTypes'
    BY <2>1, <2>f
  <2>3. StepsOfKind'
    BY <2>1, <2>f DEF StepsOfKind, StepOfKind
  <2>4. LockIsHeld'
    BY <2>1, <2>f DEF LockIsHeld, Holding
  <2>5. ClosesAlone'
    BY <2>1, <2>f DEF ClosesAlone, Closers
  <2>6. UsesTheSlot'
    BY <2>1, <2>f DEF UsesTheSlot, UsesSlot
  <2>7. SlotIsAlive'
    BY <2>1, <2>f DEF SlotIsAlive
  <2>8. ClosesItsOwn'
    <3>1. closing'[t] \subseteq alive
      <4>1. \A k \in MapKeys(kind) : slot[k] \in alive \cup {0}
        BY <2>1, <2>f DEF SlotIsAlive
      <4>2. \A h \in closing'[t] : h \in Handles /\ h # 0
        BY <2>1
      <4>3. \A h \in closing'[t] : \E k \in MapKeys(kind) : slot[k] = h
        BY <2>1, <4>2
      <4>4. QED
        BY <4>1, <4>2, <4>3
    <3>2. \A u \in Threads : u # t => closing'[t] \cap closing'[u] = {}
      <4>1. \A u \in Threads : \A k \in MapKeys(kind) : slot[k] \notin closing[u]
        BY <2>f DEF ClosesItsOwn
      <4>2. \A h \in closing'[t] : \E k \in MapKeys(kind) : slot[k] = h
        BY <2>1
      <4>3. \A u \in Threads : u # t => closing'[u] = closing[u]
        BY <2>1
      <4>4. QED
        BY <4>1, <4>2, <4>3
    <3>3. \A u \in Threads : 0 \notin closing'[u]
      BY <2>1
    <3>4. \A u \in Threads : closing'[u] \subseteq alive' /\ (closing'[u] # {} => pc'[u] = "free")
      BY <2>1, <3>1 DEF ClosesItsOwn
    <3>5. \A u, v \in Threads : u # v => closing'[u] \cap closing'[v] = {}
      <4>1. \A u, v \in Threads : u # v /\ u # t /\ v # t => closing'[u] \cap closing'[v] = {}
        BY <2>1 DEF ClosesItsOwn
      <4>2. QED
        BY <3>2, <4>1
    <3>6. \A u \in Threads : \A k \in MapKeys(kind) : slot'[k] \notin closing'[u]
      BY <2>1, <3>3
    <3>7. QED
      BY <2>1, <2>f, <3>4, <3>5, <3>6 DEF ClosesItsOwn
  <2>9. NoneIsLost'
    <3> SUFFICES ASSUME NEW h \in alive PROVE \E u \in Threads : h \in closing'[u]
      BY <2>1 DEF NoneIsLost
    <3>1. CASE \E k \in MapKeys(kind) : slot[k] = h
      BY <2>1, <3>1
    <3>2. CASE \E u \in Threads : h \in closing[u]
      BY <2>1, <2>f, <3>2
    <3>3. QED
      BY <3>1, <3>2 DEF NoneIsLost
  <2>10. Ends'
    BY <2>1, <2>f DEF Ends
  <2>11. QED
    BY <2>2, <2>3, <2>4, <2>5, <2>6, <2>7, <2>8, <2>9, <2>10
<1>4. CASE CheckSession(t)
  <2>1. /\ pc[t] = "check" /\ pc'[t] = "free" /\ pc' \in [Threads -> Steps]
        /\ \A u \in Threads : u # t => pc'[u] = pc[u] /\ closing'[u] = closing[u]
        /\ \A h \in Handles : h \in closing'[t] <=> \E k \in MapKeys(kind) : slot[k] = h
        /\ closing' \in [Threads -> SUBSET Handles]
        /\ UNCHANGED <<kind, slot, alive, lock, key, left, using, arrays, result>>
    BY <1>4, Goes, <1>s DEF CheckSession, Range
  <2>f. /\ kind = "winhttp" /\ \A u \in Threads : closing[u] = {}
        /\ \A u \in Threads : u # t => pc[u] \in {"idle", "returned"}
    <3>1. kind = "winhttp"
      BY <2>1 DEF StepsOfKind, StepOfKind
    <3>2. \A u \in Threads : u # t => pc[u] \in {"idle", "returned"}
      BY <2>1, <3>1 DEF ClosesAlone, Closers
    <3>3. QED
      BY <2>1, <3>1, <3>2 DEF ClosesItsOwn
  <2>2. HandleTypes'
    BY <2>1, <2>f
  <2>3. StepsOfKind'
    BY <2>1, <2>f DEF StepsOfKind, StepOfKind
  <2>4. LockIsHeld'
    BY <2>1, <2>f DEF LockIsHeld, Holding
  <2>5. ClosesAlone'
    BY <2>1, <2>f DEF ClosesAlone, Closers
  <2>6. UsesTheSlot'
    BY <2>1, <2>f DEF UsesTheSlot, UsesSlot
  <2>7. SlotIsAlive'
    BY <2>1, <2>f DEF SlotIsAlive
  <2>8. ClosesItsOwn'
    <3>1. closing'[t] \subseteq alive
      <4>1. \A k \in MapKeys(kind) : slot[k] \in alive \cup {0}
        BY <2>1, <2>f DEF SlotIsAlive
      <4>2. \A h \in closing'[t] : h \in Handles /\ h # 0
        BY <2>1
      <4>3. \A h \in closing'[t] : \E k \in MapKeys(kind) : slot[k] = h
        BY <2>1, <4>2
      <4>4. QED
        BY <4>1, <4>2, <4>3
    <3>2. alive \subseteq closing'[t]
      BY <2>1, <2>f DEF NoneIsLost
    <3>3. \A u \in Threads : u # t => closing'[u] = {}
      BY <2>1, <2>f
    <3>4. QED
      BY <2>1, <2>f, <3>1, <3>2, <3>3 DEF ClosesItsOwn
  <2>9. NoneIsLost'
    BY <2>1, <2>f DEF NoneIsLost
  <2>10. Ends'
    BY <2>1, <2>f DEF Ends
  <2>11. QED
    BY <2>2, <2>3, <2>4, <2>5, <2>6, <2>7, <2>8, <2>9, <2>10
<1>5. CASE Free(t)
  <2>1. /\ pc[t] = "free"
        /\ \E h \in closing[t] :
             /\ alive' = alive \ {h} /\ closing'[t] = closing[t] \ {h}
        /\ \A u \in Threads : u # t => closing'[u] = closing[u]
        /\ closing' \in [Threads -> SUBSET Handles]
        /\ UNCHANGED <<kind, slot, lock, pc, key, left, using, arrays, result>>
    BY <1>5 DEF Free
  <2>2. HandleTypes'
    BY <2>1
  <2>3. StepsOfKind'
    BY <2>1 DEF StepsOfKind, StepOfKind
  <2>4. LockIsHeld'
    BY <2>1 DEF LockIsHeld, Holding
  <2>5. ClosesAlone'
    BY <2>1 DEF ClosesAlone, Closers
  <2>6. UsesTheSlot'
    BY <2>1 DEF UsesTheSlot, UsesSlot
  <2>7. SlotIsAlive'
    <3>1. CASE kind = "winhttp"
      BY <2>1, <3>1 DEF SlotIsAlive
    <3>2. CASE kind # "winhttp"
      <4>1. \A k \in MapKeys(kind) : slot[k] \in alive \cup {0} /\ slot[k] \notin closing[t]
        BY <3>2 DEF SlotIsAlive, ClosesItsOwn
      <4>2. QED
        BY <2>1, <4>1 DEF SlotIsAlive
    <3>3. QED
      BY <3>1, <3>2
  <2>8. ClosesItsOwn'
    <3>1. PICK h \in closing[t] : alive' = alive \ {h} /\ closing'[t] = closing[t] \ {h}
      BY <2>1
    <3>2. \A u \in Threads : u # t => h \notin closing[u]
      BY <3>1 DEF ClosesItsOwn
    <3>3. \A u \in Threads : closing'[u] \subseteq alive' /\ closing'[u] \subseteq closing[u]
      <4>1. \A u \in Threads : closing[u] \subseteq alive
        BY DEF ClosesItsOwn
      <4>2. closing'[t] \subseteq alive' /\ closing'[t] \subseteq closing[t]
        BY <3>1, <4>1
      <4>3. ASSUME NEW u \in Threads, u # t
            PROVE  closing'[u] \subseteq alive' /\ closing'[u] \subseteq closing[u]
        <5>1. closing'[u] = closing[u] /\ h \notin closing[u] /\ closing[u] \subseteq alive
          BY <2>1, <3>2, <4>1, <4>3
        <5>2. QED
          BY <3>1, <5>1
      <4>4. QED
        BY <4>2, <4>3
    <3>4. \A u \in Threads : closing'[u] # {} => closing[u] # {}
      BY <3>3
    <3>5. \A u, v \in Threads : u # v => closing'[u] \cap closing'[v] = {}
      BY <3>3 DEF ClosesItsOwn
    <3>6. kind = "winhttp" => \A u \in Threads : pc[u] = "free" => u = t
      BY <2>1 DEF ClosesAlone, Closers
    <3>7. kind = "winhttp" => alive' \subseteq closing'[t]
      BY <2>1, <3>1 DEF ClosesItsOwn
    <3>8. QED
      BY <2>1, <3>3, <3>4, <3>5, <3>6, <3>7 DEF ClosesItsOwn
  <2>9. NoneIsLost'
    BY <2>1 DEF NoneIsLost
  <2>10. Ends'
    BY <2>1 DEF Ends
  <2>11. QED
    BY <2>2, <2>3, <2>4, <2>5, <2>6, <2>7, <2>8, <2>9, <2>10
<1>6. CASE Closed(t)
  <2>1. /\ pc[t] = "free" /\ closing[t] = {} /\ pc'[t] = "returned" /\ pc' \in [Threads -> Steps]
        /\ result' \in [Threads -> Results] /\ result'[t] = "closed"
        /\ \A u \in Threads : u # t => pc'[u] = pc[u] /\ result'[u] = result[u]
        /\ slot' \in [MapKeys(kind) -> Handles \cup {0}]
        /\ \A k \in MapKeys(kind) : slot'[k] = IF kind = "winhttp" THEN 0 ELSE slot[k]
        /\ UNCHANGED <<kind, alive, lock, key, left, using, closing, arrays>>
    BY <1>6, Answers, <1>s DEF Closed
  <2>f. kind = "winhttp" =>
          /\ alive = {} /\ \A u \in Threads : using[u] = 0
          /\ \A u \in Threads : u # t => pc[u] \in {"idle", "returned"}
    <3>1. kind = "winhttp" => \A u \in Threads : u # t => pc[u] \in {"idle", "returned"}
      BY <2>1 DEF ClosesAlone, Closers
    <3>2. kind = "winhttp" => alive = {}
      BY <2>1 DEF ClosesItsOwn
    <3>3. QED
      BY <2>1, <3>1, <3>2 DEF UsesTheSlot, UsesSlot
  <2>2. HandleTypes'
    BY <2>1, <2>f
  <2>3. StepsOfKind'
    BY <2>1, <2>f DEF StepsOfKind, StepOfKind
  <2>4. LockIsHeld'
    BY <2>1, <2>f DEF LockIsHeld, Holding
  <2>5. ClosesAlone'
    BY <2>1, <2>f DEF ClosesAlone, Closers
  <2>6. UsesTheSlot'
    BY <2>1, <2>f, SMTT(40) DEF UsesTheSlot, UsesSlot
  <2>7. SlotIsAlive'
    <3>1. CASE kind = "winhttp"
      BY <2>1, <3>1 DEF SlotIsAlive
    <3>2. CASE kind # "winhttp"
      BY <2>1, <3>2 DEF SlotIsAlive
    <3>3. QED
      BY <3>1, <3>2
  <2>8. ClosesItsOwn'
    BY <2>1, <2>f DEF ClosesItsOwn
  <2>9. NoneIsLost'
    BY <2>1, <2>f DEF NoneIsLost
  <2>10. Ends'
    BY <2>1, <2>f DEF Ends
  <2>11. QED
    BY <2>2, <2>3, <2>4, <2>5, <2>6, <2>7, <2>8, <2>9, <2>10
<1>7. QED
  BY <1>1, <1>2, <1>3, <1>4, <1>5, <1>6

(* Nothing is made before the first lookup, but for WinHTTP's session. *)
LEMMA HandlesBegin ==
  ASSUME Init
  PROVE  HandleInv
<1>1. /\ "idle" \in Steps /\ "none" \in Results
  BY DEF Steps, Results
<1>2. PICK h \in IF kind = "winhttp" THEN {0, Min(Handles)} ELSE {0} :
        slot = [k \in MapKeys(kind) |-> h] /\ alive = {h} \ {0}
  BY DEF Init
<1>3. h \in Handles \cup {0}
  BY <1>2, LeastIsOne
<1>4. HandleTypes
  BY <1>1, <1>2, <1>3 DEF Init, HandleTypes, NoOne
<1>5. StepsOfKind /\ LockIsHeld /\ ClosesAlone
  BY DEF Init, StepsOfKind, StepOfKind, LockIsHeld, Holding, ClosesAlone, Closers, NoOne
<1>6. UsesTheSlot /\ ClosesItsOwn /\ Ends
  BY DEF Init, UsesTheSlot, UsesSlot, ClosesItsOwn, Ends
<1>7. SlotIsAlive
  BY <1>2 DEF SlotIsAlive
<1>8. NoneIsLost
  BY <1>2 DEF NoneIsLost, MapKeys, Keys
<1>9. QED
  BY <1>4, <1>5, <1>6, <1>7, <1>8 DEF HandleInv

(* Steps of the macOS lookup leave the handles alone. *)
LEMMA HandlesStay ==
  ASSUME HandleInv, UNCHANGED handleVars
  PROVE  HandleInv'
BY DEF handleVars, HandleInv, HandleTypes, StepsOfKind, StepOfKind, LockIsHeld, Holding,
       ClosesAlone, Closers, UsesTheSlot, UsesSlot, SlotIsAlive, ClosesItsOwn, NoneIsLost, Ends

(* A lookup on macOS owns exactly what the place it is at says, whatever     *)
(* CFNetwork and its callbacks answer.                                       *)
THEOREM MacInvariant == Spec => []MacInv
<1>1. Init => MacInv
  BY MacStarts DEF Init
<1>2. MacInv /\ [Next]_vars => MacInv'
  <2> SUFFICES ASSUME MacInv, [Next]_vars PROVE MacNext \/ UNCHANGED macVars
    BY MacStep
  <2>1. CASE UNCHANGED vars
    BY <2>1 DEF vars
  <2>2. ASSUME NEW t \in Threads, BeginLookup(t) \/ BeginClose(t) \/ Advance(t)
        PROVE  UNCHANGED macVars
    BY <2>2 DEF BeginLookup, BeginClose, Advance, Peek, Lock, UseMade, Make, MakeFails, Fetch,
                CallEnds, Retry, RetryEnds, ReadProxies, Return, Swap, CheckSession, Free, Closed
  <2>3. CASE MacLookup
    BY <2>3 DEF MacLookup
  <2>4. QED
    BY <2>1, <2>2, <2>3 DEF Next
<1>3. QED
  BY <1>1, <1>2, PTL DEF Spec

(* A macOS lookup answers with all that CFNetwork said, in its order, or has *)
(* no opinion (the docstrings of _resolve_proxies_for_url and                *)
(* CFNetworkProxyMap): never with the part of it before a PAC failed.        *)
THEOREM MacAnswersWhole == Spec => []WholeOrNoOpinion
<1>1. MacInv => WholeOrNoOpinion
  BY DEF MacInv, SaysAll
<1>2. QED
  BY <1>1, MacInvariant, PTL

(* Where the handles of the other maps are, at every step of every thread.   *)
THEOREM HandleInvariant ==
  ASSUME OnlyLibproxyClosesAnytime
  PROVE  Spec => []HandleInv
<1>1. Init => HandleInv
  BY HandlesBegin
<1>2. HandleInv /\ [Next]_vars => HandleInv'
  <2> SUFFICES ASSUME HandleInv, [Next]_vars PROVE HandleInv'
    OBVIOUS
  <2>1. CASE UNCHANGED vars
    BY <2>1, HandlesStay DEF vars
  <2>2. ASSUME NEW t \in Threads, BeginLookup(t) \/ BeginClose(t) \/ Advance(t)
        PROVE  HandleInv'
    BY <2>2, LooksUp, HandlesChange DEF Advance
  <2>3. CASE MacLookup
    BY <2>3, HandlesStay DEF MacLookup
  <2>4. QED
    BY <2>1, <2>2, <2>3 DEF Next
<1>3. QED
  BY <1>1, <1>2, PTL DEF Spec

(* No call is given a freed handle, none is freed twice, and a lookup that   *)
(* found a PAC asks it, however lookups overlap each other and, on libproxy, *)
(* a close().                                                                *)
THEOREM CallsUseLiveHandles ==
  ASSUME OnlyLibproxyClosesAnytime
  PROVE  Spec => []UsesLiveHandles
<1>1. HandleInv /\ MacInv => UsesLiveHandles
  <2> SUFFICES ASSUME HandleInv, MacInv PROVE UsesLiveHandles
    OBVIOUS
  <2>1. ASSUME NEW t \in Threads, using[t] # 0 PROVE using[t] \in alive
    <3>1. /\ pc[t] \in {"call", "call2"}
          /\ \E k \in MapKeys(kind) : slot[k] = using[t]
      BY <2>1 DEF HandleInv, UsesTheSlot, UsesSlot
    <3>2. kind = "winhttp" => \A u \in Threads : pc[u] # "free"
      BY <3>1 DEF HandleInv, ClosesAlone, Closers
    <3>3. QED
      BY <2>1, <3>1, <3>2 DEF HandleInv, SlotIsAlive
  <2>2. mpc = "array" => owned["array"] > 0
    BY DEF MacInv, MacType, OwnsWhatItHolds, Holds, Objects
  <2>3. QED
    BY <2>1, <2>2 DEF UsesLiveHandles, HandleInv, ClosesItsOwn, Ends
<1>2. QED
  BY <1>1, MacInvariant, HandleInvariant, PTL

(* Every handle is in the map, about to be freed, or gone, and between       *)
(* lookups CoreFoundation is owed nothing, whichever call a lookup ended at. *)
THEOREM NoHandleLeaks ==
  ASSUME OnlyLibproxyClosesAnytime
  PROVE  Spec => []NothingLeaks
<1>1. HandleInv /\ MacInv => NothingLeaks
  <2> SUFFICES ASSUME HandleInv, MacInv PROVE NothingLeaks
    OBVIOUS
  <2>1. alive \subseteq Range(slot) \cup UNION Range(closing)
    <3> SUFFICES ASSUME NEW h \in alive, h \notin Range(slot)
                 PROVE  \E S \in Range(closing) : h \in S
      OBVIOUS
    <3>1. \A k \in MapKeys(kind) : slot[k] # h
      BY DEF HandleInv, HandleTypes, Range
    <3>2. PICK t \in Threads : h \in closing[t]
      BY <3>1 DEF HandleInv, NoneIsLost
    <3>3. closing[t] \in Range(closing)
      BY DEF HandleInv, HandleTypes, Range
    <3>4. QED
      BY <3>2, <3>3
  <2>2. mpc \in {"idle", "returned"} => \A o \in Objects : owned[o] = 0
    BY DEF MacInv, OwnsWhatItHolds, Holds
  <2>3. QED
    BY <2>1, <2>2 DEF NothingLeaks, HandleInv, Ends
<1>2. QED
  BY <1>1, MacInvariant, HandleInvariant, PTL

-----------------------------------------------------------------------------
(* The settings of a POSIX desktop.                                        *)

(* What the desktops' constants are assumed to be.                           *)
DesktopConstants == TimeAssumption /\ SettingsAssumption /\ ConnectionsAssumption

Listings ==
  UNION {[S -> [mode : STRING, url : BOOLEAN] \cup BOOLEAN] : S \in SUBSET ListedKeys}

(* What a schema's settings hold for a key, and a listing that says so.      *)
Value(s, x) == IF x = "base" THEN [mode |-> settings[s].mode, url |-> settings[s].url]
                             ELSE settings[s].host[x]
Tells(listing, s, k) ==
    IF settings[s].mode = "missing" THEN DOMAIN listing = {}
    ELSE k \in DOMAIN listing /\ \A x \in DOMAIN listing : listing[x] = Value(s, x)

(* A lifetime and a run: the most that one merge adds to a listing's age.    *)
Term == TTL + RunTime
Since(t, lag) == changes + failures = 0 \/ t - disturbed > lag
Quiet == Since(began, Lag - 1)

(* Every listing of a schema's own keys is the whole of it: none is merged.  *)
Whole == deep /\ failures = 0 /\ Installed
Merges(k, listing) ==
    IF Whole \/ k # "base" THEN 0 ELSE Cardinality(DOMAIN listing \ {"base"})

(* When what answers the reader was asked for.                               *)
Asked == IF dpc \in {"runBase", "runChild"} THEN out.began ELSE now

Reading == dpc \notin {"idle", "returned"}

WorldInv ==
    /\ now \in Nat /\ changes \in Nat /\ failures \in Nat /\ disturbed \in 0 .. now
    /\ settings \in [Range(Schemas) -> InitialSettings \cup LaterSettings]
    /\ deep \in BOOLEAN
    /\ \E e \in Elsewhere : kde = e.kde /\ nm = e.nm

(* The reader is somewhere, and what it holds are listings.                  *)
PlaceInv ==
    /\ dpc \in {"idle", "base", "child", "runBase", "runChild", "have", "returned"}
    /\ began \in 0 .. now /\ values \in Listings /\ found \in BOOLEAN
    /\ Reading => at \in [schema : 1 .. Len(Schemas), key : -1 .. Len(Children) + 1]
    /\ dpc \in {"child", "runChild"} =>
         at.key \in 1 .. Len(Children) /\ Owner \notin DOMAIN values
    /\ ~Reading => ~found
    /\ dpc = "idle" => first = NoConfig

(* An entry that was stored, and last restamped, long enough after the last  *)
(* disturbance says what the settings say: each merge costs it a term.       *)
Formed(c) ==
    /\ c \subseteq [of : Range(Schemas) \X ListedKeys, stamp : Nat, values : Listings]
    /\ \A e, f \in c : e.of = f.of => e = f
    /\ \A e \in c : e.stamp <= now /\ (e.of[2] # "base" => DOMAIN e.values \subseteq {e.of[2]})
Sound(c) ==
    /\ Formed(c)
    /\ \A e \in c : Since(e.stamp, Merges(e.of[2], e.values) * Term + RunTime) =>
                      Tells(e.values, e.of[1], e.of[2])
CacheInv == Sound(cache)

(* The program under way says what the settings say unless they changed      *)
(* since it began.                                                           *)
RunInv ==
    dpc \in {"runBase", "runChild"} =>
      /\ out \in [listing : Listings, began : began .. now] /\ now - out.began <= RunTime
      /\ Wanted # "base" => DOMAIN out.listing \subseteq {Wanted}
      /\ Since(out.began, 0) => Tells(out.listing, Schema, Wanted)

(* The parent's listing that waits for a child's is what an entry of it was, *)
(* one lifetime later.                                                       *)
ParentInv ==
    /\ dpc \in {"child", "runChild"}
    /\ Since(Asked, (Merges("base", values) + 1) * Term - 1)
    => Tells(values, Schema, "base")

(* What answers a key, once all is quiet.                                    *)
HaveInv ==
    dpc = "have" /\ Quiet =>
      /\ Tells(values, Schema, "base")
      /\ settings[Schema].mode # "missing" => Owner \in DOMAIN values

(* When listings are whole they are so throughout: a schema found is         *)
(* installed, and no child is listed.                                        *)
WholeInv ==
    Whole =>
      /\ dpc \notin {"child", "runChild"}
      /\ \A e \in cache : /\ e.of[2] = "base" /\ DOMAIN e.values \in {{}, ListedKeys}
                          /\ DOMAIN e.values = ListedKeys => settings[e.of[1]].mode # "missing"
      /\ dpc = "runBase" => /\ DOMAIN out.listing \in {{}, ListedKeys}
                            /\ DOMAIN out.listing = ListedKeys => settings[Schema].mode # "missing"
      /\ dpc = "have" => DOMAIN values \in {{}, ListedKeys}
      /\ Reading /\ (at.key # 0 \/ (dpc = "have" /\ DOMAIN values = ListedKeys)) =>
           /\ settings[Schema].mode # "missing"
           /\ \A e \in cache : e.of = <<Schema, "base">> => DOMAIN e.values = ListedKeys
           /\ dpc = "runBase" => DOMAIN out.listing = ListedKeys
           /\ dpc = "have" => DOMAIN values = ListedKeys

(* What the reader found out of the schemas and the keys it has read.        *)
FirstIs(c, n) ==
    \/ c = NoConfig /\ \A i \in 1 .. n : GConfig(Schemas[i]) = NoConfig
    \/ \E i \in 1 .. n : /\ c = GConfig(Schemas[i]) /\ c.state = "direct"
                         /\ \A j \in 1 .. i - 1 : GConfig(Schemas[j]) = NoConfig
ReaderInv ==
    Reading /\ Quiet =>
      /\ \A i \in 1 .. at.schema - 1 : GConfig(Schemas[i]).state # "configured"
      /\ FirstIs(first, at.schema - 1)
      /\ at.key = -1 => settings[Schema].mode = "auto"
      /\ at.key >= 1 => settings[Schema].mode = "manual"
      /\ (found <=> \E i \in 1 .. at.key - 1 : settings[Schema].host[Children[i]])

DesktopInv ==
    WorldInv /\ PlaceInv /\ CacheInv /\ RunInv /\ ParentInv /\ HaveInv /\ WholeInv /\ ReaderInv
    /\ SettledIsRight

(* A listing that may answer now: one it could not give after that long a     *)
(* quiet unless it were right.                                               *)
Good(listing) ==
    /\ listing \in Listings
    /\ Wanted # "base" => DOMAIN listing \subseteq {Wanted}
    /\ Since(now, (Merges(Wanted, listing) + 1) * Term - 1) => Tells(listing, Schema, Wanted)

(* What a listing holds: keys, and their values; the empty one is one.       *)
LEMMA ListingHolds ==
    ASSUME NEW v \in Listings
    PROVE  /\ DOMAIN v \subseteq ListedKeys
           /\ DOMAIN v = {} => v = NoKeys
           /\ \A x \in DOMAIN v : v[x] \in [mode : STRING, url : BOOLEAN] \cup BOOLEAN
  BY DEF Listings, NoKeys

(* The empty listing is a listing.                                           *)
LEMMA NoKeysIsOne == NoKeys \in Listings /\ DOMAIN NoKeys = {}
<1>1. NoKeys \in [{} -> [mode : STRING, url : BOOLEAN] \cup BOOLEAN]
  BY DEF NoKeys
<1>2. QED
  BY <1>1 DEF Listings, NoKeys

(* A listing laid over another.                                              *)
LEMMA Overlaid ==
    ASSUME NEW v \in Listings, NEW w \in Listings
    PROVE  /\ Over(v, w) \in Listings /\ DOMAIN Over(v, w) = DOMAIN v \cup DOMAIN w
           /\ \A x \in DOMAIN Over(v, w) : Over(v, w)[x] = IF x \in DOMAIN v THEN v[x] ELSE w[x]
           /\ DOMAIN v = {} => Over(v, w) = w
           /\ DOMAIN w = {} => Over(v, w) = v
<1> DEFINE S == DOMAIN v \cup DOMAIN w
           Things == [mode : STRING, url : BOOLEAN] \cup BOOLEAN
<1>1. /\ DOMAIN v \subseteq ListedKeys /\ \A x \in DOMAIN v : v[x] \in Things
      /\ DOMAIN w \subseteq ListedKeys /\ \A x \in DOMAIN w : w[x] \in Things
  BY ListingHolds
<1>2. Over(v, w) = [x \in S |-> IF x \in DOMAIN v THEN v[x] ELSE w[x]]
  BY DEF Over
<1>3. Over(v, w) \in [S -> Things]
  BY <1>1, <1>2
<1>4. Over(v, w) \in Listings
  BY <1>1, <1>3 DEF Listings
<1>5. v = [x \in DOMAIN v |-> v[x]] /\ w = [x \in DOMAIN w |-> w[x]]
  BY DEF Listings
<1>6. ASSUME DOMAIN v = {} PROVE Over(v, w) = w
  BY <1>2, <1>5, <1>6
<1>7. ASSUME DOMAIN w = {} PROVE Over(v, w) = v
  BY <1>2, <1>5, <1>7
<1>8. QED
  BY <1>2, <1>4, <1>6, <1>7

(* The names of the children, and that of the base.                          *)
LEMMA Names ==
    ASSUME DesktopConstants
    PROVE  /\ "base" \in ListedKeys /\ "base" \notin Range(Children)
           /\ \A i \in 1 .. Len(Children) : Children[i] \in Range(Children)
           /\ \A c \in Range(Children) : c \in ListedKeys /\ c # "base"
           /\ \A i \in 1 .. Len(Schemas) : Schemas[i] \in Range(Schemas)
           /\ Len(Schemas) \in Nat /\ Len(Schemas) >= 1 /\ Len(Children) \in Nat
           /\ Range(Children) = {Children[i] : i \in 1 .. Len(Children)}
<1>1. Schemas \in Seq(STRING) /\ Schemas # <<>> /\ Children \in Seq(STRING \ {"base"})
  BY DEF DesktopConstants, SettingsAssumption
<1>2. /\ Len(Schemas) \in Nat /\ DOMAIN Schemas = 1 .. Len(Schemas)
      /\ Len(Children) \in Nat /\ DOMAIN Children = 1 .. Len(Children)
  BY <1>1, LenProperties
<1>3. Len(Schemas) >= 1
  BY <1>1, <1>2, EmptySeq
<1>4. \A i \in 1 .. Len(Children) : Children[i] \in STRING \ {"base"}
  BY <1>1, ElementOfSeq
<1>5. Range(Children) = {Children[i] : i \in 1 .. Len(Children)}
  BY <1>2 DEF Range
<1>6. \A i \in 1 .. Len(Schemas) : Schemas[i] \in Range(Schemas)
  BY <1>2 DEF Range
<1>7. \A c \in Range(Children) : c \in ListedKeys /\ c # "base"
  BY <1>4, <1>5 DEF ListedKeys
<1>8. QED
  BY <1>2, <1>3, <1>5, <1>6, <1>7 DEF ListedKeys

(* There are no more children than the sequence is long.                     *)
LEMMA FewChildren ==
    ASSUME DesktopConstants
    PROVE  IsFiniteSet(Range(Children)) /\ Cardinality(Range(Children)) <= Len(Children)
<1> DEFINE n == Len(Children)
           S == 1 .. n
<1>1. n \in Nat /\ DOMAIN Children = S
  BY LenProperties DEF DesktopConstants, SettingsAssumption
<1>2. Children \in Surjection(S, Range(Children))
  <2>1. Children \in [S -> STRING \ {"base"}]
    BY LenProperties DEF DesktopConstants, SettingsAssumption
  <2>2. Children \in [S -> Range(Children)]
    BY <2>1, Names
  <2>3. QED
    BY <2>2, Names DEF Surjection
<1> HIDE DEF n
<1>3. IsFiniteSet(S) /\ Cardinality(S) = n
  BY <1>1, FS_Interval
<1> HIDE DEF S
<1>4. IsFiniteSet(Range(Children)) /\ Cardinality(Range(Children)) <= Cardinality(S)
  BY <1>2, <1>3, FS_Surjection
<1>5. QED
  BY <1>3, <1>4 DEF n

(* A listing is merged from no more children than there are.                 *)
LEMMA Counts ==
    ASSUME DesktopConstants, NEW v \in Listings, NEW k
    PROVE  /\ IsFiniteSet(DOMAIN v \ {"base"})
           /\ Cardinality(DOMAIN v \ {"base"}) \in 0 .. Len(Children)
           /\ Merges(k, v) \in 0 .. Len(Children)
<1>1. DOMAIN v \ {"base"} \subseteq Range(Children)
  BY ListingHolds DEF ListedKeys
<1>2. /\ IsFiniteSet(DOMAIN v \ {"base"})
      /\ Cardinality(DOMAIN v \ {"base"}) <= Cardinality(Range(Children))
  BY <1>1, FewChildren, FS_Subset
<1>3. Cardinality(DOMAIN v \ {"base"}) \in Nat /\ Cardinality(Range(Children)) \in Nat
  BY <1>2, FewChildren, FS_CardinalityType
<1>4. QED
  BY <1>2, <1>3, FewChildren, Names DEF Merges

(* A child laid over a listing without it is one merge more.                 *)
LEMMA OneMore ==
    ASSUME DesktopConstants, NEW v \in Listings, NEW w \in Listings, NEW c \in Range(Children),
           DOMAIN w = {c}, c \notin DOMAIN v, ~Whole
    PROVE  Merges("base", Over(w, v)) = Merges("base", v) + 1
<1>1. DOMAIN Over(w, v) \ {"base"} = (DOMAIN v \ {"base"}) \cup {c}
  <2>1. DOMAIN Over(w, v) = DOMAIN w \cup DOMAIN v /\ c # "base"
    BY Overlaid, Names
  <2>2. QED
    BY <2>1
<1>2. Cardinality((DOMAIN v \ {"base"}) \cup {c}) = Cardinality(DOMAIN v \ {"base"}) + 1
  BY Counts, FS_AddElement
<1>3. QED
  BY <1>1, <1>2 DEF Merges

(* The lag outlasts every listing.                                           *)
LEMMA LagOutlasts ==
    ASSUME DesktopConstants, NEW v \in Listings, NEW k
    PROVE  /\ Term \in Nat /\ Term >= 1 /\ Lag \in Nat /\ Lag >= Term
           /\ Merges(k, v) * Term \in Nat
           /\ (Merges(k, v) + 1) * Term = Merges(k, v) * Term + Term
           /\ Lag >= Merges(k, v) * Term + Term
<1> DEFINE m == Merges(k, v)
           n == Len(Children)
<1>1. Term \in Nat /\ Term >= 1 /\ n \in Nat
  BY Names DEF Term, DesktopConstants, TimeAssumption
<1>2. m \in 0 .. n /\ (Whole => m = 0)
  BY Counts DEF Merges
<1>3. Lag = IF Whole THEN Term ELSE (n + 1) * Term
  BY DEF Lag, Whole, Term, n
<1> HIDE DEF m, n
<1>4. m * Term \in Nat /\ (m + 1) * Term = m * Term + Term
  BY <1>1, <1>2
<1>5. (n + 1) * Term = (m + 1) * Term + (n - m) * Term /\ (n - m) * Term \in Nat
  BY <1>1, <1>2
<1>6. Lag \in Nat /\ Lag >= m * Term + Term
  BY <1>1, <1>2, <1>3, <1>4, <1>5
<1>7. QED
  BY <1>1, <1>4, <1>6 DEF m

(* As long as the world is as it was, everything said of it stays true.      *)
LEMMA Steady ==
    ASSUME UNCHANGED <<changes, failures, disturbed, settings, deep>>
    PROVE  /\ \A t, l : Since(t, l)' = Since(t, l)
           /\ \A v, s, k : Tells(v, s, k)' = Tells(v, s, k)
           /\ \A k, v : Merges(k, v)' = Merges(k, v)
           /\ now' = now => \A c : Sound(c)' = Sound(c)
           /\ \A s : GConfig(s)' = GConfig(s)
           /\ \A c, n : FirstIs(c, n)' = FirstIs(c, n)
           /\ Whole' = Whole /\ Lag' = Lag
<1>1. Whole' = Whole /\ Lag' = Lag
  BY DEF Whole, Lag
<1>2. \A t, l : Since(t, l)' = Since(t, l)
  BY DEF Since
<1>3. \A v, s, k : Tells(v, s, k)' = Tells(v, s, k)
  BY DEF Tells, Value
<1>4. \A k, v : Merges(k, v)' = Merges(k, v)
  BY <1>1 DEF Merges
<1>5. ASSUME now' = now PROVE \A c : Sound(c)' = Sound(c)
  BY <1>2, <1>3, <1>4, <1>5 DEF Sound, Formed
<1>6. \A s : GConfig(s)' = GConfig(s)
  BY DEF GConfig
<1>7. \A c, n : FirstIs(c, n)' = FirstIs(c, n)
  BY <1>6 DEF FirstIs
<1>8. QED
  BY <1>1, <1>2, <1>3, <1>4, <1>5, <1>6, <1>7

(* A quiet that long then is a quiet longer now.                             *)
LEMMA SinceThen ==
    ASSUME WorldInv, NEW t \in Int, NEW l \in Int, NEW u \in Int, NEW m \in Int,
           Since(t, l), u - m >= t - l
    PROVE  Since(u, m)
  BY DEF Since, WorldInv

(* What the reader wants is a key of a schema.                               *)
LEMMA Places ==
    ASSUME DesktopConstants, PlaceInv, Reading
    PROVE  /\ Schema \in Range(Schemas) /\ Owner \in ListedKeys /\ Wanted \in ListedKeys
           /\ Owner # "base" => at.key \in 1 .. Len(Children) /\ Owner \in Range(Children)
           /\ dpc \in {"child", "runChild"} =>
                Wanted = Owner /\ Owner \in Range(Children) /\ Owner # "base"
           /\ dpc \in {"base", "runBase"} => Wanted = "base"
           /\ at.key \in Int /\ at.schema \in 1 .. Len(Schemas)
  BY Names DEF PlaceInv, Schema, Owner, Wanted

(* A listing of the cache that is fresh is good.                             *)
LEMMA CachedIsGood ==
    ASSUME DesktopConstants, WorldInv, PlaceInv, CacheInv, dpc \in {"base", "child"}, NEW e \in Fresh
    PROVE  e \in cache /\ e.of = <<Schema, Wanted>> /\ Good(e.values)
<1>1. e \in cache /\ e.of = <<Schema, Wanted>> /\ now - e.stamp < TTL
  BY DEF Fresh, Stored
<1>2. /\ e.stamp \in Nat /\ e.stamp <= now /\ e.values \in Listings
      /\ e.of[1] = Schema /\ e.of[2] = Wanted
      /\ Wanted # "base" => DOMAIN e.values \subseteq {Wanted}
      /\ Since(e.stamp, Merges(Wanted, e.values) * Term + RunTime) =>
           Tells(e.values, Schema, Wanted)
  BY <1>1 DEF CacheInv, Sound, Formed
<1> DEFINE m == Merges(Wanted, e.values)
<1>3. m * Term \in Nat /\ (m + 1) * Term = m * Term + Term
  BY <1>2, LagOutlasts
<1>4. TTL \in Nat /\ RunTime \in Nat /\ Term = TTL + RunTime /\ now \in Nat
  BY DEF WorldInv, Term, DesktopConstants, TimeAssumption
<1> HIDE DEF m
<1>5. ASSUME Since(now, (m + 1) * Term - 1) PROVE Since(e.stamp, m * Term + RunTime)
  BY <1>1, <1>2, <1>3, <1>4, <1>5, SinceThen
<1>6. QED
  BY <1>1, <1>2, <1>5 DEF Good, m

(* A listing that the program has read is good, and may be stored.           *)
LEMMA RunIsGood ==
    ASSUME DesktopConstants, WorldInv, PlaceInv, RunInv, dpc \in {"runBase", "runChild"}
    PROVE  /\ Good(out.listing)
           /\ Since(now, Merges(Wanted, out.listing) * Term + RunTime) =>
                Tells(out.listing, Schema, Wanted)
<1>1. /\ out.listing \in Listings /\ out.began \in Nat /\ now - out.began <= RunTime
      /\ Wanted # "base" => DOMAIN out.listing \subseteq {Wanted}
      /\ Since(out.began, 0) => Tells(out.listing, Schema, Wanted)
  BY DEF RunInv, PlaceInv, WorldInv
<1> DEFINE m == Merges(Wanted, out.listing)
<1>2. m * Term \in Nat /\ (m + 1) * Term = m * Term + Term
  BY <1>1, LagOutlasts
<1>3. TTL \in Nat \ {0} /\ RunTime \in Nat /\ Term = TTL + RunTime /\ now \in Nat
  BY DEF WorldInv, Term, DesktopConstants, TimeAssumption
<1> HIDE DEF m
<1>4. ASSUME NEW l \in Int, l >= RunTime, Since(now, l) PROVE Since(out.began, 0)
  BY <1>1, <1>3, <1>4, SinceThen
<1>5. /\ (m + 1) * Term - 1 \in Int /\ (m + 1) * Term - 1 >= RunTime
      /\ m * Term + RunTime \in Int /\ m * Term + RunTime >= RunTime
  BY <1>2, <1>3
<1>6. QED
  BY <1>1, <1>4, <1>5 DEF Good, m

(* A stored listing keeps one entry to a schema and key.                     *)
LEMMA PutIsFormed ==
    ASSUME DesktopConstants, WorldInv, NEW c, Formed(c), NEW s \in Range(Schemas), NEW k \in ListedKeys,
           NEW v \in Listings, k # "base" => DOMAIN v \subseteq {k}
    PROVE  Formed(Put(c, s, k, v))
<1> DEFINE new == [of |-> <<s, k>>, stamp |-> now, values |-> v]
<1>1. /\ new \in [of : Range(Schemas) \X ListedKeys, stamp : Nat, values : Listings]
      /\ new.of = <<s, k>> /\ new.of[2] = k /\ new.stamp = now /\ new.values = v
  BY DEF WorldInv
<1> HIDE DEF new
<1>2. Put(c, s, k, v) = {e \in c : e.of # <<s, k>>} \cup {new}
  BY DEF Put, new
<1>3. now <= now
  BY DEF WorldInv
<1>4. QED
  BY <1>1, <1>2, <1>3 DEF Formed

(* A stored listing that may be stored keeps the cache sound.                *)
LEMMA PutIsSound ==
    ASSUME DesktopConstants, WorldInv, NEW c, Sound(c), NEW s \in Range(Schemas), NEW k \in ListedKeys,
           NEW v \in Listings, k # "base" => DOMAIN v \subseteq {k},
           Since(now, Merges(k, v) * Term + RunTime) => Tells(v, s, k)
    PROVE  Sound(Put(c, s, k, v))
<1> DEFINE new == [of |-> <<s, k>>, stamp |-> now, values |-> v]
<1>1. new.of[1] = s /\ new.of[2] = k /\ new.stamp = now /\ new.values = v
  OBVIOUS
<1> HIDE DEF new
<1>2. Put(c, s, k, v) = {e \in c : e.of # <<s, k>>} \cup {new}
  BY DEF Put, new
<1>3. Formed(Put(c, s, k, v))
  BY PutIsFormed DEF Sound
<1>4. QED
  BY <1>1, <1>2, <1>3 DEF Sound

(* What the reader goes on with, having taken a good listing.                *)
LEMMA Taken ==
    ASSUME DesktopConstants, WorldInv, PlaceInv, ParentInv, RunInv, WholeInv,
           dpc \in {"base", "child", "runBase", "runChild"},
           NEW listing, Good(listing), NEW c, Sound(c), Take(listing, c), UNCHANGED at
    PROVE  /\ values' \in Listings /\ Sound(cache')
           /\ Owner' = Owner /\ Schema' = Schema
           /\ dpc' \in {"child", "have"}
           /\ dpc' = "child" =>
                 /\ Owner # "base" /\ Owner \notin DOMAIN values'
                 /\ Since(now, (Merges("base", values') + 1) * Term - 1) =>
                      Tells(values', Schema, "base")
           /\ dpc' = "have" /\ Quiet =>
                 /\ Tells(values', Schema, "base")
                 /\ settings[Schema].mode # "missing" => Owner \in DOMAIN values'
<1> USE DEF Take
<1>1. Reading
  BY DEF Reading
<1>2. listing \in Listings /\ values \in Listings /\ NoKeys \in Listings /\ DOMAIN NoKeys = {}
  BY NoKeysIsOne DEF Good, PlaceInv
<1>3. Owner' = Owner /\ Schema' = Schema
  BY DEF Owner, Schema
<1>4. /\ now \in Nat /\ began \in 0 .. now /\ Asked \in began .. now /\ now - Asked <= RunTime
      /\ TTL \in Nat \ {0} /\ RunTime \in Nat /\ Term = TTL + RunTime /\ "base" \in ListedKeys
  <2>1. /\ now \in Nat /\ began \in 0 .. now /\ "base" \in ListedKeys
        /\ TTL \in Nat \ {0} /\ RunTime \in Nat /\ Term = TTL + RunTime
    BY Names DEF WorldInv, PlaceInv, Term, DesktopConstants, TimeAssumption
  <2>2. dpc \in {"runBase", "runChild"} => out.began \in began .. now /\ now - out.began <= RunTime
    BY DEF RunInv
  <2>3. QED
    BY <2>1, <2>2 DEF Asked
<1>5. CASE dpc \in {"base", "runBase"}
  <2>1. Wanted = "base" /\ values' = listing /\ cache' = c
    BY <1>1, <1>2, <1>5, Places, Overlaid
  <2>2. Since(now, (Merges("base", listing) + 1) * Term - 1) => Tells(listing, Schema, "base")
    BY <2>1 DEF Good
  <2> DEFINE n == (Merges("base", listing) + 1) * Term
  <2>3. ASSUME Quiet PROVE Since(now, n - 1)
    <3>1. Lag \in Nat /\ n \in Nat /\ Lag >= n
      BY <1>2, <1>4, LagOutlasts
    <3> HIDE DEF n
    <3>2. Since(began, Lag - 1) /\ Lag - 1 \in Int /\ n - 1 \in Int
          /\ now - (n - 1) >= began - (Lag - 1)
      BY <1>4, <2>3, <3>1 DEF Quiet
    <3>3. QED
      BY <1>4, <3>2, SinceThen
  <2>4. ASSUME dpc' = "have", Tells(listing, Schema, "base"), settings[Schema].mode # "missing"
        PROVE  Owner \in DOMAIN values'
    BY <2>1, <2>4 DEF Tells
  <2>5. QED
    BY <1>2, <1>3, <2>1, <2>2, <2>3, <2>4
<1>6. CASE dpc \in {"child", "runChild"}
  <2>1. Wanted = Owner /\ Owner \in Range(Children) /\ Owner # "base" /\ Owner \in ListedKeys
    BY <1>1, <1>6, Places
  <2>2. values' = Over(listing, values) /\ dpc' = "have" /\ values' \in Listings
        /\ DOMAIN values' = DOMAIN listing \cup DOMAIN values
        /\ \A x \in DOMAIN values' : values'[x] = IF x \in DOMAIN listing THEN listing[x] ELSE values[x]
    <3>1. values' = Over(listing, values) /\ dpc' = "have"
      BY <1>6, <2>1
    <3> DEFINE v == Over(listing, values)
    <3>2. /\ v \in Listings /\ DOMAIN v = DOMAIN listing \cup DOMAIN values
          /\ \A x \in DOMAIN v : v[x] = IF x \in DOMAIN listing THEN listing[x] ELSE values[x]
      BY <1>2, Overlaid
    <3> HIDE DEF v
    <3>3. values' = v
      BY <3>1 DEF v
    <3>4. QED
      BY <3>1, <3>2, <3>3 DEF v
  <2>3. /\ DOMAIN listing \subseteq {Owner} /\ Owner \notin DOMAIN values
        /\ Since(Asked, (Merges("base", values) + 1) * Term - 1) => Tells(values, Schema, "base")
        /\ Since(now, Term - 1) => Tells(listing, Schema, Owner)
    <3>1. Merges(Owner, listing) = 0
      BY <2>1 DEF Merges
    <3>2. (Merges(Owner, listing) + 1) * Term = Term
      BY <3>1, <1>4
    <3>3. QED
      BY <1>6, <2>1, <3>2 DEF Good, PlaceInv, ParentInv
  <2>4. ASSUME Tells(listing, Schema, Owner), Tells(values, Schema, "base")
        PROVE  /\ Tells(values', Schema, "base")
               /\ settings[Schema].mode # "missing" => Owner \in DOMAIN values'
    BY <2>2, <2>4 DEF Tells
  <2> DEFINE m == Merges("base", values)
             l == (m + 1) * Term
  <2>5. l \in Nat /\ l >= Term /\ Lag \in Nat /\ Lag >= l
    BY <1>2, <1>4, LagOutlasts
  <2> HIDE DEF l
  <2>6. ASSUME NEW t \in Int, NEW k \in Int, Since(t, k), Asked - l + 1 >= t - k, now - Term + 1 >= t - k
        PROVE  Tells(listing, Schema, Owner) /\ Tells(values, Schema, "base")
    <3>1. Asked \in Int /\ now \in Int /\ l - 1 \in Int /\ Term - 1 \in Int
      BY <1>4, <2>5
    <3>2. Since(Asked, l - 1) /\ Since(now, Term - 1)
      BY <1>4, <2>5, <2>6, <3>1, SinceThen
    <3>3. QED
      BY <2>3, <3>2 DEF l
  <2>7. ASSUME Quiet PROVE Tells(listing, Schema, Owner) /\ Tells(values, Schema, "base")
    <3>1. Since(began, Lag - 1)
      BY <2>7 DEF Quiet
    <3>2. QED
      BY <1>4, <2>5, <2>6, <3>1
  <2>8. Sound(cache')
    <3>1. CASE listing = NoKeys
      BY <3>1, <2>1
    <3>2. CASE listing # NoKeys
      <4>1. cache' = Put(c, Schema, "base", values') /\ DOMAIN listing = {Owner}
        BY <1>2, <2>1, <2>3, <3>2, ListingHolds
      <4>2. ASSUME Since(now, Merges("base", values') * Term + RunTime)
            PROVE  Tells(values', Schema, "base")
        <5>1. CASE Whole
          BY <1>6, <5>1 DEF WholeInv
        <5>2. CASE ~Whole
          <6>1. Merges("base", values') * Term = l
            BY <1>2, <2>1, <2>2, <2>3, <4>1, <5>2, OneMore DEF l
          <6>2. Since(now, l + RunTime)
            BY <4>2, <6>1
          <6>3. QED
            BY <1>4, <2>4, <2>5, <2>6, <6>2
        <5>3. QED
          BY <5>1, <5>2
      <4>3. Schema \in Range(Schemas)
        BY <1>1, Places
      <4>4. QED
        BY <1>4, <2>2, <4>1, <4>2, <4>3, PutIsSound
    <3>3. QED
      BY <3>1, <3>2
  <2>9. QED
    BY <1>3, <2>2, <2>4, <2>7, <2>8
<1>7. QED
  BY <1>5, <1>6

(* The reader takes a good listing and goes on.                              *)
LEMMA TakenKeeps ==
    ASSUME DesktopConstants, DesktopInv, dpc \in {"base", "child", "runBase", "runChild"},
           NEW listing, Good(listing), NEW c, Sound(c), Take(listing, c),
           UNCHANGED <<world, at, gathered>>, WholeInv'
    PROVE  DesktopInv'
<1>1. WorldInv /\ PlaceInv /\ ParentInv /\ RunInv /\ WholeInv /\ ReaderInv
  BY DEF DesktopInv
<1>2. UNCHANGED <<now, changes, failures, disturbed, settings, deep, kde, nm, at, found, first, began,
                  desktopResult>>
  BY DEF world, gathered
<1>3. /\ values' \in Listings /\ Sound(cache')
      /\ Owner' = Owner /\ Schema' = Schema
      /\ dpc' \in {"child", "have"}
      /\ dpc' = "child" =>
            /\ Owner # "base" /\ Owner \notin DOMAIN values'
            /\ Since(now, (Merges("base", values') + 1) * Term - 1) => Tells(values', Schema, "base")
      /\ dpc' = "have" /\ Quiet =>
            /\ Tells(values', Schema, "base")
            /\ settings[Schema].mode # "missing" => Owner \in DOMAIN values'
  BY <1>1, <1>2, Taken
<1>4. Reading /\ Reading'
  BY <1>3 DEF Reading
<1>5. WorldInv'
  BY <1>1, <1>2 DEF WorldInv
<1>6. PlaceInv'
  <2>1. Owner # "base" => at.key \in 1 .. Len(Children)
    BY <1>1, <1>4, Places
  <2>2. QED
    BY <1>1, <1>2, <1>3, <1>4, <2>1 DEF PlaceInv
<1>7. CacheInv'
  BY <1>2, <1>3, Steady DEF CacheInv
<1>8. RunInv'
  BY <1>3 DEF RunInv
<1>9. ParentInv'
  <2>1. dpc' = "child" => Asked' = now
    BY <1>2 DEF Asked
  <2>2. QED
    BY <1>2, <1>3, <2>1, Steady DEF ParentInv, Term
<1>10. Quiet' = Quiet
  BY <1>2, Steady DEF Quiet
<1>11. HaveInv'
  BY <1>2, <1>3, <1>10, Steady DEF HaveInv
<1>12. ReaderInv'
  BY <1>1, <1>2, <1>3, <1>4, <1>10, Steady DEF ReaderInv
<1>13. SettledIsRight'
  BY <1>3 DEF SettledIsRight
<1>14. QED
  BY <1>5, <1>6, <1>7, <1>8, <1>9, <1>11, <1>12, <1>13 DEF DesktopInv

(* A fresh entry answers.                                                    *)
LEMMA UseCacheKeeps ==
    ASSUME DesktopConstants, DesktopInv, UseCache
    PROVE  DesktopInv'
<1>1. /\ WorldInv /\ PlaceInv /\ CacheInv /\ ParentInv /\ RunInv /\ WholeInv /\ Sound(cache)
      /\ dpc \in {"base", "child"} /\ UNCHANGED <<world, at, out, gathered>>
  BY DEF DesktopInv, CacheInv, UseCache
<1>2. PICK e \in Fresh : Take(e.values, cache)
  BY DEF UseCache
<1>3. e \in cache /\ e.of = <<Schema, Wanted>> /\ Good(e.values)
  BY <1>1, CachedIsGood
<1>4. WholeInv'
  <2> SUFFICES ASSUME Whole PROVE WholeInv'
    BY <1>1, Steady DEF WholeInv, world
  <2>1. dpc = "base" /\ Wanted = "base" /\ Reading /\ e.values \in Listings
    BY <1>1, <1>3 DEF WholeInv, Wanted, Reading, Good
  <2>2. values' = e.values /\ cache' = cache
    BY <1>2, <2>1, NoKeysIsOne, Overlaid DEF Take
  <2>3. /\ Owner' = Owner /\ Schema' = Schema /\ settings' = settings /\ at' = at
        /\ dpc' = IF Owner # "base" /\ Owner \notin DOMAIN values' THEN "child" ELSE "have"
    BY <1>1, <1>2, <2>1 DEF Take, world, Owner, Schema
  <2>4. at.key # 0 => DOMAIN e.values = ListedKeys
    BY <1>1, <1>3, <2>1 DEF WholeInv
  <2>5. dpc' = "have"
    <3>1. Owner # "base" => at.key # 0 /\ Owner \in ListedKeys
      BY <1>1, <2>1, Places
    <3>2. QED
      BY <2>2, <2>3, <2>4, <3>1
  <2>6. DOMAIN e.values \in {{}, ListedKeys}
    BY <1>1, <1>3 DEF WholeInv
  <2>7. \A f \in cache : f.of = <<Schema, "base">> => f = e
    BY <1>1, <1>3, <2>1 DEF Sound, Formed
  <2>8. DOMAIN e.values = ListedKeys => settings[Schema].mode # "missing"
    BY <1>1, <1>3 DEF WholeInv
  <2>9. at.key # 0 => settings[Schema].mode # "missing"
    BY <2>4, <2>8
  <2>10. \A f \in cache : /\ f.of[2] = "base" /\ DOMAIN f.values \in {{}, ListedKeys}
                          /\ DOMAIN f.values = ListedKeys => settings[f.of[1]].mode # "missing"
    BY <1>1 DEF WholeInv
  <2>11. QED
    BY <2>2, <2>3, <2>4, <2>5, <2>6, <2>7, <2>8, <2>9, <2>10 DEF WholeInv
<1>5. QED
  BY <1>1, <1>2, <1>3, <1>4, TakenKeeps

(* The moment something changed or failed nothing need be right.             *)
LEMMA JustDisturbed ==
    ASSUME DesktopConstants, WorldInv', PlaceInv', RunInv', Formed(cache)', disturbed' = now',
           changes' + failures' # 0
    PROVE  CacheInv' /\ ParentInv' /\ HaveInv' /\ ReaderInv' /\ SettledIsRight'
<1>1. now' \in Nat /\ began' \in 0 .. now' /\ values' \in Listings
  BY DEF WorldInv, PlaceInv
<1>2. ASSUME NEW t \in Int, NEW l \in Int, t <= now', l >= 0
      PROVE  ~(changes' + failures' = 0 \/ t - disturbed' > l)
  <2>1. \A n \in Nat : t <= n => ~(t - n > l)
    BY <1>2
  <2>2. ~(t - now' > l)
    BY <1>1, <1>2, <2>1
  <2>3. QED
    BY <2>2
<1>3. /\ Term \in Nat /\ Term >= 1 /\ Lag' \in Nat /\ Lag' >= 1 /\ RunTime \in Nat
      /\ \A v \in Listings, k \in ListedKeys : Merges(k, v)' * Term \in Nat
      /\ Merges("base", values)' \in Nat
  <2>1. \A v \in Listings : \A k : Merges(k, v)' \in Nat
    <3> TAKE v \in Listings
    <3>1. Cardinality(DOMAIN v \ {"base"}) \in 0 .. Len(Children) /\ Len(Children) \in Nat
      BY Counts, Names
    <3>2. QED
      BY <3>1 DEF Merges
  <2>2. /\ RunTime \in Nat /\ Term \in Nat /\ Term >= 1 /\ Len(Children) \in Nat
    BY Names DEF Term, DesktopConstants, TimeAssumption
  <2>3. Lag' = IF Whole' THEN Term ELSE (Len(Children) + 1) * Term
    BY DEF Lag, Whole, Term
  <2>4. (Len(Children) + 1) * Term = Len(Children) * Term + Term /\ Len(Children) * Term \in Nat
    BY <2>2
  <2>5. Merges("base", values)' \in Nat
    BY <1>1, <2>1 DEF Merges
  <2>6. \A m \in Nat : m * Term \in Nat
    BY <2>2
  <2>7. QED
    BY <2>1, <2>2, <2>3, <2>4, <2>5, <2>6
<1>4. ~Quiet'
  <2>1. Lag' - 1 \in Int /\ Lag' - 1 >= 0 /\ began' \in Int /\ began' <= now'
    <3>1. /\ \A l \in Nat : l >= 1 => l - 1 \in Int /\ l - 1 >= 0
          /\ \A n \in Nat : \A b \in 0 .. n : b \in Int /\ b <= n
      OBVIOUS
    <3>2. QED
      BY <1>1, <1>3, <3>1
  <2>2. ~Since(began, Lag - 1)'
    BY <1>2, <2>1 DEF Since
  <2>3. QED
    BY <2>2 DEF Quiet
<1>5. CacheInv'
  <2>1. \A e \in cache' : /\ e.stamp \in Nat /\ e.stamp <= now' /\ e.values \in Listings
                          /\ e.of[2] \in ListedKeys
    BY DEF Formed
  <2>2. \A e \in cache' : ~Since(e.stamp, Merges(e.of[2], e.values) * Term + RunTime)'
    <3> TAKE e \in cache'
    <3>1. Merges(e.of[2], e.values)' * Term + RunTime >= 0
      BY <1>3, <2>1
    <3>2. QED
      BY <1>1, <1>2, <1>3, <2>1, <3>1 DEF Since, Term
  <2>3. QED
    BY <2>2 DEF CacheInv, Sound
<1>6. ParentInv'
  <2>1. Asked' \in Int /\ Asked' <= now'
    BY <1>1 DEF Asked, RunInv
  <2>2. (Merges("base", values)' + 1) * Term - 1 >= 0
    <3>1. (Merges("base", values)' + 1) * Term = Merges("base", values)' * Term + Term
          /\ Merges("base", values)' * Term \in Nat
      BY <1>3
    <3>2. QED
      BY <1>3, <3>1
  <2>3. ~Since(Asked, (Merges("base", values) + 1) * Term - 1)'
    BY <1>2, <1>3, <2>1, <2>2 DEF Since, Term
  <2>4. QED
    BY <2>3 DEF ParentInv
<1>7. SettledIsRight'
  <2>1. \A n \in Nat : \A b \in 0 .. n, l \in Nat : l >= 1 => ~(b - n >= l)
    OBVIOUS
  <2>2. ~(changes' + failures' = 0 \/ began' - disturbed' >= Lag')
    BY <1>1, <1>3, <2>1
  <2>3. QED
    BY <2>2 DEF SettledIsRight
<1>8. QED
  BY <1>4, <1>5, <1>6, <1>7 DEF HaveInv, ReaderInv
(* The program ends with a listing, which is stored and answers.             *)
LEMMA RunSucceedsKeeps ==
    ASSUME DesktopConstants, DesktopInv, RunEnds(TRUE)
    PROVE  DesktopInv'
<1> DEFINE listing == out.listing
           c == Put(cache, Schema, Wanted, listing)
<1>1. /\ WorldInv /\ PlaceInv /\ CacheInv /\ ParentInv /\ RunInv /\ WholeInv /\ Sound(cache)
      /\ dpc \in {"runBase", "runChild"} /\ Reading
  BY DEF DesktopInv, CacheInv, RunEnds, Reading
<1>2. Take(listing, c) /\ UNCHANGED <<world, at, gathered>>
  BY DEF RunEnds, world
<1>3. /\ Good(listing) /\ listing \in Listings /\ Schema \in Range(Schemas) /\ Wanted \in ListedKeys
      /\ Wanted # "base" => DOMAIN listing \subseteq {Wanted}
  BY <1>1, RunIsGood, Places DEF Good
<1>4. Sound(c)
  BY <1>1, <1>3, RunIsGood, PutIsSound
<1>5. WholeInv'
  <2> SUFFICES ASSUME Whole PROVE WholeInv'
    BY <1>2, Steady DEF WholeInv, world
  <2>1. dpc = "runBase" /\ Wanted = "base"
    BY <1>1, Places DEF WholeInv
  <2>2. values' = listing /\ cache' = Put(cache, Schema, "base", listing)
    BY <1>2, <1>3, <2>1, NoKeysIsOne, Overlaid DEF Take
  <2>3. /\ Owner' = Owner /\ Schema' = Schema /\ settings' = settings /\ at' = at
        /\ dpc' = IF Owner # "base" /\ Owner \notin DOMAIN values' THEN "child" ELSE "have"
    BY <1>2, <2>1 DEF Take, world, Owner, Schema
  <2>4. /\ DOMAIN listing \in {{}, ListedKeys}
        /\ DOMAIN listing = ListedKeys => settings[Schema].mode # "missing"
        /\ at.key # 0 => DOMAIN listing = ListedKeys
    BY <1>1, <2>1 DEF WholeInv
  <2>5. dpc' = "have"
    <3>1. Owner # "base" => at.key # 0 /\ Owner \in ListedKeys
      BY <1>1, Places
    <3>2. QED
      BY <2>2, <2>3, <2>4, <3>1
  <2>6. \A e \in cache' : \/ e \in cache /\ e.of # <<Schema, "base">>
                          \/ e.of = <<Schema, "base">> /\ e.of[1] = Schema /\ e.of[2] = "base"
                             /\ e.values = listing
    BY <2>2 DEF Put
  <2>7. \A e \in cache : /\ e.of[2] = "base" /\ DOMAIN e.values \in {{}, ListedKeys}
                         /\ DOMAIN e.values = ListedKeys => settings[e.of[1]].mode # "missing"
    BY <1>1 DEF WholeInv
  <2> HIDE DEF listing
  <2>8. \A e \in cache' : /\ e.of[2] = "base" /\ DOMAIN e.values \in {{}, ListedKeys}
                          /\ DOMAIN e.values = ListedKeys => settings'[e.of[1]].mode # "missing"
    BY <2>3, <2>4, <2>6, <2>7
  <2>9. \A e \in cache' : e.of = <<Schema, "base">> => e.values = listing
    BY <2>6
  <2>10. QED
    BY <2>2, <2>3, <2>4, <2>5, <2>8, <2>9 DEF WholeInv
<1>6. QED
  BY <1>1, <1>2, <1>3, <1>4, <1>5, TakenKeeps

(* The program fails: the quiet is over, and the empty listing is stored.    *)
LEMMA RunFailsKeeps ==
    ASSUME DesktopConstants, DesktopInv, RunEnds(FALSE)
    PROVE  DesktopInv'
<1> DEFINE c == Put(cache, Schema, Wanted, NoKeys)
<1>1. /\ WorldInv /\ PlaceInv /\ CacheInv /\ Formed(cache)
      /\ dpc \in {"runBase", "runChild"} /\ Reading
  BY DEF DesktopInv, CacheInv, RunEnds, Reading, Sound
<1>2. /\ Take(NoKeys, c) /\ failures' = failures + 1 /\ disturbed' = now
      /\ UNCHANGED <<now, changes, settings, deep, kde, nm, at, gathered>>
  BY DEF RunEnds
<1>3. Wanted \in ListedKeys /\ Schema \in Range(Schemas) /\ NoKeys \in Listings /\ DOMAIN NoKeys = {}
  BY <1>1, Places, NoKeysIsOne
<1>4. cache' = c /\ values' = (IF Wanted = "base" THEN NoKeys ELSE values)
      /\ dpc' = (IF Wanted = "base" /\ Owner # "base" /\ Owner \notin DOMAIN values'
                   THEN "child" ELSE "have")
  BY <1>1, <1>2, <1>3, Overlaid DEF Take, PlaceInv
<1>5. WorldInv'
  BY <1>1, <1>2 DEF WorldInv
<1>6. PlaceInv'
  <2>1. Owner # "base" => at.key \in 1 .. Len(Children)
    BY <1>1, Places
  <2>2. Owner' = Owner /\ values' \in Listings /\ Reading'
    BY <1>1, <1>2, <1>3, <1>4 DEF Owner, PlaceInv, Reading
  <2>3. UNCHANGED <<began, found, first>>
    BY <1>2 DEF gathered
  <2>4. QED
    BY <1>1, <1>2, <1>4, <2>1, <2>2, <2>3 DEF PlaceInv
<1>7. Formed(cache)'
  <2>1. Formed(c)
    BY <1>1, <1>3, PutIsFormed
  <2>2. QED
    BY <1>2, <1>4, <2>1 DEF Formed
<1>8. RunInv'
  BY <1>4 DEF RunInv
<1>9. changes' + failures' # 0 /\ ~Whole' /\ disturbed' = now'
  <2>1. changes \in Nat /\ failures \in Nat
    BY <1>1 DEF WorldInv
  <2>2. changes' + failures' # 0 /\ failures' # 0
    BY <1>2, <2>1
  <2>3. QED
    BY <1>2, <2>2 DEF Whole
<1>10. CacheInv' /\ ParentInv' /\ HaveInv' /\ ReaderInv' /\ SettledIsRight'
  BY <1>5, <1>6, <1>7, <1>8, <1>9, JustDisturbed
<1>11. QED
  BY <1>5, <1>6, <1>8, <1>9, <1>10 DEF DesktopInv, WholeInv

(* A setting changes: the quiet is over.                                     *)
LEMMA SettingsChangeKeeps ==
    ASSUME DesktopConstants, DesktopInv, SettingsChange
    PROVE  DesktopInv'
<1>1. /\ WorldInv /\ PlaceInv /\ RunInv /\ WholeInv /\ Formed(cache)
  BY DEF DesktopInv, CacheInv, Sound
<1>2. /\ changes' = changes + 1 /\ disturbed' = now
      /\ UNCHANGED <<now, failures, deep, kde, nm, cache, dpc, at, out, values, found, first,
                     began, desktopResult>>
  BY DEF SettingsChange, reader, gathered
<1>3. PICK s \in Range(Schemas), new \in LaterSettings : settings' = [settings EXCEPT ![s] = new]
  BY DEF SettingsChange
<1>4. WorldInv'
  BY <1>1, <1>2, <1>3 DEF WorldInv
<1>5. PlaceInv'
  BY <1>1, <1>2 DEF PlaceInv, Reading, Owner
<1>6. Formed(cache)'
  BY <1>1, <1>2 DEF Formed
<1>7. changes' + failures' # 0 /\ disturbed' = now'
  BY <1>1, <1>2 DEF WorldInv
<1>8. RunInv'
  <2> SUFFICES ASSUME dpc \in {"runBase", "runChild"}
               PROVE  /\ out' \in [listing : Listings, began : began' .. now']
                      /\ now' - out'.began <= RunTime
                      /\ Wanted' # "base" => DOMAIN out'.listing \subseteq {Wanted'}
                      /\ ~Since(out.began, 0)'
    BY <1>2 DEF RunInv
  <2>1. /\ out \in [listing : Listings, began : began .. now] /\ now - out.began <= RunTime
        /\ Wanted # "base" => DOMAIN out.listing \subseteq {Wanted}
    BY <1>1 DEF RunInv
  <2>2. Wanted' = Wanted
    BY <1>2 DEF Wanted, Owner
  <2>3. ~(out.began - now > 0)
    BY <1>1, <2>1 DEF WorldInv, PlaceInv
  <2>4. ~Since(out.began, 0)'
    BY <1>2, <1>7, <2>3 DEF Since
  <2>5. QED
    BY <1>2, <2>1, <2>2, <2>4
<1>9. CacheInv' /\ ParentInv' /\ HaveInv' /\ ReaderInv' /\ SettledIsRight'
  BY <1>4, <1>5, <1>6, <1>7, <1>8, JustDisturbed
<1>10. WholeInv'
  <2> SUFFICES ASSUME Whole PROVE WholeInv'
    BY <1>2 DEF WholeInv, Whole
  <2>1. \A r \in Range(Schemas) : settings[r].mode # "missing" => settings'[r].mode # "missing"
    BY <1>1, <1>3 DEF Whole, Installed, WorldInv
  <2>2. \A e \in cache : e.of[1] \in Range(Schemas)
    BY <1>1 DEF Formed
  <2>3. Reading => Schema \in Range(Schemas)
    BY <1>1, Places
  <2>4. Schema' = Schema /\ Reading' = Reading
    BY <1>2 DEF Schema, Reading
  <2>5. dpc = "runBase" => Reading
    BY DEF Reading
  <2>6. QED
    BY <1>1, <1>2, <2>1, <2>2, <2>3, <2>4, <2>5 DEF WholeInv
<1>11. QED
  BY <1>4, <1>5, <1>8, <1>9, <1>10 DEF DesktopInv

(* What the program would list now.                                          *)
LEMMA Listed ==
    ASSUME DesktopConstants, WorldInv, NEW s \in Range(Schemas), NEW k \in ListedKeys
    PROVE  /\ Listing(s, k) \in Listings /\ Tells(Listing(s, k), s, k)
           /\ k # "base" => DOMAIN Listing(s, k) \subseteq {k}
           /\ deep => DOMAIN Listing(s, "base") =
                        IF settings[s].mode = "missing" THEN {} ELSE ListedKeys
<1> DEFINE S == IF settings[s].mode = "missing" THEN {} ELSE IF k = "base" /\ deep THEN ListedKeys ELSE {k}
<1>1. Listing(s, k) = [x \in S |-> Value(s, x)]
  BY DEF Listing, Value
<1>2. settings[s] \in [mode : STRING, url : BOOLEAN, host : [Range(Children) -> BOOLEAN]]
  BY DEF WorldInv, DesktopConstants, SettingsAssumption
<1>3. \A x \in ListedKeys : Value(s, x) \in [mode : STRING, url : BOOLEAN] \cup BOOLEAN
  BY <1>2, Names DEF Value, ListedKeys
<1>4. S \subseteq ListedKeys
  OBVIOUS
<1>5. Listing(s, k) \in [S -> [mode : STRING, url : BOOLEAN] \cup BOOLEAN]
  BY <1>1, <1>3, <1>4
<1>6. Listing(s, k) \in Listings
  BY <1>4, <1>5 DEF Listings
<1>7. Tells(Listing(s, k), s, k)
  BY <1>1, <1>4 DEF Tells
<1>8. DOMAIN Listing(s, "base") = IF settings[s].mode = "missing" THEN {}
                                  ELSE IF deep THEN ListedKeys ELSE {"base"}
  BY DEF Listing
<1>9. QED
  BY <1>1, <1>6, <1>7, <1>8

(* The program is started and reads the settings in force.                   *)
LEMMA RunGsettingsKeeps ==
    ASSUME DesktopConstants, DesktopInv, RunGsettings
    PROVE  DesktopInv'
<1>1. /\ WorldInv /\ PlaceInv /\ CacheInv /\ RunInv /\ ParentInv /\ WholeInv /\ ReaderInv /\ Reading
      /\ dpc \in {"base", "child"}
  BY DEF DesktopInv, RunGsettings, Reading
<1>2. /\ dpc' = (IF dpc = "base" THEN "runBase" ELSE "runChild")
      /\ out' = [listing |-> Listing(Schema, Wanted), began |-> now]
      /\ UNCHANGED <<world, cache, at, values, gathered>>
  BY DEF RunGsettings
<1>3. UNCHANGED <<now, changes, failures, disturbed, settings, deep, kde, nm, found, first, began,
                  desktopResult>>
  BY <1>2 DEF world, gathered
<1>4. Wanted' = Wanted /\ Owner' = Owner /\ Schema' = Schema /\ Reading'
  BY <1>1, <1>2 DEF Wanted, Owner, Schema, Reading
<1>5. Schema \in Range(Schemas) /\ Wanted \in ListedKeys /\ (dpc = "base" => Wanted = "base")
  BY <1>1, Places
<1>6. WorldInv' /\ CacheInv'
  BY <1>1, <1>2, <1>3, Steady DEF WorldInv, CacheInv
<1>7. PlaceInv'
  BY <1>1, <1>2, <1>3, <1>4 DEF PlaceInv
<1>8. RunInv'
  <2>1. /\ Listing(Schema, Wanted) \in Listings /\ Tells(Listing(Schema, Wanted), Schema, Wanted)
        /\ Wanted # "base" => DOMAIN Listing(Schema, Wanted) \subseteq {Wanted}
    BY <1>1, <1>5, Listed
  <2>2. now \in began .. now /\ now - now <= RunTime
    BY <1>1 DEF WorldInv, PlaceInv, DesktopConstants, TimeAssumption
  <2>3. /\ out'.listing = Listing(Schema, Wanted) /\ out'.began = now
        /\ out' \in [listing : Listings, began : began .. now]
    BY <1>2, <2>1, <2>2
  <2>4. Tells(out.listing, Schema, Wanted)'
    BY <1>3, <1>4, <2>1, <2>3, Steady
  <2>5. QED
    BY <1>3, <1>4, <2>1, <2>2, <2>3, <2>4 DEF RunInv
<1>9. ParentInv'
  <2>1. dpc' = "runChild" => dpc = "child" /\ Asked' = now /\ Asked = now
    BY <1>1, <1>2 DEF Asked
  <2>2. QED
    BY <1>1, <1>2, <1>3, <1>4, <2>1, Steady DEF ParentInv, Term
<1>10. HaveInv' /\ SettledIsRight'
  BY <1>1, <1>2 DEF HaveInv, SettledIsRight
<1>11. WholeInv'
  <2> SUFFICES ASSUME Whole PROVE WholeInv'
    BY <1>3, Steady DEF WholeInv
  <2>1. dpc = "base" /\ Wanted = "base" /\ dpc' = "runBase" /\ deep
    BY <1>1, <1>2, <1>5 DEF WholeInv, Whole
  <2>2. DOMAIN out'.listing = IF settings[Schema].mode = "missing" THEN {} ELSE ListedKeys
    BY <1>1, <1>2, <1>5, <2>1, Listed
  <2>3. \A e \in cache : /\ e.of[2] = "base" /\ DOMAIN e.values \in {{}, ListedKeys}
                         /\ DOMAIN e.values = ListedKeys => settings[e.of[1]].mode # "missing"
    BY <1>1 DEF WholeInv
  <2>4. at.key # 0 => /\ settings[Schema].mode # "missing"
                      /\ \A e \in cache : e.of = <<Schema, "base">> => DOMAIN e.values = ListedKeys
    BY <1>1 DEF WholeInv
  <2>5. ListedKeys # {}
    BY Names
  <2>6. QED
    BY <1>2, <1>3, <1>4, <2>1, <2>2, <2>3, <2>4, <2>5 DEF WholeInv
<1>12. Quiet' = Quiet
  BY <1>3, Steady DEF Quiet
<1>13. ReaderInv'
  BY <1>1, <1>2, <1>3, <1>4, <1>12, Steady DEF ReaderInv
<1>14. QED
  BY <1>6, <1>7, <1>8, <1>9, <1>10, <1>11, <1>13 DEF DesktopInv

(* What is expected rests on the settings alone.                             *)
LEMMA ExpectedStays ==
    ASSUME UNCHANGED <<settings, kde, nm>>
    PROVE  Expected' = Expected
<1>1. KdeConfig' = KdeConfig
  BY DEF KdeConfig
<1>2. \A s : GConfig(s)' = GConfig(s)
  BY DEF GConfig
<1>3. [i \in DOMAIN Schemas |-> GConfig(Schemas[i])]' = [i \in DOMAIN Schemas |-> GConfig(Schemas[i])]
  BY <1>2
<1>4. Configs' = Configs
  BY <1>1, <1>3 DEF Configs
<1>5. QED
  BY <1>4 DEF Expected

(* A cache that loses entries, and nothing else, or not even that.           *)
LEMMA FewerEntries ==
    ASSUME DesktopConstants, DesktopInv, cache' \subseteq cache,
           UNCHANGED <<now, changes, failures, disturbed, settings, deep, kde, nm, dpc, at, out, values,
                       found, first, began, desktopResult>>
    PROVE  DesktopInv'
<1>1. /\ WorldInv /\ PlaceInv /\ RunInv /\ ParentInv /\ HaveInv /\ WholeInv /\ ReaderInv
      /\ SettledIsRight /\ Sound(cache)
  BY DEF DesktopInv, CacheInv
<1>2. /\ Wanted' = Wanted /\ Owner' = Owner /\ Schema' = Schema /\ Reading' = Reading
      /\ Asked' = Asked /\ Quiet' = Quiet
  BY Steady DEF Wanted, Owner, Schema, Reading, Asked, Quiet
<1>3. WorldInv' /\ PlaceInv'
  BY <1>1, <1>2 DEF WorldInv, PlaceInv
<1>4. CacheInv'
  <2>1. Sound(cache')
    BY <1>1 DEF Sound, Formed
  <2>2. QED
    BY <2>1, Steady DEF CacheInv
<1>5. RunInv' /\ ParentInv' /\ HaveInv'
  BY <1>1, <1>2, Steady DEF RunInv, ParentInv, HaveInv, Term
<1>6. WholeInv'
  BY <1>1, <1>2, Steady DEF WholeInv
<1>7. ReaderInv'
  BY <1>1, <1>2, Steady DEF ReaderInv
<1>8. SettledIsRight'
  <2>1. Expected' = Expected
    BY ExpectedStays
  <2>2. QED
    BY <1>1, <2>1, Steady DEF SettledIsRight
<1>9. QED
  BY <1>3, <1>4, <1>5, <1>6, <1>7, <1>8 DEF DesktopInv

(* A read begins: nothing is known of any schema.                            *)
LEMMA StartKeeps ==
    ASSUME DesktopConstants, DesktopInv, Start
    PROVE  DesktopInv'
<1>1. WorldInv /\ PlaceInv /\ Sound(cache) /\ WholeInv /\ dpc = "idle" /\ ~found /\ first = NoConfig
  BY DEF DesktopInv, CacheInv, Start, PlaceInv, Reading
<1>2. /\ dpc' = "base" /\ at' = [schema |-> 1, key |-> 0] /\ began' = now
      /\ UNCHANGED <<now, changes, failures, disturbed, settings, deep, kde, nm, cache, out, values,
                     found, first, desktopResult>>
  BY DEF Start, world
<1>3. WorldInv' /\ CacheInv'
  BY <1>1, <1>2, Steady DEF WorldInv, CacheInv
<1>4. at' \in [schema : 1 .. Len(Schemas), key : -1 .. Len(Children) + 1]
  BY <1>2, Names
<1>5. PlaceInv'
  BY <1>1, <1>2, <1>4 DEF PlaceInv, Reading, WorldInv
<1>6. RunInv' /\ ParentInv' /\ HaveInv' /\ SettledIsRight'
  BY <1>2 DEF RunInv, ParentInv, HaveInv, SettledIsRight
<1>7. WholeInv'
  BY <1>1, <1>2, Steady DEF WholeInv
<1>8. ReaderInv'
  <2>1. FirstIs(NoConfig, 0)
    BY DEF FirstIs
  <2>2. FirstIs(first, at.schema - 1)'
    <3>1. at'.schema - 1 = 0
      BY <1>2
    <3>2. QED
      BY <1>1, <1>2, <2>1, <3>1, Steady
  <2>3. QED
    BY <1>1, <1>2, <2>2 DEF ReaderInv
<1>9. QED
  BY <1>3, <1>5, <1>6, <1>7, <1>8 DEF DesktopInv

(* A read ends.                                                              *)
LEMMA EndReadKeeps ==
    ASSUME DesktopConstants, DesktopInv, EndRead
    PROVE  DesktopInv'
<1>1. WorldInv /\ PlaceInv /\ Sound(cache) /\ WholeInv /\ dpc = "returned" /\ ~found
  BY DEF DesktopInv, CacheInv, EndRead, PlaceInv, Reading
<1>2. /\ dpc' = "idle" /\ began' = 0 /\ first' = NoConfig
      /\ UNCHANGED <<now, changes, failures, disturbed, settings, deep, kde, nm, cache, out, values,
                     found>>
  BY DEF EndRead, world
<1>3. WorldInv' /\ CacheInv'
  BY <1>1, <1>2, Steady DEF WorldInv, CacheInv
<1>4. PlaceInv'
  BY <1>1, <1>2 DEF PlaceInv, Reading, WorldInv
<1>5. RunInv' /\ ParentInv' /\ HaveInv' /\ SettledIsRight' /\ ReaderInv'
  BY <1>2 DEF RunInv, ParentInv, HaveInv, SettledIsRight, ReaderInv, Reading
<1>6. WholeInv'
  BY <1>1, <1>2, Steady DEF WholeInv, Reading
<1>7. QED
  BY <1>3, <1>4, <1>5, <1>6 DEF DesktopInv

(* Time passes: entries age, and the program runs no longer than it may.     *)
LEMMA TickKeeps ==
    ASSUME DesktopConstants, DesktopInv, Tick
    PROVE  DesktopInv'
<1>1. WorldInv /\ PlaceInv /\ Sound(cache) /\ RunInv /\ ParentInv /\ WholeInv /\ ReaderInv
  BY DEF DesktopInv, CacheInv
<1>2. /\ now' = now + 1
      /\ UNCHANGED <<changes, failures, disturbed, settings, deep, kde, nm, cache, dpc, at, out, values,
                     found, first, began, desktopResult>>
      /\ dpc = "idle" \/ (dpc \in {"runBase", "runChild"} /\ now - out.began < RunTime)
  BY DEF Tick, reader, gathered
<1>3. /\ Wanted' = Wanted /\ Owner' = Owner /\ Schema' = Schema /\ Reading' = Reading
      /\ Quiet' = Quiet
  BY <1>2, Steady DEF Wanted, Owner, Schema, Reading, Quiet
<1>4. now \in Nat /\ now' \in Nat /\ now <= now'
  BY <1>1, <1>2 DEF WorldInv
<1>5. WorldInv'
  BY <1>1, <1>2 DEF WorldInv
<1>6. PlaceInv'
  BY <1>1, <1>2, <1>3, <1>4 DEF PlaceInv
<1>7. CacheInv'
  <2>1. \A e \in cache : e.stamp <= now'
    BY <1>1, <1>2, <1>4 DEF Sound, Formed
  <2>2. Formed(cache)'
    BY <1>1, <1>2, <2>1 DEF Sound, Formed
  <2>3. QED
    BY <1>1, <1>2, <2>2, Steady DEF CacheInv, Sound, Term
<1>8. RunInv'
  <2> SUFFICES ASSUME dpc \in {"runBase", "runChild"} PROVE RunInv'
    BY <1>2 DEF RunInv
  <2>1. /\ out \in [listing : Listings, began : began .. now] /\ now - out.began < RunTime
        /\ Wanted # "base" => DOMAIN out.listing \subseteq {Wanted}
        /\ Since(out.began, 0) => Tells(out.listing, Schema, Wanted)
    BY <1>1, <1>2 DEF RunInv
  <2>2. out.began \in began .. now /\ began \in Nat /\ RunTime \in Nat
    BY <1>1, <2>1 DEF PlaceInv, WorldInv, DesktopConstants, TimeAssumption
  <2>3. out.began \in began .. (now + 1) /\ (now + 1) - out.began <= RunTime
    BY <1>4, <2>1, <2>2
  <2>4. out \in [listing : Listings, began : began .. (now + 1)]
    BY <2>1, <2>3
  <2>5. QED
    BY <1>2, <1>3, <2>1, <2>3, <2>4, Steady DEF RunInv
<1>9. ParentInv'
  <2>1. dpc = "runChild" => Asked' = Asked
    BY <1>2 DEF Asked
  <2>2. QED
    BY <1>1, <1>2, <1>3, <2>1, Steady DEF ParentInv, Term
<1>10. HaveInv' /\ SettledIsRight'
  BY <1>2 DEF HaveInv, SettledIsRight
<1>11. WholeInv'
  BY <1>1, <1>2, <1>3, Steady DEF WholeInv
<1>12. ReaderInv'
  BY <1>1, <1>2, <1>3, Steady DEF ReaderInv
<1>13. QED
  BY <1>5, <1>6, <1>7, <1>8, <1>9, <1>10, <1>11, <1>12 DEF DesktopInv

(* A set of numbers up to n has a least one.                                 *)
LEMMA Least ==
    ASSUME NEW n \in Nat, NEW S \in SUBSET (1 .. n), S # {}
    PROVE  Min(S) \in S /\ \A j \in S : Min(S) <= j
<1>1. \A i \in S : i \in Nat
  OBVIOUS
<1>2. \E x \in S : \A y \in S : <<y, x>> \notin OpToRel(<, Nat)
  BY <1>1, NatLessThanWellFounded, WFMin
<1>3. PICK x \in S : \A y \in S : ~(y < x)
  BY <1>1, <1>2 DEF OpToRel
<1>4. \A y \in S : x =< y
  BY <1>1, <1>3
<1>5. QED
  BY <1>4 DEF Min

(* The configuration chosen: the first configured, else the first direct.    *)
LEMMA ChosenIs ==
    ASSUME NEW n \in Nat, NEW cs, Len(cs) = n
    PROVE  \/ \E i \in 1 .. n : /\ cs[i].state = "configured" /\ Chosen(cs) = cs[i]
                                /\ \A j \in 1 .. i - 1 : cs[j].state # "configured"
           \/ /\ \A j \in 1 .. n : cs[j].state # "configured"
              /\ \E i \in 1 .. n : /\ cs[i].state = "direct" /\ Chosen(cs) = cs[i]
                                   /\ \A j \in 1 .. i - 1 : cs[j].state # "direct"
           \/ /\ \A j \in 1 .. n : cs[j].state # "configured" /\ cs[j].state # "direct"
              /\ Chosen(cs) = NoConfig
<1> DEFINE Of(state) == {i \in 1 .. n : cs[i].state = state}
           Pick(state, none) == IF Of(state) = {} THEN none ELSE cs[Min(Of(state))]
<1>1. Chosen(cs) = Pick("configured", Pick("direct", NoConfig))
  BY DEF Chosen, FirstOf
<1>2. ASSUME NEW state, Of(state) # {}
      PROVE  /\ Min(Of(state)) \in 1 .. n /\ cs[Min(Of(state))].state = state
             /\ \A j \in 1 .. Min(Of(state)) - 1 : cs[j].state # state
  <2>1. Of(state) \in SUBSET (1 .. n)
    OBVIOUS
  <2> DEFINE A == Of(state)
           m == Min(A)
  <2> HIDE DEF A
  <2>2. m \in A /\ \A j \in A : m <= j
    <3>1. A \in SUBSET (1 .. n) /\ A # {}
      BY <1>2, <2>1 DEF A
    <3>2. QED
      BY <3>1, Least
  <2> USE DEF A
  <2> HIDE DEF m
  <2>3. m \in 1 .. n /\ cs[m].state = state
    BY <2>2
  <2>4. \A j \in 1 .. m - 1 : j \in 1 .. n /\ ~(m <= j)
    BY <2>3
  <2>5. \A j \in 1 .. m - 1 : cs[j].state # state
    BY <2>2, <2>4
  <2>6. QED
    BY <2>3, <2>5 DEF m
<1>3. QED
  BY <1>1, <1>2

(* What the configurations can be.                                           *)
LEMMA States ==
    /\ NoConfig.state = "unset"
    /\ \A s : GConfig(s) = NoConfig \/ GConfig(s).state \in {"direct", "configured"}
    /\ KdeConfig = NoConfig \/ KdeConfig.state \in {"direct", "configured"}
<1>1. /\ NoConfig.state = "unset" /\ \A s, st, d : Config(s, st, d).state = st
  BY DEF NoConfig, Config
<1>2. KdeConfig = NoConfig \/ KdeConfig.state \in {"direct", "configured"}
  <2>1. CASE kde.type = "none"
    BY <1>1, <2>1 DEF KdeConfig
  <2>2. CASE kde.type = "auto"
    BY <1>1, <2>2 DEF KdeConfig
  <2>3. CASE kde.type = "pac"
    <3>1. CASE kde.script
      BY <2>3, <3>1 DEF KdeConfig, Config
    <3>2. CASE ~kde.script
      BY <2>3, <3>2 DEF KdeConfig
    <3>3. QED
      BY <3>1, <3>2
  <2>4. CASE kde.type = "manual"
    <3>1. KdeConfig = Config("kde", IF kde.proxies THEN "configured" ELSE "direct", FALSE)
      BY <2>4 DEF KdeConfig
    <3>2. QED
      BY <3>1 DEF Config
  <2>5. CASE kde.type \notin {"none", "auto", "pac", "manual"}
    BY <2>5 DEF KdeConfig
  <2>6. QED
    BY <2>1, <2>2, <2>3, <2>4, <2>5
<1>3. \A s : GConfig(s) = NoConfig \/ GConfig(s).state \in {"direct", "configured"}
  <2> TAKE s
  <2>1. CASE settings[s].mode = "none"
    BY <1>1, <2>1 DEF GConfig
  <2>2. CASE settings[s].mode = "auto"
    BY <1>1, <2>2 DEF GConfig
  <2>3. CASE settings[s].mode = "manual"
    <3>1. GConfig(s) = Config(s, IF \E c \in Range(Children) : settings[s].host[c]
                                 THEN "configured" ELSE "direct", FALSE)
      BY <2>3 DEF GConfig
    <3>2. QED
      BY <3>1 DEF Config
  <2>4. CASE settings[s].mode \notin {"none", "auto", "manual"}
    BY <2>4 DEF GConfig
  <2>5. QED
    BY <2>1, <2>2, <2>3, <2>4
<1>4. QED
  BY <1>1, <1>2, <1>3

(* NetworkManager's configuration is that of an automatic connection, if     *)
(* there is one.                                                             *)
LEMMA NmIs ==
    ASSUME DesktopConstants, WorldInv
    PROVE  LET autos == {c \in Range(nm.connections) : c.method = "auto"}
           IN IF autos = {} THEN NmConfig = NoConfig
              ELSE NmConfig \in {Config("networkmanager", "configured", ~c.url /\ ~c.script) : c \in autos}
<1> DEFINE cs == nm.connections
           n == Len(cs)
           autos == {c \in Range(cs) : c.method = "auto"}
           chosen == IF nm.nmcli /\ cs # <<>> THEN ViaNmcli ELSE ViaDbus
<1>1. /\ cs \in Seq(Range(cs))
      /\ \A c \in Range(cs) : c.method = "auto" \/ (c.method = "none" /\ c.url = FALSE /\ c.script = FALSE)
  BY DEF WorldInv, DesktopConstants, ConnectionsAssumption
<1>2. n \in Nat /\ DOMAIN cs = 1 .. n /\ \A i \in 1 .. n : cs[i] \in Range(cs)
  BY <1>1, LenProperties, ElementOfSeq
<1>3. Range(cs) = {cs[i] : i \in 1 .. n}
  BY <1>2 DEF Range
<1> HIDE DEF cs, n
<1>4. chosen \in autos \/ (autos = {} /\ chosen.method = "none")
  <2> DEFINE A == {i \in 1 .. n : cs[i].method # "none"}
             B == {i \in 1 .. n : cs[i].method # "none" \/ cs[i].url \/ cs[i].script}
  <2>1. A = B /\ \A i \in A : cs[i] \in autos
    BY <1>1, <1>2
  <2>2. A = {} => autos = {} /\ \A i \in 1 .. n : cs[i].method = "none"
    BY <1>3
  <2>3. ASSUME A # {} PROVE Min(A) \in A
    <3>1. A \in SUBSET (1 .. n)
      OBVIOUS
    <3>2. QED
      BY <1>2, <2>3, <3>1, Least
  <2>4. ViaNmcli = IF A = {} THEN cs[1] ELSE cs[Min(A)]
    BY DEF ViaNmcli, FirstOf, cs, n
  <2>5. ViaDbus = IF A = {} THEN NoConnection ELSE cs[Min(A)]
    BY <2>1 DEF ViaDbus, FirstOf, cs, n
  <2>6. cs # <<>> => 1 \in 1 .. n
    BY <1>1, <1>2, EmptySeq DEF n
  <2>7. NoConnection.method = "none"
    BY DEF NoConnection
  <2>8. QED
    BY <2>1, <2>2, <2>3, <2>4, <2>5, <2>6, <2>7
<1>5. NmConfig = IF chosen.method # "auto" THEN NoConfig
                 ELSE Config("networkmanager", "configured", ~chosen.url /\ ~chosen.script)
  BY DEF NmConfig, cs
<1>6. QED
  BY <1>4, <1>5 DEF cs

(* The configurations are the schemas' and then KDE's.                       *)
LEMMA ConfigsAre ==
    ASSUME DesktopConstants
    PROVE  /\ DOMAIN Configs = 1 .. Len(Schemas) + 1
           /\ \A i \in 1 .. Len(Schemas) : Configs[i] = GConfig(Schemas[i])
           /\ Configs[Len(Schemas) + 1] = KdeConfig
<1> DEFINE n == Len(Schemas)
           a == [i \in DOMAIN Schemas |-> GConfig(Schemas[i])]
           b == <<KdeConfig>>
           S == {GConfig(Schemas[i]) : i \in 1 .. n} \cup {KdeConfig}
<1>1. n \in Nat /\ DOMAIN Schemas = 1 .. n
  BY LenProperties DEF DesktopConstants, SettingsAssumption
<1>2. a \in Seq(S) /\ Len(a) = n /\ DOMAIN a = 1 .. n
  <2> HIDE DEF n
  <2>1. a = [i \in 1 .. n |-> GConfig(Schemas[i])] /\ a \in [1 .. n -> S]
    BY <1>1
  <2>2. a \in Seq(S)
    BY <1>1, <2>1, IsASeq
  <2>3. Len(a) \in Nat /\ DOMAIN a = 1 .. Len(a)
    BY <2>2, LenProperties
  <2>4. QED
    BY <1>1, <2>1, <2>2, <2>3
<1>3. b \in Seq(S) /\ Len(b) = 1 /\ b[1] = KdeConfig
  OBVIOUS
<1>4. \A i \in 1 .. n : a[i] = GConfig(Schemas[i])
  BY <1>1
<1> HIDE DEF n, a, b, S
<1>5. /\ Len(a \o b) = n + 1 /\ a \o b \in Seq(S)
      /\ \A i \in 1 .. n + 1 : (a \o b)[i] = IF i <= n THEN a[i] ELSE b[i - n]
  <2>1. /\ a \o b \in Seq(S) /\ Len(a \o b) = Len(a) + Len(b)
        /\ \A i \in 1 .. Len(a) + Len(b) : (a \o b)[i] = IF i <= Len(a) THEN a[i] ELSE b[i - Len(a)]
    BY <1>2, <1>3, ConcatProperties, Zenon
  <2>2. Len(a) = n /\ Len(b) = 1
    BY <1>2, <1>3
  <2>3. QED
    BY <2>1, <2>2
<1>6. DOMAIN (a \o b) = 1 .. n + 1
  BY <1>5, LenProperties
<1>7. Configs = a \o b
  BY DEF Configs, a, b
<1>8. (n + 1) - n = 1 /\ n + 1 \in 1 .. n + 1 /\ \A i \in 1 .. n : i \in 1 .. n + 1 /\ i <= n
  BY <1>1
<1>9. \A i \in 1 .. n : (a \o b)[i] = GConfig(Schemas[i])
  BY <1>4, <1>5, <1>8
<1>10. (a \o b)[n + 1] = KdeConfig
  BY <1>1, <1>3, <1>5, <1>8
<1>11. QED
  BY <1>6, <1>7, <1>9, <1>10 DEF n

(* The reader that stops has found what the settings in force say.           *)
LEMMA FoundIsExpected ==
    ASSUME DesktopConstants, WorldInv, NEW i \in 1 .. Len(Schemas), NEW f, FirstIs(f, i - 1),
           \A j \in 1 .. i - 1 : GConfig(Schemas[j]).state # "configured",
           GConfig(Schemas[i]).state = "configured" \/ i = Len(Schemas)
    PROVE  Chosen(<<f, GConfig(Schemas[i]), KdeConfig, NmConfig>>) \in Expected
<1> DEFINE n == Len(Schemas)
           g == GConfig(Schemas[i])
           cs == <<f, g, KdeConfig, NmConfig>>
           autos == {c \in Range(nm.connections) : c.method = "auto"}
           nms == {Config("networkmanager", "configured", ~c.url /\ ~c.script) : c \in autos}
           Conf == {j \in DOMAIN Configs : Configs[j].state = "configured"}
           Known == {j \in DOMAIN Configs : Configs[j].state # "unset"}
<1>1. /\ n \in Nat /\ DOMAIN Configs = 1 .. n + 1 /\ Configs[n + 1] = KdeConfig
      /\ \A j \in 1 .. n : Configs[j] = GConfig(Schemas[j])
  BY ConfigsAre, Names
<1>2. Expected = IF Conf # {} THEN {Configs[Min(Conf)]}
                 ELSE IF autos # {} THEN nms
                 ELSE IF Known # {} THEN {Configs[Min(Known)]} ELSE {NoConfig}
  BY DEF Expected
<1>3. f = NoConfig \/ f.state = "direct"
  BY DEF FirstIs
<1>4. NoConfig.state = "unset" /\ (g = NoConfig \/ g.state \in {"direct", "configured"})
      /\ (KdeConfig = NoConfig \/ KdeConfig.state \in {"direct", "configured"})
      /\ \A j : GConfig(Schemas[j]) = NoConfig \/ GConfig(Schemas[j]).state \in {"direct", "configured"}
  BY States
<1>5. /\ autos = {} => NmConfig = NoConfig
      /\ autos # {} => NmConfig \in nms /\ NmConfig.state = "configured"
  <2>1. \A c \in nms : c.state = "configured"
    BY DEF Config
  <2>2. QED
    BY <2>1, NmIs
<1>6. /\ Len(cs) = 4 /\ cs[1] = f /\ cs[2] = g /\ cs[3] = KdeConfig /\ cs[4] = NmConfig
  OBVIOUS
<1> HIDE DEF cs
<1>7. \/ \E k \in 1 .. 4 : /\ cs[k].state = "configured" /\ Chosen(cs) = cs[k]
                           /\ \A j \in 1 .. k - 1 : cs[j].state # "configured"
      \/ /\ \A j \in 1 .. 4 : cs[j].state # "configured"
         /\ \E k \in 1 .. 4 : /\ cs[k].state = "direct" /\ Chosen(cs) = cs[k]
                              /\ \A j \in 1 .. k - 1 : cs[j].state # "direct"
      \/ /\ \A j \in 1 .. 4 : cs[j].state # "configured" /\ cs[j].state # "direct"
         /\ Chosen(cs) = NoConfig
  BY <1>6, ChosenIs
<1>8. Conf \in SUBSET (1 .. n + 1) /\ Known \in SUBSET (1 .. n + 1) /\ n + 1 \in Nat
  BY <1>1
<1>9. ASSUME NEW T \in SUBSET (1 .. n + 1), NEW k \in T, \A j \in T : ~(j < k)
       PROVE  Min(T) = k
  <2>1. Min(T) \in T /\ \A j \in T : Min(T) <= j
    BY <1>8, <1>9, Least
  <2>2. \A j \in 1 .. n + 1 : j \in Int
    BY <1>8
  <2>3. \A j \in T : j \in Int
    BY <2>2
  <2> DEFINE m == Min(T)
  <2>4. m \in T /\ m <= k /\ ~(m < k)
    BY <1>9, <2>1
  <2> HIDE DEF m
  <2>5. m = k
    BY <2>3, <2>4
  <2>6. QED
    BY <2>5 DEF m
<1>10. ASSUME NEW j \in 1 .. n + 1 PROVE j \in 1 .. i - 1 \/ j = i \/ (i = n /\ j = n + 1) \/ i # n
  BY <1>1
<1>11. CASE g.state = "configured"
  <2>1. i \in Conf /\ \A j \in Conf : ~(j < i)
    BY <1>1, <1>11
  <2>2. Min(Conf) = i
    BY <1>1, <1>8, <1>9, <2>1
  <2>3. Chosen(cs) = g
    BY <1>3, <1>4, <1>6, <1>7, <1>11
  <2>4. QED
    BY <1>1, <1>2, <2>1, <2>2, <2>3 DEF cs
<1>12. CASE g.state # "configured" /\ KdeConfig.state = "configured"
  <2>1. n + 1 \in Conf /\ \A j \in Conf : j = n + 1
    <3>1. i = n /\ n + 1 \in 1 .. n + 1
      BY <1>1, <1>12
    <3>2. \A j \in 1 .. n : j \in 1 .. i - 1 \/ j = i
      BY <3>1
    <3>3. \A j \in 1 .. n + 1 : j \in 1 .. n \/ j = n + 1
      BY <1>1
    <3>4. QED
      BY <1>1, <1>12, <3>1, <3>2, <3>3
  <2>2. Min(Conf) = n + 1
    BY <1>1, <1>8, <1>9, <2>1
  <2>3. Chosen(cs) = KdeConfig
    BY <1>3, <1>4, <1>6, <1>7, <1>12
  <2>4. QED
    BY <1>1, <1>2, <2>1, <2>2, <2>3 DEF cs
<1>13. CASE g.state # "configured" /\ KdeConfig.state # "configured"
  <2>1. Conf = {}
    BY <1>1, <1>10, <1>13
  <2>2. CASE autos # {}
    <3>1. Chosen(cs) = NmConfig
      BY <1>3, <1>4, <1>5, <1>6, <1>7, <1>13, <2>2
    <3>2. QED
      BY <1>2, <1>5, <2>1, <2>2, <3>1 DEF cs
  <2>3. CASE autos = {}
    <3>1. i = n /\ NmConfig = NoConfig
      BY <1>5, <1>13, <2>3
    <3>2. CASE f.state = "direct"
      <4>1. PICK k \in 1 .. i - 1 : /\ f = GConfig(Schemas[k])
                                    /\ \A j \in 1 .. k - 1 : GConfig(Schemas[j]) = NoConfig
        BY <1>4, <3>2 DEF FirstIs
      <4>2. k \in Known /\ \A j \in Known : ~(j < k)
        BY <1>1, <1>4, <3>2, <4>1
      <4>3. Min(Known) = k
        BY <1>8, <1>9, <4>2
      <4>4. Chosen(cs) = f
        BY <1>4, <1>6, <1>7, <1>13, <3>1, <3>2
      <4>5. Configs[k] = f
        BY <1>1, <4>1
      <4>6. QED
        BY <1>2, <2>1, <2>3, <4>2, <4>3, <4>4, <4>5 DEF cs
    <3>3. CASE f.state # "direct"
      <4>1. f = NoConfig /\ \A j \in 1 .. i - 1 : GConfig(Schemas[j]) = NoConfig
        BY <1>3, <3>3 DEF FirstIs
      <4>2. \A j \in Known : ~(j < i)
        BY <1>1, <1>4, <4>1
      <4>3. CASE g.state = "direct"
        <5>1. i \in Known
          BY <1>1, <4>3
        <5>2. Min(Known) = i
          BY <1>8, <1>9, <4>2, <5>1
        <5>3. Chosen(cs) = g
          BY <1>4, <1>6, <1>7, <1>13, <3>1, <4>1, <4>3
        <5>4. QED
          BY <1>1, <1>2, <2>1, <2>3, <5>1, <5>2, <5>3 DEF cs
      <4>4. CASE g.state # "direct"
        <5>1. g = NoConfig /\ \A j \in Known : j = n + 1
          BY <1>1, <1>4, <1>10, <1>13, <3>1, <4>2, <4>4
        <5>2. CASE KdeConfig.state = "direct"
          <6>1. n + 1 \in Known
            BY <1>1, <5>2
          <6>2. Min(Known) = n + 1
            BY <1>8, <1>9, <5>1, <6>1
          <6>3. Chosen(cs) = KdeConfig
            BY <1>4, <1>6, <1>7, <1>13, <3>1, <4>1, <5>1, <5>2
          <6>4. QED
            BY <1>1, <1>2, <2>1, <2>3, <6>1, <6>2, <6>3 DEF cs
        <5>3. CASE KdeConfig.state # "direct"
          <6>1. KdeConfig = NoConfig
            BY <1>4, <1>13, <5>3
          <6>2. Known = {}
            BY <1>1, <1>4, <5>1, <6>1
          <6>3. Chosen(cs) = NoConfig
            BY <1>4, <1>6, <1>7, <3>1, <4>1, <5>1, <6>1
          <6>4. QED
            BY <1>2, <2>1, <2>3, <6>2, <6>3 DEF cs
        <5>4. QED
          BY <5>2, <5>3
      <4>5. QED
        BY <4>3, <4>4
    <3>4. QED
      BY <3>2, <3>3
  <2>4. QED
    BY <2>2, <2>3
<1>14. QED
  BY <1>11, <1>12, <1>13

(* One desktop's configuration is known, and right once all is quiet.        *)
LEMMA ConcludeKeeps ==
    ASSUME DesktopConstants, DesktopInv, dpc = "have", NEW config, Conclude(config), values' = NoKeys,
           UNCHANGED <<world, cache, out, began>>, Quiet => config = GConfig(Schema)
    PROVE  DesktopInv'
<1>1. WorldInv /\ PlaceInv /\ Sound(cache) /\ WholeInv /\ ReaderInv /\ Reading
  BY DEF DesktopInv, CacheInv, Reading
<1>2. UNCHANGED <<now, changes, failures, disturbed, settings, deep, kde, nm, cache, out, began>>
  BY DEF world
<1>3. found' = FALSE /\ values' \in Listings
  BY NoKeysIsOne DEF Conclude
<1>4. /\ Schema = Schemas[at.schema] /\ at.schema \in 1 .. Len(Schemas) /\ Len(Schemas) \in Nat
      /\ at \in [schema : 1 .. Len(Schemas), key : -1 .. Len(Children) + 1]
  BY <1>1, Names, Places DEF Schema, PlaceInv
<1>5. Quiet => /\ \A i \in 1 .. at.schema - 1 : GConfig(Schemas[i]).state # "configured"
               /\ FirstIs(first, at.schema - 1) /\ config = GConfig(Schemas[at.schema])
  BY <1>1, <1>4 DEF ReaderInv
<1>6. WorldInv' /\ CacheInv'
  BY <1>1, <1>2, Steady DEF WorldInv, CacheInv
<1>7. Quiet' = Quiet
  BY <1>2, Steady DEF Quiet
<1>8. CASE config.state # "configured" /\ at.schema < Len(Schemas)
  <2>1. first' = Chosen(<<first, config>>) /\ at' = [schema |-> at.schema + 1, key |-> 0]
        /\ dpc' = "base"
    BY <1>8 DEF Conclude
  <2>2. /\ at' \in [schema : 1 .. Len(Schemas), key : -1 .. Len(Children) + 1]
        /\ at'.schema - 1 = at.schema /\ at'.key = 0
    <3>1. at.schema + 1 \in 1 .. Len(Schemas) /\ 0 \in -1 .. Len(Children) + 1
          /\ (at.schema + 1) - 1 = at.schema
      BY <1>4, <1>8, Names
    <3>2. QED
      BY <2>1, <3>1
  <2>3. PlaceInv'
    BY <1>1, <1>2, <1>3, <2>1, <2>2 DEF PlaceInv, Reading
  <2>4. RunInv' /\ ParentInv' /\ HaveInv' /\ SettledIsRight'
    BY <2>1 DEF RunInv, ParentInv, HaveInv, SettledIsRight
  <2>5. WholeInv'
    BY <1>1, <1>2, <2>1, <2>2, Steady DEF WholeInv
  <2>6. ASSUME Quiet
        PROVE  FirstIs(first', at.schema)
               /\ \A i \in 1 .. at.schema : GConfig(Schemas[i]).state # "configured"
    <3> DEFINE cs == <<first, config>>
    <3>1. Len(cs) = 2 /\ cs[1] = first /\ cs[2] = config
      OBVIOUS
    <3> HIDE DEF cs
    <3>2. /\ NoConfig.state = "unset" /\ (config = NoConfig \/ config.state = "direct")
          /\ first = NoConfig \/ first.state = "direct"
      BY <1>5, <1>8, <2>6, States DEF FirstIs
    <3>3. first' = Chosen(cs)
      BY <2>1 DEF cs
    <3>4. first' = IF first = NoConfig THEN config ELSE first
      <4>1. cs[1].state # "configured" /\ cs[2].state # "configured"
        BY <3>1, <3>2, <1>8
      <4>2. \/ /\ \A j \in 1 .. 2 : cs[j].state # "configured"
               /\ \E i \in 1 .. 2 : /\ cs[i].state = "direct" /\ Chosen(cs) = cs[i]
                                    /\ \A j \in 1 .. i - 1 : cs[j].state # "direct"
            \/ /\ \A j \in 1 .. 2 : cs[j].state # "configured" /\ cs[j].state # "direct"
               /\ Chosen(cs) = NoConfig
        <5>1. \A i \in 1 .. 2 : cs[i].state # "configured"
          BY <4>1
        <5>2. QED
          BY <3>1, <5>1, ChosenIs
      <4>3. CASE first.state = "direct"
        BY <3>1, <3>2, <3>3, <4>2, <4>3
      <4>4. CASE first.state # "direct"
        BY <3>1, <3>2, <3>3, <4>2, <4>4
      <4>5. QED
        BY <4>3, <4>4
    <3>5. /\ \A i \in 1 .. at.schema : i = at.schema \/ i \in 1 .. at.schema - 1
          /\ \A i \in 1 .. at.schema - 1 : i \in 1 .. at.schema
          /\ at.schema \in 1 .. at.schema
      BY <1>4
    <3>6. FirstIs(first', at.schema)
      <4>1. CASE first = NoConfig /\ config = NoConfig
        <5>1. \A i \in 1 .. at.schema - 1 : GConfig(Schemas[i]) = NoConfig
          BY <1>5, <2>6, <3>2, <4>1 DEF FirstIs
        <5>2. QED
          BY <1>5, <2>6, <3>4, <3>5, <4>1, <5>1 DEF FirstIs
      <4>2. CASE first = NoConfig /\ config # NoConfig
        <5>1. \A i \in 1 .. at.schema - 1 : GConfig(Schemas[i]) = NoConfig
          BY <1>5, <2>6, <3>2, <4>2 DEF FirstIs
        <5>2. QED
          BY <1>5, <2>6, <3>2, <3>4, <3>5, <4>2, <5>1 DEF FirstIs
      <4>3. CASE first # NoConfig
        BY <1>5, <2>6, <3>4, <3>5, <4>3 DEF FirstIs
      <4>4. QED
        BY <4>1, <4>2, <4>3
    <3>7. QED
      BY <1>5, <1>8, <2>6, <3>5, <3>6
  <2>7. ReaderInv'
    <3>1. /\ at'.key \in Int /\ ~(at'.key = -1) /\ ~(at'.key >= 1)
          /\ \A i \in 1 .. at'.key - 1 : FALSE
      BY <2>2
    <3>2. Quiet => /\ \A i \in 1 .. at'.schema - 1 : GConfig(Schemas[i])'.state # "configured"
                   /\ FirstIs(first, at.schema - 1)'
      BY <1>2, <2>2, <2>6, Steady
    <3>3. QED
      BY <1>3, <1>7, <3>1, <3>2 DEF ReaderInv
  <2>8. QED
    BY <1>6, <2>3, <2>4, <2>5, <2>7 DEF DesktopInv
<1>9. CASE ~(config.state # "configured" /\ at.schema < Len(Schemas))
  <2>1. desktopResult' = Chosen(<<first, config, KdeConfig, NmConfig>>) /\ dpc' = "returned"
        /\ UNCHANGED <<at, first>>
    BY <1>9 DEF Conclude
  <2>2. PlaceInv'
    BY <1>1, <1>2, <1>3, <2>1 DEF PlaceInv, Reading
  <2>3. RunInv' /\ ParentInv' /\ HaveInv' /\ ReaderInv'
    BY <2>1 DEF RunInv, ParentInv, HaveInv, ReaderInv, Reading
  <2>4. WholeInv'
    BY <1>1, <1>2, <2>1, Steady DEF WholeInv, Reading
  <2>5. Quiet => desktopResult' \in Expected
    <3>1. config.state = "configured" \/ at.schema = Len(Schemas)
      BY <1>4, <1>9
    <3>2. QED
      BY <1>1, <1>4, <1>5, <2>1, <3>1, FoundIsExpected
  <2>6. Expected' = Expected
    BY <1>2, ExpectedStays
  <2>7. changes + failures = 0 \/ began - disturbed >= Lag => Quiet
    <3>1. /\ began \in Int /\ disturbed \in Int /\ Lag \in Int
      BY <1>1, NoKeysIsOne, LagOutlasts DEF PlaceInv, WorldInv
    <3>2. QED
      BY <3>1 DEF Quiet, Since
  <2>8. SettledIsRight'
    BY <1>2, <2>1, <2>5, <2>6, <2>7, Steady DEF SettledIsRight
  <2>9. QED
    BY <1>6, <2>2, <2>3, <2>4, <2>8 DEF DesktopInv
<1>10. QED
  BY <1>8, <1>9

(* The reader goes on to another key of the schema.                          *)
LEMMA GoesOn ==
    ASSUME DesktopConstants, DesktopInv, dpc = "have", NEW k \in -1 .. Len(Children) + 1, k # 0,
           at' = [at EXCEPT !.key = k], dpc' = "base", values' = NoKeys, found' \in BOOLEAN,
           UNCHANGED <<world, cache, out, first, began, desktopResult>>,
           Whole => at.key # 0 \/ DOMAIN values = ListedKeys,
           Quiet => /\ k = -1 => settings[Schema].mode = "auto"
                    /\ k >= 1 => settings[Schema].mode = "manual"
                    /\ found' <=> \E i \in 1 .. k - 1 : settings[Schema].host[Children[i]]
    PROVE  DesktopInv'
<1>1. WorldInv /\ PlaceInv /\ Sound(cache) /\ WholeInv /\ ReaderInv /\ Reading
  BY DEF DesktopInv, CacheInv, Reading
<1>2. UNCHANGED <<now, changes, failures, disturbed, settings, deep, kde, nm, cache, out, first, began>>
  BY DEF world
<1>3. /\ at \in [schema : 1 .. Len(Schemas), key : -1 .. Len(Children) + 1]
      /\ at' \in [schema : 1 .. Len(Schemas), key : -1 .. Len(Children) + 1]
      /\ at'.schema = at.schema /\ at'.key = k /\ Schema' = Schema
  BY <1>1 DEF PlaceInv, Schema
<1>4. WorldInv' /\ CacheInv' /\ Quiet' = Quiet
  BY <1>1, <1>2, Steady DEF WorldInv, CacheInv, Quiet
<1>5. PlaceInv'
  BY <1>1, <1>2, <1>3, NoKeysIsOne DEF PlaceInv, Reading
<1>6. RunInv' /\ ParentInv' /\ HaveInv' /\ SettledIsRight'
  BY DEF RunInv, ParentInv, HaveInv, SettledIsRight
<1>7. WholeInv'
  <2>1. Whole' = Whole
    BY <1>2 DEF Whole
  <2>2. QED
    BY <1>1, <1>2, <1>3, <2>1 DEF WholeInv
<1>8. ReaderInv'
  <2>1. Quiet => /\ \A i \in 1 .. at.schema - 1 : GConfig(Schemas[i])'.state # "configured"
                 /\ FirstIs(first, at.schema - 1)'
    <3>1. Quiet => /\ \A i \in 1 .. at.schema - 1 : GConfig(Schemas[i]).state # "configured"
                   /\ FirstIs(first, at.schema - 1)
      BY <1>1 DEF ReaderInv
    <3>2. /\ \A i : GConfig(Schemas[i])' = GConfig(Schemas[i])
          /\ FirstIs(first, at.schema - 1)' = FirstIs(first, at.schema - 1)
      <4>1. \A s : GConfig(s)' = GConfig(s)
        BY <1>2, Steady
      <4>2. first' = first /\ at'.schema - 1 = at.schema - 1
        BY <1>2, <1>3
      <4>3. QED
        BY <4>1, <4>2 DEF FirstIs
    <3>3. QED
      BY <3>1, <3>2
  <2>2. QED
    BY <1>2, <1>3, <1>4, <2>1 DEF ReaderInv
<1>9. QED
  BY <1>4, <1>5, <1>6, <1>7, <1>8 DEF DesktopInv

(* What the listing says of the schema's own keys, once all is quiet.        *)
LEMMA ReadsRight ==
    ASSUME DesktopConstants, DesktopInv, dpc = "have", Quiet
    PROVE  /\ settings[Schema].mode = "missing" => "base" \notin DOMAIN values
           /\ settings[Schema].mode # "missing" =>
                /\ "base" \in DOMAIN values /\ Owner \in DOMAIN values
                /\ values["base"].mode = settings[Schema].mode
                /\ values["base"].url = settings[Schema].url
                /\ Owner # "base" => values[Owner] = settings[Schema].host[Owner]
<1>1. Tells(values, Schema, "base") /\ (settings[Schema].mode # "missing" => Owner \in DOMAIN values)
  BY DEF DesktopInv, HaveInv
<1>2. CASE settings[Schema].mode = "missing"
  BY <1>1, <1>2 DEF Tells
<1>3. CASE settings[Schema].mode # "missing"
  <2>1. "base" \in DOMAIN values /\ \A x \in DOMAIN values : values[x] = Value(Schema, x)
    BY <1>1, <1>3 DEF Tells
  <2>2. /\ Value(Schema, "base") = [mode |-> settings[Schema].mode, url |-> settings[Schema].url]
        /\ Owner # "base" => Value(Schema, Owner) = settings[Schema].host[Owner]
    BY DEF Value
  <2>3. QED
    BY <1>1, <1>3, <2>1, <2>2
<1>4. QED
  BY <1>2, <1>3

(* The mode of a schema is read.                                             *)
LEMMA ReadModeKeeps ==
    ASSUME DesktopConstants, DesktopInv, ReadMode
    PROVE  DesktopInv'
<1> DEFINE mode == IF Has("base") THEN values["base"].mode ELSE "missing"
<1>1. /\ dpc = "have" /\ at.key = 0 /\ values' = NoKeys /\ UNCHANGED <<world, cache, out, began>>
      /\ PlaceInv /\ WholeInv /\ ReaderInv /\ Reading
  BY DEF ReadMode, DesktopInv, Reading
<1>2. /\ mode = "none" => Conclude(Config(Schema, "direct", FALSE))
      /\ mode = "auto" => /\ at' = [at EXCEPT !.key = -1] /\ dpc' = "base"
                          /\ UNCHANGED <<found, first, desktopResult>>
      /\ mode = "manual" => /\ at' = [at EXCEPT !.key = 1] /\ dpc' = "base"
                            /\ UNCHANGED <<found, first, desktopResult>>
      /\ mode \notin {"none", "auto", "manual"} => Conclude(NoConfig)
  BY DEF ReadMode
<1>3. Quiet => mode = settings[Schema].mode
  BY <1>1, ReadsRight DEF Has
<1>4. found \in BOOLEAN /\ (Quiet => ~found) /\ Len(Children) \in Nat
  BY <1>1, Names DEF PlaceInv, ReaderInv
<1>5. mode # "missing" /\ Whole => DOMAIN values = ListedKeys
  <2>1. DOMAIN values = {} => mode = "missing"
    BY DEF Has
  <2>2. QED
    BY <1>1, <2>1 DEF WholeInv
<1> HIDE DEF mode
<1>6. CASE mode = "none"
  <2>1. Conclude(Config(Schema, "direct", FALSE))
    BY <1>2, <1>6
  <2>2. Quiet => Config(Schema, "direct", FALSE) = GConfig(Schema)
    BY <1>3, <1>6 DEF GConfig
  <2>3. QED
    BY <1>1, <2>1, <2>2, ConcludeKeeps
<1>7. CASE mode = "auto"
  <2>1. at' = [at EXCEPT !.key = -1] /\ dpc' = "base" /\ UNCHANGED <<found, first, desktopResult>>
    BY <1>2, <1>7
  <2>2. -1 \in -1 .. Len(Children) + 1 /\ ~(-1 >= 1) /\ -1 # 0 /\ \A i \in 1 .. (-1) - 1 : FALSE
    BY <1>4
  <2>3. QED
    BY <1>1, <1>3, <1>4, <1>5, <1>7, <2>1, <2>2, GoesOn
<1>8. CASE mode = "manual"
  <2>1. at' = [at EXCEPT !.key = 1] /\ dpc' = "base" /\ UNCHANGED <<found, first, desktopResult>>
    BY <1>2, <1>8
  <2>2. 1 \in -1 .. Len(Children) + 1 /\ 1 # -1 /\ 1 # 0 /\ \A i \in 1 .. 1 - 1 : FALSE
    BY <1>4
  <2>3. QED
    BY <1>1, <1>3, <1>4, <1>5, <1>8, <2>1, <2>2, GoesOn
<1>9. CASE mode \notin {"none", "auto", "manual"}
  <2>1. Conclude(NoConfig)
    BY <1>2, <1>9
  <2>2. Quiet => NoConfig = GConfig(Schema)
    BY <1>3, <1>9 DEF GConfig
  <2>3. QED
    BY <1>1, <2>1, <2>2, ConcludeKeeps
<1>10. QED
  BY <1>6, <1>7, <1>8, <1>9

(* The PAC's URL is read: the schema has a proxy.                            *)
LEMMA ReadUrlKeeps ==
    ASSUME DesktopConstants, DesktopInv, ReadUrl
    PROVE  DesktopInv'
<1> DEFINE config == Config(Schema, "configured", ~(Has("base") /\ values["base"].url))
<1>1. /\ dpc = "have" /\ at.key = -1 /\ values' = NoKeys /\ UNCHANGED <<world, cache, out, began>>
      /\ Conclude(config) /\ ReaderInv /\ Reading
  BY DEF ReadUrl, DesktopInv, Reading
<1>2. Quiet => config = GConfig(Schema)
  <2> SUFFICES ASSUME Quiet PROVE config = GConfig(Schema)
    OBVIOUS
  <2>1. settings[Schema].mode = "auto"
    BY <1>1 DEF ReaderInv
  <2>2. GConfig(Schema) = Config(Schema, "configured", ~settings[Schema].url)
    BY <2>1 DEF GConfig
  <2>3. "base" \in DOMAIN values /\ values["base"].url = settings[Schema].url
    BY <1>1, <2>1, ReadsRight
  <2>4. (Has("base") /\ values["base"].url) = settings[Schema].url
    <3>1. settings[Schema].url \in BOOLEAN
      <4>1. Schema \in Range(Schemas)
        BY <1>1, Places DEF DesktopInv
      <4>2. settings[Schema] \in InitialSettings \cup LaterSettings
        BY <4>1 DEF DesktopInv, WorldInv
      <4>3. QED
        BY <4>2 DEF DesktopConstants, SettingsAssumption
    <3>2. QED
      BY <2>3, <3>1 DEF Has
  <2>5. QED
    BY <2>2, <2>4
<1> HIDE DEF config
<1>3. QED
  BY <1>1, <1>2, ConcludeKeeps

(* A child's host is read.                                                   *)
LEMMA ReadHostKeeps ==
    ASSUME DesktopConstants, DesktopInv, ReadHost
    PROVE  DesktopInv'
<1> DEFINE k == at.key + 1
<1>1. /\ dpc = "have" /\ at.key \in 1 .. Len(Children) /\ values' = NoKeys /\ dpc' = "base"
      /\ found' = (found \/ (Has(Owner) /\ values[Owner])) /\ at' = [at EXCEPT !.key = k]
      /\ UNCHANGED <<world, cache, out, first, began, desktopResult>>
      /\ PlaceInv /\ ReaderInv /\ Reading
  BY DEF ReadHost, DesktopInv, Reading
<1>2. /\ Len(Children) \in Nat /\ k \in -1 .. Len(Children) + 1 /\ k >= 1 /\ k # 0 /\ k # -1
      /\ \A i : i \in 1 .. k - 1 <=> i \in 1 .. at.key - 1 \/ i = at.key
      /\ at.key # 0 /\ at.key >= 1
  BY <1>1, Names
<1>3. found' \in BOOLEAN
  BY <1>1
<1>4. ASSUME Quiet
      PROVE  /\ settings[Schema].mode = "manual"
             /\ found' <=> \E i \in 1 .. k - 1 : settings[Schema].host[Children[i]]
  <2>1. /\ settings[Schema].mode = "manual"
        /\ found <=> \E i \in 1 .. at.key - 1 : settings[Schema].host[Children[i]]
    BY <1>1, <1>2, <1>4 DEF ReaderInv
  <2>2. Owner = Children[at.key] /\ Owner # "base"
    BY <1>1, Names DEF Owner
  <2>3. Has(Owner) /\ values[Owner] = settings[Schema].host[Children[at.key]]
    BY <1>1, <1>4, <2>1, <2>2, ReadsRight DEF Has
  <2>4. QED
    BY <1>1, <1>2, <2>1, <2>3
<1> HIDE DEF k
<1>5. QED
  BY <1>1, <1>2, <1>3, <1>4, GoesOn

(* The hosts to ignore are read: the schema has a proxy if a child has one.  *)
LEMMA ReadIgnoreHostsKeeps ==
    ASSUME DesktopConstants, DesktopInv, ReadIgnoreHosts
    PROVE  DesktopInv'
<1> DEFINE config == Config(Schema, IF found THEN "configured" ELSE "direct", FALSE)
<1>1. /\ dpc = "have" /\ at.key = Len(Children) + 1 /\ values' = NoKeys
      /\ UNCHANGED <<world, cache, out, began>> /\ Conclude(config) /\ ReaderInv /\ Reading
  BY DEF ReadIgnoreHosts, DesktopInv, Reading
<1>2. Quiet => config = GConfig(Schema)
  <2> SUFFICES ASSUME Quiet PROVE config = GConfig(Schema)
    OBVIOUS
  <2>1. at.key >= 1 /\ at.key - 1 = Len(Children)
    BY <1>1, Names
  <2>2. /\ settings[Schema].mode = "manual"
        /\ found <=> \E i \in 1 .. Len(Children) : settings[Schema].host[Children[i]]
    BY <1>1, <2>1 DEF ReaderInv
  <2>3. GConfig(Schema) = Config(Schema, IF \E c \in Range(Children) : settings[Schema].host[c]
                                         THEN "configured" ELSE "direct", FALSE)
    BY <2>2 DEF GConfig
  <2>4. found <=> \E c \in Range(Children) : settings[Schema].host[c]
    BY <2>2, Names
  <2>5. QED
    BY <2>3, <2>4
<1> HIDE DEF config
<1>3. QED
  BY <1>1, <1>2, ConcludeKeeps

(* At first nothing is cached and nothing is read.                           *)
LEMMA DesktopStarts ==
    ASSUME DesktopConstants, DesktopInit
    PROVE  DesktopInv
<1>1. WorldInv
  <2>1. settings \in [Range(Schemas) -> InitialSettings \cup LaterSettings]
    BY DEF DesktopInit
  <2>2. QED
    BY <2>1 DEF DesktopInit, WorldInv
<1>2. dpc = "idle" /\ ~Reading /\ cache = {} /\ values = NoKeys
  BY DEF DesktopInit, Reading
<1>3. PlaceInv
  <2>1. now = 0 /\ began = 0 /\ found = FALSE /\ first = NoConfig
    BY DEF DesktopInit
  <2>2. began \in 0 .. now
    BY <2>1
  <2>3. QED
    BY <1>2, <2>1, <2>2, NoKeysIsOne DEF PlaceInv
<1>4. CacheInv
  BY <1>2 DEF CacheInv, Sound, Formed
<1>5. RunInv /\ ParentInv /\ HaveInv /\ WholeInv /\ ReaderInv /\ SettledIsRight
  BY <1>2 DEF RunInv, ParentInv, HaveInv, WholeInv, ReaderInv, SettledIsRight
<1>6. QED
  BY <1>1, <1>3, <1>4, <1>5 DEF DesktopInv

(* Every step keeps the invariant.                                           *)
LEMMA DesktopStep ==
    ASSUME DesktopConstants, DesktopInv, [DesktopNext]_desktopVars
    PROVE  DesktopInv'
<1>1. CASE \E ok \in BOOLEAN : RunEnds(ok)
  BY <1>1, RunSucceedsKeeps, RunFailsKeeps
<1>2. CASE ClearGsettingsCache
  BY <1>2, FewerEntries DEF ClearGsettingsCache, world, reader, gathered
<1>3. CASE UNCHANGED desktopVars
  BY <1>3, FewerEntries DEF desktopVars, world, reader, gathered
<1>4. QED
  BY <1>1, <1>2, <1>3, StartKeeps, UseCacheKeeps, RunGsettingsKeeps, ReadModeKeeps, ReadUrlKeeps,
     ReadHostKeeps, ReadIgnoreHostsKeeps, EndReadKeeps, SettingsChangeKeeps, TickKeeps DEF DesktopNext

(* A read that begins once the desktops have been left alone for the lag     *)
(* gives the configuration that the settings in force describe.              *)
THEOREM DesktopReadsRight == DesktopSpec => []SettledIsRight
<1>1. DesktopConstants
  BY TimeAssumption, SettingsAssumption, ConnectionsAssumption DEF DesktopConstants
<1>2. DesktopInit => DesktopInv
  BY <1>1, DesktopStarts
<1>3. DesktopInv /\ [DesktopNext]_desktopVars => DesktopInv'
  BY <1>1, DesktopStep
<1>4. DesktopInv => SettledIsRight
  BY DEF DesktopInv
<1>5. QED
  BY <1>2, <1>3, <1>4, PTL DEF DesktopSpec

=============================================================================
