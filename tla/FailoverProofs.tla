--------------------------- MODULE FailoverProofs ---------------------------
(***************************************************************************)
(* What is proved of Failover for every set of proxies, answers, senders   *)
(* and probers, every ttl and every bound.                                 *)
(***************************************************************************)
EXTENDS Failover, WellFoundedInduction, TLAPS, SequenceTheorems, FiniteSetTheorems

-----------------------------------------------------------------------------
(* A set of naturals that has 0 and every successor has them all: induction   *)
(* by the least counterexample.                                              *)
LEMMA Induction ==
    ASSUME NEW T \in SUBSET Nat, 0 \in T, \A n \in T : n + 1 \in T
    PROVE  T = Nat
<1> SUFFICES ASSUME Nat \ T # {} PROVE FALSE
  OBVIOUS
<1>1. \E n \in Nat \ T : \A m \in Nat \ T : <<m, n>> \notin OpToRel(<, Nat)
  BY NatLessThanWellFounded, WFMin
<1>2. PICK n \in Nat \ T : \A m \in Nat \ T : ~ (m < n)
  BY <1>1 DEF OpToRel
<1>3. n - 1 \in T
  BY <1>2
<1>4. QED
  BY <1>2, <1>3

(* What one turn of the loop does with entry i of s, given the turns before it. *)
SplitStep(s, f, i) ==
    IF i = 0 THEN [good |-> << >>, bad |-> << >>]
    ELSE IF BadAt(s[i], now) THEN [f[i - 1] EXCEPT !.bad = Append(@, s[i])]
    ELSE [f[i - 1] EXCEPT !.good = Append(@, s[i])]

(* order_by_health's recursive definition is the recursion it is written as. *)
LEMMA SplitUnfolds ==
    ASSUME NEW s \in Seq(Entry)
    PROVE  Split(s) = [i \in 0 .. Len(s) |-> SplitStep(s, Split(s), i)]
<1> DEFINE Upto(f, n) == f = [i \in 0 .. n |-> SplitStep(s, f, i)]
           T == {n \in Nat : \E f : Upto(f, n)}
<1>1. \E f : Upto(f, 0)
  <2> DEFINE f == [i \in 0 .. 0 |-> SplitStep(s, << >>, i)]
  <2>1. \A i \in 0 .. 0 : SplitStep(s, << >>, i) = SplitStep(s, f, i)
    BY DEF SplitStep
  <2>2. Upto(f, 0)
    BY <2>1
  <2>3. QED
    BY <2>2
<1>2. ASSUME NEW n \in Nat, NEW f, Upto(f, n) PROVE \E g : Upto(g, n + 1)
  <2> DEFINE g == [i \in 0 .. n + 1 |-> SplitStep(s, f, i)]
  <2>1. \A i \in 0 .. n : g[i] = f[i]
    BY <1>2
  <2>2. \A i \in 0 .. n + 1 : SplitStep(s, f, i) = SplitStep(s, g, i)
    <3> TAKE i \in 0 .. n + 1
    <3>1. CASE i = 0
      BY <3>1 DEF SplitStep
    <3>2. CASE i # 0
      <4>1. i - 1 \in 0 .. n
        BY <3>2
      <4>2. g[i - 1] = f[i - 1]
        BY <2>1, <4>1
      <4> HIDE DEF g
      <4>3. QED
        BY <4>2, <3>2 DEF SplitStep
    <3>3. QED
      BY <3>1, <3>2
  <2>3. Upto(g, n + 1)
    BY <2>2
  <2>4. QED
    BY <2>3
<1>3. T = Nat
  <2>1. 0 \in T
    BY <1>1
  <2>2. \A n \in T : n + 1 \in T
    BY <1>2
  <2> HIDE DEF T
  <2>3. T \in SUBSET Nat
    BY DEF T
  <2>4. QED
    BY <2>1, <2>2, <2>3, Induction
<1>4. Len(s) \in T
  BY <1>3, LenProperties
<1>5. PICK g : Upto(g, Len(s))
  BY <1>4
<1>6. Split(s) = CHOOSE f : Upto(f, Len(s))
  BY DEF Split, SplitStep
<1>7. QED
  BY <1>5, <1>6
-----------------------------------------------------------------------------
(* How often an entry occurs in a sequence is a natural number. *)
LEMMA OccurrencesType ==
    ASSUME NEW s \in Seq(Entry), NEW e
    PROVE  IsFiniteSet({i \in 1 .. Len(s) : s[i] = e}) /\ Occurrences(e, s) \in Nat
<1>1. IsFiniteSet(1 .. Len(s))
  BY FS_Interval, LenProperties
<1>2. IsFiniteSet({i \in 1 .. Len(s) : s[i] = e})
  BY <1>1, FS_Subset
<1>3. QED
  BY <1>2, FS_CardinalityType DEF Occurrences

(* An empty sequence has no occurrence of anything. *)
LEMMA OccurrencesEmpty == \A e : Occurrences(e, << >>) = 0
<1>1. \A e : {i \in 1 .. Len(<< >>) : << >>[i] = e} = {}
  OBVIOUS
<1>2. QED
  BY <1>1, FS_EmptySet DEF Occurrences

(* Appending x adds one occurrence of x and none of anything else. *)
LEMMA OccurrencesAppend ==
    ASSUME NEW s \in Seq(Entry), NEW x \in Entry, NEW e
    PROVE  Occurrences(e, Append(s, x)) = Occurrences(e, s) + (IF x = e THEN 1 ELSE 0)
<1> DEFINE old == {i \in 1 .. Len(s) : s[i] = e}
           new == {i \in 1 .. Len(Append(s, x)) : Append(s, x)[i] = e}
<1>1. /\ Len(s) \in Nat /\ Len(Append(s, x)) = Len(s) + 1
      /\ \A i \in 1 .. Len(s) : Append(s, x)[i] = s[i]
      /\ Append(s, x)[Len(s) + 1] = x
  BY AppendProperties, LenProperties
<1>2. new = IF x = e THEN old \cup {Len(s) + 1} ELSE old
  BY <1>1
<1>3. Len(s) + 1 \notin old
  BY <1>1
<1>4. IsFiniteSet(old) /\ Cardinality(old) \in Nat
  BY OccurrencesType DEF Occurrences
<1> HIDE DEF old, new
<1>5. Cardinality(new) = Cardinality(old) + (IF x = e THEN 1 ELSE 0)
  <2>1. CASE x = e
    BY <2>1, <1>2, <1>3, <1>4, FS_AddElement
  <2>2. CASE x # e
    BY <2>2, <1>2, <1>4
  <2>3. QED
    BY <2>1, <2>2
<1>6. QED
  BY <1>5 DEF Occurrences, old, new

(* The occurrences in a concatenation are those in its two parts. *)
LEMMA OccurrencesConcat ==
    ASSUME NEW s \in Seq(Entry), NEW t \in Seq(Entry), NEW e
    PROVE  Occurrences(e, s \o t) = Occurrences(e, s) + Occurrences(e, t)
<1> DEFINE inS == {i \in 1 .. Len(s) : s[i] = e}
           inT == {i \in 1 .. Len(t) : t[i] = e}
           shifted == {i \in Len(s) + 1 .. Len(s) + Len(t) : t[i - Len(s)] = e}
           both == {i \in 1 .. Len(s \o t) : (s \o t)[i] = e}
<1>1. /\ Len(s) \in Nat /\ Len(t) \in Nat /\ Len(s \o t) = Len(s) + Len(t)
      /\ \A i \in 1 .. Len(s) + Len(t) :
            (s \o t)[i] = IF i <= Len(s) THEN s[i] ELSE t[i - Len(s)]
  BY ConcatProperties, LenProperties
<1>2. both = inS \cup shifted
  BY <1>1
<1>3. inS \cap shifted = {}
  BY <1>1
<1>4. /\ IsFiniteSet(inS) /\ IsFiniteSet(inT)
      /\ Cardinality(inS) \in Nat /\ Cardinality(inT) \in Nat
  BY OccurrencesType DEF Occurrences
<1>5. ExistsBijection(inT, shifted)
  <2> DEFINE f == [i \in inT |-> i + Len(s)]
  <2>1. f \in Bijection(inT, shifted)
    <3>1. f \in [inT -> shifted]
      BY <1>1
    <3>2. \A i, j \in inT : f[i] = f[j] => i = j
      BY <1>1
    <3>3. \A j \in shifted : \E i \in inT : f[i] = j
      <4> TAKE j \in shifted
      <4>1. j - Len(s) \in inT
        BY <1>1
      <4>2. f[j - Len(s)] = j
        BY <1>1, <4>1
      <4>3. QED
        BY <4>1, <4>2
    <3> HIDE DEF f, inT, shifted
    <3>4. QED
      BY <3>1, <3>2, <3>3 DEF Bijection, Injection, Surjection, IsInjective
  <2>2. QED
    BY <2>1 DEF ExistsBijection
<1> HIDE DEF inS, inT, shifted, both
<1>6. IsFiniteSet(shifted) /\ Cardinality(shifted) = Cardinality(inT)
  BY <1>4, <1>5, FS_Bijection
<1>7. Cardinality(both) = Cardinality(inS) + Cardinality(shifted)
  <2>1. Cardinality(inS \cap shifted) = 0
    BY <1>3, FS_EmptySet
  <2>2. Cardinality(inS \cup shifted)
           = Cardinality(inS) + Cardinality(shifted) - Cardinality(inS \cap shifted)
    BY <1>4, <1>6, FS_Union
  <2>3. QED
    BY <2>1, <2>2, <1>2, <1>4, <1>6
<1>8. QED
  BY <1>6, <1>7 DEF Occurrences, inS, inT, both
-----------------------------------------------------------------------------
(* After i entries, order_by_health has put the good ones and the bad ones   *)
(* apart, and kept every one of them.                                        *)
Sorted(s, p, i) ==
    /\ p \in [good : Seq(Entry), bad : Seq(Entry)]
    /\ Len(p.good) + Len(p.bad) = i
    /\ \A j \in 1 .. Len(p.good) : ~BadAt(p.good[j], now)
    /\ \A j \in 1 .. Len(p.bad) : BadAt(p.bad[j], now)
    /\ \A e \in Entry :
          Occurrences(e, p.good) + Occurrences(e, p.bad) = Occurrences(e, SubSeq(s, 1, i))

(* The loop has sorted the entries it has seen, after every turn. *)
LEMMA SplitSorts ==
    ASSUME NEW s \in Seq(Entry)
    PROVE  \A i \in 0 .. Len(s) : Sorted(s, Split(s)[i], i)
<1> DEFINE T == {i \in Nat : i <= Len(s) => Sorted(s, Split(s)[i], i)}
<1> Len(s) \in Nat
  BY LenProperties
<1>1. \A i \in 0 .. Len(s) : Split(s)[i] = SplitStep(s, Split(s), i)
  BY SplitUnfolds
<1>2. Sorted(s, Split(s)[0], 0)
  <2>1. Split(s)[0] = [good |-> << >>, bad |-> << >>]
    <3>1. Split(s)[0] = SplitStep(s, Split(s), 0)
      BY <1>1
    <3>2. QED
      BY <3>1, Zenon DEF SplitStep
  <2>2. SubSeq(s, 1, 0) = << >>
    BY SubSeqEmpty
  <2>3. QED
    <3> DEFINE p == Split(s)[0]
    <3>1. p.good = << >> /\ p.bad = << >> /\ p \in [good : Seq(Entry), bad : Seq(Entry)]
      BY <2>1, EmptySeq
    <3> HIDE DEF p
    <3>2. \A e \in Entry : Occurrences(e, p.good) + Occurrences(e, p.bad)
                             = Occurrences(e, SubSeq(s, 1, 0))
      <4> TAKE e \in Entry
      <4>1. Occurrences(e, p.good) = 0 /\ Occurrences(e, p.bad) = 0
            /\ Occurrences(e, SubSeq(s, 1, 0)) = 0
        BY <2>2, <3>1, OccurrencesEmpty, Zenon
      <4>2. QED
        BY <4>1
    <3>3. QED
      BY <3>1, <3>2 DEF Sorted, p
<1>3. ASSUME NEW i \in Nat, i + 1 <= Len(s), Sorted(s, Split(s)[i], i)
      PROVE  Sorted(s, Split(s)[i + 1], i + 1)
  <2> DEFINE p == Split(s)[i]
             q == Split(s)[i + 1]
             x == s[i + 1]
  <2>1. x \in Entry
    BY <1>3, ElementOfSeq
  <2>2. q = IF BadAt(x, now) THEN [p EXCEPT !.bad = Append(@, x)]
            ELSE [p EXCEPT !.good = Append(@, x)]
    <3>1. i + 1 \in 0 .. Len(s) /\ i + 1 # 0 /\ (i + 1) - 1 = i
      BY <1>3
    <3>2. Split(s)[i + 1] = SplitStep(s, Split(s), i + 1)
      BY <3>1, <1>1
    <3>3. QED
      BY <3>1, <3>2, Zenon DEF SplitStep
  <2>3. SubSeq(s, 1, i + 1) = Append(SubSeq(s, 1, i), x) /\ SubSeq(s, 1, i) \in Seq(Entry)
    <3>1. SubSeq(s, 1, i + 1) = SubSeq(s, 1, i) \o <<x>>
      BY <1>3, SubSeqRecursiveSecond
    <3>2. SubSeq(s, 1, i) \in Seq(Entry)
      BY <1>3, SubSeqProperties, ElementOfSeq
    <3>3. QED
      BY <3>1, <3>2, <2>1, AppendIsConcat
  <2>4. \A e \in Entry : Occurrences(e, SubSeq(s, 1, i + 1))
                           = Occurrences(e, SubSeq(s, 1, i)) + (IF x = e THEN 1 ELSE 0)
    <3> DEFINE seen == SubSeq(s, 1, i)
    <3> HIDE DEF x, seen
    <3>1. seen \in Seq(Entry) /\ SubSeq(s, 1, i + 1) = Append(seen, x)
      BY <2>3 DEF seen
    <3>2. \A e \in Entry : Occurrences(e, Append(seen, x))
                             = Occurrences(e, seen) + (IF x = e THEN 1 ELSE 0)
      BY <2>1, <3>1, OccurrencesAppend
    <3>3. QED
      BY <3>1, <3>2, Zenon DEF seen
  <2>5. /\ p \in [good : Seq(Entry), bad : Seq(Entry)] /\ Len(p.good) + Len(p.bad) = i
        /\ \A j \in 1 .. Len(p.good) : ~BadAt(p.good[j], now)
        /\ \A j \in 1 .. Len(p.bad) : BadAt(p.bad[j], now)
        /\ \A e \in Entry :
              Occurrences(e, p.good) + Occurrences(e, p.bad) = Occurrences(e, SubSeq(s, 1, i))
    BY <1>3 DEF Sorted
  <2>6. \A e \in Entry : /\ Occurrences(e, p.good) \in Nat /\ Occurrences(e, p.bad) \in Nat
                         /\ Occurrences(e, SubSeq(s, 1, i)) \in Nat
    BY <2>3, <2>5, OccurrencesType
  <2>7. Len(p.good) \in Nat /\ Len(p.bad) \in Nat
    BY <2>5, LenProperties
  <2> HIDE DEF p, q, x
  <2>8. CASE BadAt(x, now)
    <3>1. q.good = p.good /\ q.bad = Append(p.bad, x)
          /\ q \in [good : Seq(Entry), bad : Seq(Entry)]
      BY <2>1, <2>2, <2>5, <2>8, AppendProperties
    <3>2. /\ Len(q.bad) = Len(p.bad) + 1 /\ q.bad[Len(p.bad) + 1] = x
          /\ \A j \in 1 .. Len(p.bad) : q.bad[j] = p.bad[j]
      BY <2>1, <2>5, <3>1, AppendProperties
    <3>3. \A e \in Entry : Occurrences(e, q.bad)
                             = Occurrences(e, p.bad) + (IF x = e THEN 1 ELSE 0)
      BY <2>1, <2>5, <3>1, OccurrencesAppend
    <3>4. Len(q.good) + Len(q.bad) = i + 1
      <4>1. Len(q.good) = Len(p.good)
        BY <3>1, Zenon
      <4>2. QED
        BY <4>1, <2>5, <2>7, <3>2
    <3>5. \A j \in 1 .. Len(q.bad) : BadAt(q.bad[j], now)
      <4> TAKE j \in 1 .. Len(q.bad)
      <4>1. j \in 1 .. Len(p.bad) \/ j = Len(p.bad) + 1
        BY <2>7, <3>2
      <4>2. QED
        BY <4>1, <3>2, <2>5, <2>8, Zenon
    <3>6. \A e \in Entry : Occurrences(e, q.good) + Occurrences(e, q.bad)
                             = Occurrences(e, SubSeq(s, 1, i + 1))
      <4> TAKE e \in Entry
      <4> DEFINE one == IF x = e THEN 1 ELSE 0
                 good == Occurrences(e, p.good)
                 bad == Occurrences(e, p.bad)
                 seen == Occurrences(e, SubSeq(s, 1, i))
      <4>1. /\ Occurrences(e, SubSeq(s, 1, i + 1)) = seen + one
            /\ Occurrences(e, q.bad) = bad + one /\ Occurrences(e, q.good) = good
        BY <2>4, <3>1, <3>3, Zenon
      <4>2. good + bad = seen /\ good \in Nat /\ bad \in Nat /\ seen \in Nat /\ one \in Nat
        BY <2>5, <2>6
      <4> HIDE DEF one, good, bad, seen
      <4>3. QED
        BY <4>1, <4>2
    <3>7. QED
      BY <2>5, <3>1, <3>4, <3>5, <3>6 DEF Sorted, q
  <2>9. CASE ~BadAt(x, now)
    <3>1. q.bad = p.bad /\ q.good = Append(p.good, x)
          /\ q \in [good : Seq(Entry), bad : Seq(Entry)]
      BY <2>1, <2>2, <2>5, <2>9, AppendProperties
    <3>2. /\ Len(q.good) = Len(p.good) + 1 /\ q.good[Len(p.good) + 1] = x
          /\ \A j \in 1 .. Len(p.good) : q.good[j] = p.good[j]
      BY <2>1, <2>5, <3>1, AppendProperties
    <3>3. \A e \in Entry : Occurrences(e, q.good)
                             = Occurrences(e, p.good) + (IF x = e THEN 1 ELSE 0)
      BY <2>1, <2>5, <3>1, OccurrencesAppend
    <3>4. Len(q.good) + Len(q.bad) = i + 1
      BY <2>5, <2>7, <3>1, <3>2
    <3>5. \A j \in 1 .. Len(q.good) : ~BadAt(q.good[j], now)
      <4> TAKE j \in 1 .. Len(q.good)
      <4>1. j \in 1 .. Len(p.good) \/ j = Len(p.good) + 1
        BY <2>7, <3>2
      <4>2. QED
        BY <4>1, <3>2, <2>5, <2>9, Zenon
    <3>6. \A e \in Entry : Occurrences(e, q.good) + Occurrences(e, q.bad)
                             = Occurrences(e, SubSeq(s, 1, i + 1))
      <4> TAKE e \in Entry
      <4> DEFINE one == IF x = e THEN 1 ELSE 0
                 good == Occurrences(e, p.good)
                 bad == Occurrences(e, p.bad)
                 seen == Occurrences(e, SubSeq(s, 1, i))
      <4>1. /\ Occurrences(e, SubSeq(s, 1, i + 1)) = seen + one
            /\ Occurrences(e, q.good) = good + one /\ Occurrences(e, q.bad) = bad
        BY <2>4, <3>1, <3>3, Zenon
      <4>2. good + bad = seen /\ good \in Nat /\ bad \in Nat /\ seen \in Nat /\ one \in Nat
        BY <2>5, <2>6
      <4> HIDE DEF one, good, bad, seen
      <4>3. QED
        BY <4>1, <4>2
    <3>7. QED
      BY <2>5, <3>1, <3>4, <3>5, <3>6 DEF Sorted, q
  <2>10. QED
    BY <2>8, <2>9
<1>4. T = Nat
  <2>1. 0 \in T
    BY <1>2
  <2>2. \A i \in T : i + 1 \in T
    BY <1>3
  <2> HIDE DEF T
  <2>3. T \in SUBSET Nat
    BY DEF T
  <2>4. QED
    BY <2>1, <2>2, <2>3, Induction
<1>5. QED
  BY <1>4

(* order_by_health returns every entry it was given, as often as it was      *)
(* given, and none marked bad before one that is not (_net.py:164-173).      *)
THEOREM OrderKeepsAll ==
    ASSUME NEW s \in Seq(Entry)
    PROVE  LET r == OrderByHealth(s)
           IN /\ r \in Seq(Entry) /\ Len(r) = Len(s)
              /\ \A e \in Entry : Occurrences(e, r) = Occurrences(e, s)
              /\ \A i, j \in 1 .. Len(r) : i < j /\ BadAt(r[i], now) => BadAt(r[j], now)
<1> DEFINE p == Split(s)[Len(s)]
           g == p.good
           b == p.bad
<1>1. Len(s) \in Nat /\ SubSeq(s, 1, Len(s)) = s
  BY LenProperties, SubSeqFull
<1>2. Sorted(s, p, Len(s))
  BY <1>1, SplitSorts, SMTT(40)
<1> HIDE DEF p
<1>3. /\ g \in Seq(Entry) /\ b \in Seq(Entry) /\ Len(g) + Len(b) = Len(s)
      /\ \A j \in 1 .. Len(g) : ~BadAt(g[j], now)
      /\ \A j \in 1 .. Len(b) : BadAt(b[j], now)
      /\ \A e \in Entry : Occurrences(e, g) + Occurrences(e, b) = Occurrences(e, s)
  BY <1>1, <1>2, ZenonT(40) DEF Sorted
<1>4. OrderByHealth(s) = g \o b
  BY DEF OrderByHealth, p
<1> HIDE DEF g, b
<1> DEFINE r == g \o b
<1>5. /\ r \in Seq(Entry) /\ Len(r) = Len(g) + Len(b) /\ Len(g) \in Nat /\ Len(b) \in Nat
      /\ \A i \in 1 .. Len(g) + Len(b) : r[i] = IF i <= Len(g) THEN g[i] ELSE b[i - Len(g)]
  BY <1>3, ConcatProperties, LenProperties
<1>6. \A e \in Entry : Occurrences(e, r) = Occurrences(e, s)
  BY <1>3, OccurrencesConcat
<1> HIDE DEF r
<1>7. \A i, j \in 1 .. Len(r) : i < j /\ BadAt(r[i], now) => BadAt(r[j], now)
  <2> SUFFICES ASSUME NEW i \in 1 .. Len(r), NEW j \in 1 .. Len(r), i < j, BadAt(r[i], now)
               PROVE  BadAt(r[j], now)
    OBVIOUS
  <2>1. ~(i <= Len(g))
    <3> SUFFICES ASSUME i <= Len(g) PROVE FALSE
      OBVIOUS
    <3>1. i \in 1 .. Len(g) /\ r[i] = g[i]
      BY <1>5
    <3>2. QED
      BY <3>1, <1>3, Zenon
  <2>2. j - Len(g) \in 1 .. Len(b) /\ r[j] = b[j - Len(g)]
    BY <2>1, <1>5
  <2>3. QED
    BY <2>2, <1>3, Zenon
<1>8. OrderByHealth(s) = r
  BY <1>4 DEF r
<1>9. QED
  BY <1>3, <1>5, <1>6, <1>7, <1>8
-----------------------------------------------------------------------------
(* A prober looks at a suffix of its answer, checks a proxy and not DIRECT,  *)
(* and has passed over entries with no port or found bad.                    *)
MayPass(e) == e # Direct /\ (e \in Portless \/ KeyOf[e] \in foundBad)

ScansOn(q) ==
    /\ probe[q] = "check" => left[q] # << >> /\ Head(left[q]) # Direct
    /\ start[q] <= now
    /\ Len(left[q]) <= Len(answer[q])
    /\ \A i \in 1 .. Len(left[q]) : left[q][i] = answer[q][Len(answer[q]) - Len(left[q]) + i]
    /\ \A i \in 1 .. Len(answer[q]) - Len(left[q]) : MayPass(answer[q][i])

Scanning == \A q \in Prober : ScansOn(q)

(* What is blacklisted was found bad. *)
BannedWereBad == \A k \in Key : breaker[k] > 0 => k \in foundBad

(* While all mark with one ttl, no mark promises more than the latest one,   *)
(* and a key that no prober wrote is blacklisted for as long as promised.    *)
PromisesKept ==
    OneTtl =>
        /\ \A s \in Sender : TtlOf[s] # 0 => \A k \in Key : badUntil[k] <= now + TtlOf[s]
        /\ \A k \in Key : skipUntil[k] = 0 => badUntil[k] <= breaker[k]

(* A request under way is at one of its candidates; those are the whole      *)
(* answer when the adapter fails over.  While it connects, every time it was *)
(* delivered has been reported as never sent.                                *)
Trying ==
    \A s \in Sender :
        /\ sending[s] # "idle" => ended[s] = "none" /\ index[s] \in 1 .. Len(candidates[s])
        /\ sending[s] = "connecting" => delivered[s] <= misreported[s]
        /\ FailsOver[s] /\ (sending[s] # "idle" \/ ended[s] = "unsent") =>
              /\ Len(candidates[s]) = Len(given[s])
              /\ \A e \in Entry : Occurrences(e, candidates[s]) = Occurrences(e, given[s])
        /\ FailsOver[s] /\ ended[s] = "unsent" => index[s] = Len(candidates[s])

(* The inductive invariant. *)
IInv ==
    TypeOK /\ Scanning /\ BannedWereBad /\ BansExpire /\ PromisesKept /\ Trying /\ ResentOnlyIfMisled

-----------------------------------------------------------------------------
USE HealthAssumption, FailoverAssumption

(* A key is that of a proxy. *)
LEMMA KeyOfProxy == \A e \in Entry : e # Direct => KeyOf[e] \in Key
BY DEF Entry

(* An answer is a sequence of entries with at least one. *)
LEMMA AnswerType ==
    ASSUME NEW a \in Answers
    PROVE  a \in Seq(Entry) /\ Len(a) \in Nat \ {0} /\ Head(a) \in Entry
BY EmptySeq, HeadTailProperties

(* The head of what a prober has left is an entry, and so is what follows it. *)
LEMMA LeftType ==
    ASSUME NEW q \in Prober, left \in [Prober -> Seq(Entry)], left[q] # << >>
    PROVE  /\ Head(left[q]) \in Entry /\ Tail(left[q]) \in Seq(Entry)
           /\ Len(left[q]) \in Nat \ {0} /\ Len(Tail(left[q])) = Len(left[q]) - 1
           /\ Head(left[q]) = left[q][1]
           /\ \A i \in 1 .. Len(left[q]) - 1 : Tail(left[q])[i] = left[q][i + 1]
BY HeadTailProperties, EmptySeq

(* The candidate a request is at is an entry of the answer. *)
LEMMA CurrentType ==
    ASSUME NEW s \in Sender, TypeOK, Trying, sending[s] # "idle"
    PROVE  Current(s) \in Entry
BY ElementOfSeq DEF TypeOK, Trying, Current

(* A library raised an error for the request, whatever became of it. *)
Raising(s) == CannotConnect(s) \/ Breaks(s)

(* The loop then marks the entry and goes on, or lets the error out.         *)
LEMMA Raised ==
    ASSUME NEW s \in Sender, Raising(s)
    PROVE  /\ sending[s] # "idle"
           /\ (FailsOver[s] /\ GoOn(s)) \/ GiveUp(s)
           /\ \E m \in BOOLEAN : Misreport(s, m)
           /\ UNCHANGED <<now, proberVars, skipUntil, given, candidates, delivered, sends>>
<1>1. PICK error : Raise(s, error) /\ sending[s] # "idle" /\ \E m \in BOOLEAN : Misreport(s, m)
  BY DEF Raising, CannotConnect, Breaks
<1>2. QED
  BY <1>1 DEF Raise

(* Of what is raised for a request that was sent, only a proxy error passes  *)
(* for a failure to send it.                                                 *)
LEMMA ToldApart ==
    ASSUME NEW s \in Sender, NEW error \in BrokenErrors(LibraryOf[s], Current(s)),
           FailedBeforeSending(LibraryOf[s], error)
    PROVE  error = "ProxyError"
<1>1. LibraryOf[s] \in Library
  OBVIOUS
<1>2. QED
  BY <1>1 DEF BrokenErrors, FailedBeforeSending, Library

(* Every step of a request or a prober keeps the types. *)
LEMMA TypeStep == IInv /\ [Next]_vars => TypeOK'
<1> SUFFICES ASSUME IInv, [Next]_vars PROVE TypeOK'
  OBVIOUS
<1> USE DEF IInv, TypeOK, HealthTypeOK
<1>1. ASSUME NEW s \in Sender, BeginSend(s) PROVE TypeOK'
  <2>1. PICK a \in Answers :
          /\ given' = [given EXCEPT ![s] = a]
          /\ candidates' = [candidates EXCEPT
                              ![s] = IF FailsOver[s] THEN OrderByHealth(a) ELSE <<Head(a)>>]
    BY <1>1 DEF BeginSend
  <2>2. a \in Seq(Entry) /\ OrderByHealth(a) \in Seq(Entry) /\ <<Head(a)>> \in Seq(Entry)
    BY AnswerType, OrderKeepsAll
  <2>3. given' \in [Sender -> Seq(Entry)] /\ candidates' \in [Sender -> Seq(Entry)]
    BY <2>1, <2>2
  <2>4. sends' \in 0 .. MaxSends
    BY <1>1 DEF BeginSend
  <2>5. QED
    BY <1>1, <2>3, <2>4 DEF BeginSend, Stages, Ends, healthVars, proberVars, promises
<1>2. ASSUME NEW s \in Sender, Sends(s) \/ Redirects(s) \/ Responds(s) PROVE TypeOK'
  <2>1. /\ \E stage \in Stages : sending' = [sending EXCEPT ![s] = stage]
        /\ ended' = [ended EXCEPT ![s] = "response"] \/ ended' = ended
    BY <1>2 DEF Sends, Redirects, Responds, EndSend, Stages
  <2>2. sending' \in [Sender -> Stages] /\ ended' \in [Sender -> Ends]
    <3>1. PICK stage \in Stages : sending' = [sending EXCEPT ![s] = stage]
      BY <2>1
    <3>2. ended' \in [Sender -> Ends]
      BY <2>1 DEF Ends
    <3>3. QED
      BY <3>1, <3>2
  <2>3. delivered' \in [Sender -> Nat]
    <3> DEFINE n == IF sending[s] = "connecting" THEN 1 ELSE 0
    <3>1. delivered' = [delivered EXCEPT ![s] = @ + n] \/ delivered' = delivered
      BY <1>2 DEF Sends, Redirects, Responds
    <3>2. delivered[s] + n \in Nat
      OBVIOUS
    <3>3. QED
      BY <3>1, <3>2
  <2>4. UNCHANGED <<healthVars, given, candidates, index, misreported, sends>>
    BY <1>2 DEF Sends, Redirects, Responds
  <2>5. QED
    BY <2>2, <2>3, <2>4 DEF healthVars, proberVars, promises
<1>3. ASSUME NEW s \in Sender, Raising(s) PROVE TypeOK'
  <2>1. /\ sending[s] # "idle"
        /\ (FailsOver[s] /\ GoOn(s)) \/ GiveUp(s)
        /\ \E m \in BOOLEAN : Misreport(s, m)
        /\ UNCHANGED <<now, proberVars, skipUntil, given, candidates, delivered, sends>>
    BY <1>3, Raised
  <2>2. breaker' \in [Key -> Nat] /\ badUntil' \in [Key -> Nat] /\ foundBad' \subseteq Key
    <3>1. CASE GoOn(s) /\ Current(s) # Direct /\ TtlOf[s] > 0
      <4>1. KeyOf[Current(s)] \in Key
        BY <2>1, <3>1, CurrentType, KeyOfProxy
      <4>2. now + TtlOf[s] \in Nat
        OBVIOUS
      <4>3. /\ breaker' = [breaker EXCEPT ![KeyOf[Current(s)]] = now + TtlOf[s]]
            /\ badUntil' = [badUntil EXCEPT ![KeyOf[Current(s)]] = Later(@, now + TtlOf[s])]
            /\ foundBad' = foundBad \cup {KeyOf[Current(s)]}
        BY <3>1 DEF GoOn, MarkBad, Blacklist, Promise
      <4>4. QED
        BY <4>1, <4>2, <4>3 DEF Later
    <3>2. CASE GoOn(s) /\ ~(Current(s) # Direct /\ TtlOf[s] > 0)
      BY <3>2 DEF GoOn, MarkBad
    <3>3. CASE GiveUp(s)
      BY <3>3 DEF GiveUp
    <3>4. QED
      BY <2>1, <3>1, <3>2, <3>3
  <2>3. index' \in [Sender -> Nat] /\ ended' \in [Sender -> Ends] /\ sending' \in [Sender -> Stages]
    <3>1. \/ /\ index' = [index EXCEPT ![s] = @ + 1] /\ UNCHANGED ended
             /\ sending' = [sending EXCEPT ![s] = "connecting"]
          \/ (EndSend(s, "unsent") \/ EndSend(s, "failed")) /\ UNCHANGED index
      BY <2>1, Zenon DEF GoOn, GiveUp
    <3>2. CASE /\ index' = [index EXCEPT ![s] = @ + 1] /\ UNCHANGED ended
               /\ sending' = [sending EXCEPT ![s] = "connecting"]
      <4>1. index[s] + 1 \in Nat
        OBVIOUS
      <4>2. QED
        BY <3>2, <4>1 DEF Stages
    <3>3. CASE (EndSend(s, "unsent") \/ EndSend(s, "failed")) /\ UNCHANGED index
      BY <3>3 DEF EndSend, Stages, Ends
    <3>4. QED
      BY <3>1, <3>2, <3>3
  <2>4. misreported' \in [Sender -> Nat]
    <3>1. PICK m \in BOOLEAN : Misreport(s, m)
      BY <2>1
    <3>2. misreported[s] + (IF m THEN 1 ELSE 0) \in Nat
      OBVIOUS
    <3>3. QED
      BY <3>1, <3>2 DEF Misreport
  <2>5. QED
    BY <2>1, <2>2, <2>3, <2>4 DEF proberVars
<1>4. ASSUME NEW q \in Prober, BeginProbing(q), UNCHANGED senderVars PROVE TypeOK'
  BY <1>4 DEF BeginProbing, promises, senderVars
<1>5. ASSUME NEW q \in Prober, UNCHANGED senderVars,
             ReturnDirect(q) \/ Check(q) \/ NoneReachable(q)
      PROVE  TypeOK'
  BY <1>5 DEF ReturnDirect, Check, NoneReachable, Stop, Entry, promises, senderVars
<1>6. ASSUME NEW q \in Prober, UNCHANGED senderVars, Skip(q) PROVE TypeOK'
  <2>1. Tail(left[q]) \in Seq(Entry)
    BY <1>6, LeftType DEF Skip
  <2>2. QED
    BY <1>6, <2>1 DEF Skip, Pass, promises, senderVars
<1>7. ASSUME NEW q \in Prober, UNCHANGED senderVars, Connects(q) PROVE TypeOK'
  <2>1. Head(left[q]) \in Entry
    BY <1>7, LeftType DEF Connects, Scanning, ScansOn
  <2>2. QED
    BY <1>7, <2>1 DEF Connects, Stop, promises, senderVars
<1>8. ASSUME NEW q \in Prober, UNCHANGED senderVars, Fails(q) PROVE TypeOK'
  <2>1. Tail(left[q]) \in Seq(Entry) /\ KeyOf[Head(left[q])] \in Key
    BY <1>8, LeftType, KeyOfProxy DEF Fails, Scanning, ScansOn
  <2>2. start[q] + ProbeTtl \in Nat /\ now + ProbeTtl \in Nat
    OBVIOUS
  <2>3. breaker' \in [Key -> Nat] /\ skipUntil' \in [Key -> Nat] /\ foundBad' \subseteq Key
    BY <1>8, <2>1, <2>2 DEF Fails, FoundBad, Blacklist, Later
  <2>4. QED
    BY <1>8, <2>1, <2>3 DEF Fails, Pass, senderVars
<1>9. ASSUME ClearBreaker \/ Tick, UNCHANGED senderVars PROVE TypeOK'
  <2>1. CASE ClearBreaker
    BY <1>9, <2>1 DEF ClearBreaker, proberVars, senderVars
  <2>2. CASE Tick
    BY <1>9, <2>2 DEF Tick, proberVars, promises, senderVars
  <2>3. QED
    BY <1>9, <2>1, <2>2
<1>10. CASE UNCHANGED vars
  BY <1>10 DEF vars, healthVars, proberVars, promises, senderVars
<1>11. QED
  BY <1>1, <1>2, <1>3, <1>4, <1>5, <1>6, <1>7, <1>8, <1>9, <1>10
     DEF Next, Sending, Raising, HealthNext, Probing

(* A step that leaves a prober alone leaves what it has passed over alone:   *)
(* the clock does not go back, and what was found bad stays found.           *)
LEMMA OthersScan ==
    ASSUME NEW q \in Prober, TypeOK, ScansOn(q), foundBad \subseteq foundBad',
           now \in Nat, now' \in Nat, now <= now',
           probe'[q] = probe[q] \/ probe'[q] = "idle",
           answer'[q] = answer[q], left'[q] = left[q], start'[q] = start[q]
    PROVE  ScansOn(q)'
<1>1. start[q] \in Nat
  BY DEF TypeOK, HealthTypeOK
<1>2. probe'[q] = "check" => left'[q] # << >> /\ Head(left'[q]) # Direct
  BY DEF ScansOn
<1>3. /\ Len(left'[q]) <= Len(answer'[q])
      /\ \A i \in 1 .. Len(left'[q]) :
            left'[q][i] = answer'[q][Len(answer'[q]) - Len(left'[q]) + i]
  BY DEF ScansOn
<1>4. \A i \in 1 .. Len(answer'[q]) - Len(left'[q]) : MayPass(answer[q][i])
  BY DEF ScansOn
<1>5. start'[q] <= now'
  BY <1>1 DEF ScansOn
<1>6. QED
  BY <1>2, <1>3, <1>4, <1>5 DEF ScansOn, MayPass

(* A prober that passes over the head of what it has left, when that may be  *)
(* passed over, goes on with the rest of its answer.                         *)
LEMMA PassesHead ==
    ASSUME NEW q \in Prober, TypeOK, ScansOn(q), left[q] # << >>,
           NEW e, e = Head(left[q]), e # Direct, e \in Portless \/ KeyOf[e] \in foundBad',
           foundBad \subseteq foundBad', now' = now,
           probe'[q] = "scan", answer'[q] = answer[q], left'[q] = Tail(left[q]),
           start'[q] = start[q]
    PROVE  ScansOn(q)'
<1> DEFINE m == Len(answer[q])
           n == Len(left[q])
           Passes(x) == x # Direct /\ (x \in Portless \/ KeyOf[x] \in foundBad')
<1>1. /\ m \in Nat /\ n \in Nat \ {0} /\ n <= m /\ Len(left'[q]) = n - 1
      /\ e = left[q][1]
      /\ \A i \in 1 .. n - 1 : left'[q][i] = left[q][i + 1]
  <2>1. left[q] \in Seq(Entry) /\ answer[q] \in Seq(Entry)
    BY DEF TypeOK, HealthTypeOK
  <2>2. QED
    BY <2>1, LeftType, LenProperties DEF ScansOn, TypeOK, HealthTypeOK
<1>2. /\ \A i \in 1 .. n : left[q][i] = answer[q][m - n + i]
      /\ \A i \in 1 .. m - n : Passes(answer[q][i])
  BY DEF ScansOn, MayPass
<1>3. Passes(e)
  OBVIOUS
<1>4. start[q] <= now
  BY DEF ScansOn
<1>5. ASSUME /\ \A i \in 1 .. m - (n - 1) : Passes(answer[q][i])
             /\ \A i \in 1 .. n - 1 : left'[q][i] = answer[q][m - (n - 1) + i]
      PROVE  ScansOn(q)'
  <2>1. Len(answer'[q]) = m /\ Len(left'[q]) = n - 1 /\ n - 1 <= m
    BY <1>1
  <2>2. \A i \in 1 .. m - (n - 1) : MayPass(answer[q][i])'
    BY <1>5 DEF MayPass
  <2> HIDE DEF m, n, Passes
  <2>3. QED
    BY <2>1, <2>2, <1>4, <1>5 DEF ScansOn
<1> HIDE DEF m, n, Passes
<1>6. \A i \in 1 .. m - (n - 1) : Passes(answer[q][i])
  <2> TAKE i \in 1 .. m - (n - 1)
  <2>1. i \in 1 .. m - n \/ (i = m - n + 1 /\ 1 \in 1 .. n)
    BY <1>1
  <2>2. QED
    BY <2>1, <1>1, <1>2, <1>3
<1>7. \A i \in 1 .. n - 1 : left'[q][i] = answer[q][m - (n - 1) + i]
  <2> TAKE i \in 1 .. n - 1
  <2>1. i + 1 \in 1 .. n /\ m - n + (i + 1) = m - (n - 1) + i
    BY <1>1, SMTT(40)
  <2>2. left'[q][i] = left[q][i + 1]
    BY <1>1
  <2>3. left[q][i + 1] = answer[q][m - n + (i + 1)]
    BY <2>1, <1>2
  <2>4. QED
    BY <2>1, <2>2, <2>3
<1>8. QED
  BY <1>5, <1>6, <1>7

(* Each step of a prober passes over an entry of its answer that may be      *)
(* passed over, or none.                                                     *)
LEMMA ScanStep == IInv /\ [Next]_vars => Scanning'
<1> SUFFICES ASSUME IInv, [Next]_vars, NEW q \in Prober PROVE ScansOn(q)'
  BY DEF Scanning
<1>1. TypeOK /\ ScansOn(q) /\ BannedWereBad /\ TypeOK'
  BY TypeStep DEF IInv, Scanning
<1>2. now \in Nat /\ now' \in Nat
  BY <1>1 DEF TypeOK, HealthTypeOK
<1>3. ASSUME foundBad \subseteq foundBad', now <= now', UNCHANGED <<answer, left, start>>,
             probe'[q] = probe[q] \/ probe'[q] = "idle"
      PROVE  ScansOn(q)'
  BY <1>1, <1>2, <1>3, OthersScan
<1>4. ASSUME NEW s \in Sender, Sending(s) PROVE ScansOn(q)'
  <2>1. foundBad \subseteq foundBad' /\ now' = now /\ UNCHANGED proberVars
    <3>1. CASE Raising(s)
      BY <3>1, Raised DEF GoOn, GiveUp, MarkBad, Promise
    <3>2. CASE UNCHANGED healthVars
      BY <3>2 DEF healthVars, promises
    <3>3. QED
      BY <1>4, <3>1, <3>2 DEF Sending, Raising, BeginSend, Sends, Redirects, Responds
  <2>2. QED
    BY <2>1, <1>2, <1>3 DEF proberVars
<1>5. ASSUME NEW p \in Prober, Probing(p), p # q PROVE ScansOn(q)'
  <2>1. foundBad \subseteq foundBad' /\ now' = now
    BY <1>5 DEF Probing, BeginProbing, ReturnDirect, Skip, Check, Connects, Fails, FoundBad,
                NoneReachable, promises
  <2>2. /\ probe'[q] = probe[q] /\ answer'[q] = answer[q]
        /\ left'[q] = left[q] /\ start'[q] = start[q]
    BY <1>1, <1>5, SMTT(40) DEF TypeOK, HealthTypeOK, Probing, BeginProbing, ReturnDirect, Skip, Check,
                      Connects, Fails, NoneReachable, Stop, Pass
  <2>3. QED
    BY <1>1, <1>2, <2>1, <2>2, OthersScan
<1>6. CASE BeginProbing(q)
  <2>1. PICK a \in Answers : answer'[q] = a /\ left'[q] = a
    BY <1>1, <1>6 DEF BeginProbing, TypeOK, HealthTypeOK
  <2>2. start'[q] = now /\ now' = now /\ probe'[q] = "scan"
    BY <1>1, <1>6 DEF BeginProbing, TypeOK, HealthTypeOK
  <2>3. QED
    BY <1>2, <2>1, <2>2, AnswerType DEF ScansOn
<1>7. CASE ReturnDirect(q) \/ Connects(q) \/ NoneReachable(q)
  <2>1. probe'[q] = "idle" /\ UNCHANGED <<now, foundBad, answer, left, start>>
    BY <1>1, <1>7 DEF ReturnDirect, Connects, NoneReachable, Stop, TypeOK, HealthTypeOK, promises
  <2>2. QED
    BY <1>2, <1>3, <2>1
<1>8. CASE Check(q)
  <2>1. /\ left[q] # << >> /\ Head(left[q]) # Direct
        /\ UNCHANGED <<now, foundBad, answer, left, start>>
    BY <1>8 DEF Check, promises
  <2>2. QED
    BY <1>1, <2>1 DEF ScansOn, MayPass
<1>9. CASE Skip(q)
  <2>1. /\ probe[q] = "scan" /\ left[q] # << >> /\ Head(left[q]) # Direct /\ Skips(q)
        /\ left'[q] = Tail(left[q]) /\ UNCHANGED <<now, foundBad, probe, answer, start>>
    BY <1>1, <1>9 DEF Skip, Pass, TypeOK, HealthTypeOK, promises
  <2>2. MayPass(Head(left[q]))
    <3>1. CASE Head(left[q]) \in Portless
      BY <2>1, <3>1 DEF MayPass
    <3>2. CASE BadAt(Head(left[q]), start[q])
      <4> DEFINE k == KeyOf[Head(left[q])]
      <4>1. k \in Key
        BY <1>1, <2>1, LeftType, KeyOfProxy DEF TypeOK, HealthTypeOK
      <4>2. start[q] < breaker[k] /\ start[q] \in Nat /\ breaker[k] \in Nat
        BY <1>1, <3>2, <4>1 DEF BadAt, TypeOK, HealthTypeOK
      <4>3. k \in foundBad
        BY <1>1, <4>1, <4>2 DEF BannedWereBad
      <4>4. QED
        BY <2>1, <4>3 DEF MayPass
    <3>3. QED
      BY <2>1, <3>1, <3>2 DEF Skips
  <2>3. QED
    BY <1>1, <2>1, <2>2, PassesHead, Zenon DEF MayPass
<1>10. CASE Fails(q)
  <2>1. /\ left[q] # << >> /\ Head(left[q]) # Direct
        /\ left'[q] = Tail(left[q]) /\ probe'[q] = "scan" /\ UNCHANGED <<now, answer, start>>
        /\ foundBad' = foundBad \cup {KeyOf[Head(left[q])]}
    BY <1>1, <1>10 DEF Fails, FoundBad, Pass, TypeOK, HealthTypeOK, ScansOn
  <2>2. QED
    BY <1>1, <2>1, PassesHead
<1>11. CASE ClearBreaker \/ Tick
  <2>1. foundBad' = foundBad /\ (now' = now \/ now' = now + 1) /\ UNCHANGED proberVars
    BY <1>11 DEF ClearBreaker, Tick, promises
  <2>2. QED
    BY <1>2, <1>3, <2>1 DEF proberVars
<1>12. CASE UNCHANGED vars
  BY <1>2, <1>3, <1>12 DEF vars, healthVars, proberVars, promises
<1>13. QED
  BY <1>4, <1>5, <1>6, <1>7, <1>8, <1>9, <1>10, <1>11, <1>12
     DEF Next, HealthNext, Probing

(* A key is blacklisted only by someone who found it bad. *)
LEMMA BannedStep == IInv /\ [Next]_vars => BannedWereBad'
<1> SUFFICES ASSUME IInv, [Next]_vars, NEW k \in Key, breaker'[k] > 0 PROVE k \in foundBad'
  BY DEF BannedWereBad
<1>1. TypeOK /\ BannedWereBad /\ Scanning
  BY DEF IInv
<1>2. breaker \in [Key -> Nat]
  BY <1>1 DEF TypeOK, HealthTypeOK
<1>3. ASSUME breaker'[k] = breaker[k] \/ k \in foundBad', foundBad \subseteq foundBad'
      PROVE  k \in foundBad'
  BY <1>1, <1>3 DEF BannedWereBad
<1>4. ASSUME NEW s \in Sender, Sending(s) PROVE k \in foundBad'
  <2>1. CASE UNCHANGED <<breaker, foundBad>>
    BY <1>3, <2>1
  <2>2. CASE MarkBad(Current(s), TtlOf[s])
    BY <1>2, <1>3, <2>2 DEF MarkBad, Blacklist, Promise
  <2>3. CASE Raising(s)
    BY <2>1, <2>2, <2>3, Raised DEF GoOn, GiveUp
  <2>4. QED
    BY <1>4, <2>1, <2>3 DEF Sending, Raising, BeginSend, Sends, Redirects, Responds,
                            healthVars, promises
<1>5. ASSUME NEW q \in Prober, Probing(q) PROVE k \in foundBad'
  <2>1. CASE UNCHANGED <<breaker, foundBad>>
    BY <1>3, <2>1
  <2>2. CASE Fails(q)
    BY <1>2, <1>3, <2>2 DEF Fails, FoundBad, Blacklist
  <2>3. QED
    BY <1>5, <2>1, <2>2 DEF Probing, BeginProbing, ReturnDirect, Skip, Check, Connects,
                            NoneReachable, promises
<1>6. CASE ClearBreaker
  BY <1>6 DEF ClearBreaker
<1>7. CASE Tick \/ UNCHANGED vars
  BY <1>3, <1>7 DEF Tick, vars, healthVars, promises
<1>8. QED
  BY <1>4, <1>5, <1>6, <1>7 DEF Next, HealthNext

-----------------------------------------------------------------------------
(* The ways a step writes the breaker: an adapter's mark, a prober's, the    *)
(* clearing of the caches, or not at all.                                    *)
MarkStep(s) ==
    /\ TtlOf[s] > 0 /\ Current(s) # Direct /\ KeyOf[Current(s)] \in Key
    /\ breaker' = [breaker EXCEPT ![KeyOf[Current(s)]] = now + TtlOf[s]]
    /\ badUntil' = [badUntil EXCEPT ![KeyOf[Current(s)]] = Later(@, now + TtlOf[s])]
    /\ UNCHANGED <<now, skipUntil>>

ProbeStep(q) ==
    /\ KeyOf[Head(left[q])] \in Key
    /\ breaker' = [breaker EXCEPT ![KeyOf[Head(left[q])]] = start[q] + ProbeTtl]
    /\ skipUntil' = [skipUntil EXCEPT ![KeyOf[Head(left[q])]] = Later(@, now + ProbeTtl)]
    /\ UNCHANGED <<now, badUntil>>

ClearStep ==
    /\ breaker' = [k \in Key |-> 0] /\ badUntil' = [k \in Key |-> 0]
    /\ skipUntil' = [k \in Key |-> 0] /\ now' = now

RestStep == UNCHANGED <<breaker, badUntil, skipUntil>> /\ now <= now'

(* Every step is one of them. *)
LEMMA BreakerSteps ==
    IInv /\ [Next]_vars =>
        (\E s \in Sender : MarkStep(s)) \/ (\E q \in Prober : ProbeStep(q)) \/ ClearStep \/ RestStep
<1> SUFFICES ASSUME IInv, [Next]_vars
             PROVE  (\E s \in Sender : MarkStep(s)) \/ (\E q \in Prober : ProbeStep(q))
                    \/ ClearStep \/ RestStep
  OBVIOUS
<1>1. TypeOK /\ Scanning /\ Trying /\ now \in Nat
  BY DEF IInv, TypeOK, HealthTypeOK
<1>2. CASE UNCHANGED <<breaker, badUntil, skipUntil, now>>
  BY <1>1, <1>2 DEF RestStep
<1>3. ASSUME NEW s \in Sender, Raising(s) PROVE MarkStep(s) \/ RestStep
  <2>1. /\ sending[s] # "idle" /\ (GoOn(s) \/ GiveUp(s)) /\ UNCHANGED <<now, skipUntil>>
    BY <1>3, Raised
  <2>2. CASE GoOn(s) /\ Current(s) # Direct /\ TtlOf[s] > 0
    <3>1. KeyOf[Current(s)] \in Key
      BY <1>1, <2>1, <2>2, CurrentType, KeyOfProxy
    <3>2. QED
      BY <2>1, <2>2, <3>1 DEF GoOn, MarkBad, Blacklist, Promise, MarkStep
  <2>3. CASE GoOn(s) /\ ~(Current(s) # Direct /\ TtlOf[s] > 0)
    BY <1>1, <2>1, <2>3 DEF GoOn, MarkBad, RestStep
  <2>4. CASE GiveUp(s)
    BY <1>1, <2>1, <2>4 DEF GiveUp, RestStep
  <2>5. QED
    BY <2>1, <2>2, <2>3, <2>4
<1>4. ASSUME NEW q \in Prober, Fails(q) PROVE ProbeStep(q)
  <2>1. KeyOf[Head(left[q])] \in Key
    BY <1>1, <1>4, LeftType, KeyOfProxy DEF Fails, Scanning, ScansOn, TypeOK, HealthTypeOK
  <2>2. QED
    BY <1>4, <2>1 DEF Fails, FoundBad, Blacklist, ProbeStep
<1>5. CASE ClearBreaker
  BY <1>5 DEF ClearBreaker, ClearStep
<1>6. CASE Tick
  BY <1>1, <1>6 DEF Tick, RestStep, promises
<1>7. ASSUME NEW s \in Sender, Sending(s) PROVE MarkStep(s) \/ RestStep
  BY <1>1, <1>2, <1>3, <1>7 DEF Sending, Raising, BeginSend, Sends, Redirects, Responds,
                          healthVars, promises, RestStep
<1>8. ASSUME NEW q \in Prober, Probing(q) PROVE ProbeStep(q) \/ RestStep
  BY <1>1, <1>2, <1>4, <1>8 DEF Probing, BeginProbing, ReturnDirect, Skip, Check, Connects,
                          NoneReachable, promises, RestStep
<1>9. CASE UNCHANGED vars
  BY <1>2, <1>9 DEF vars, healthVars, promises
<1>10. QED
  BY <1>5, <1>6, <1>7, <1>8, <1>9 DEF Next, HealthNext

(* No mark outlives the longest ttl. *)
LEMMA BansStep == IInv /\ [Next]_vars => BansExpire'
<1> SUFFICES ASSUME IInv, [Next]_vars,
                    NEW ttl \in Ttls, \A other \in Ttls : other <= ttl, NEW k \in Key
             PROVE  breaker'[k] <= now' + ttl
  BY DEF BansExpire, NoBanOutlives, Ttls
<1>1. /\ breaker \in [Key -> Nat] /\ badUntil \in [Key -> Nat] /\ now \in Nat /\ now' \in Nat
      /\ \A q \in Prober : start[q] \in Nat /\ start[q] <= now
  BY TypeStep DEF IInv, TypeOK, HealthTypeOK, Scanning, ScansOn
<1>2. ttl \in Nat /\ ProbeTtl <= ttl /\ \A s \in Sender : TtlOf[s] \in Nat /\ TtlOf[s] <= ttl
  BY DEF Ttls
<1>3. breaker[k] <= now + ttl
  BY DEF IInv, BansExpire, NoBanOutlives
<1>4. ASSUME NEW s \in Sender, MarkStep(s) PROVE breaker'[k] <= now' + ttl
  BY <1>1, <1>2, <1>3, <1>4 DEF MarkStep
<1>5. ASSUME NEW q \in Prober, ProbeStep(q) PROVE breaker'[k] <= now' + ttl
  <2>1. start[q] + ProbeTtl <= now + ttl
    BY <1>1, <1>2
  <2>2. QED
    BY <2>1, <1>1, <1>3, <1>5 DEF ProbeStep
<1>6. CASE ClearStep
  BY <1>1, <1>2, <1>6 DEF ClearStep
<1>7. CASE RestStep
  BY <1>1, <1>2, <1>3, <1>7 DEF RestStep
<1>8. QED
  BY <1>4, <1>5, <1>6, <1>7, BreakerSteps

(* While all mark with one ttl, a mark that no prober wrote over keeps its   *)
(* promise: nobody shortens it.                                              *)
LEMMA PromisesStep == IInv /\ [Next]_vars => PromisesKept'
<1> SUFFICES ASSUME IInv, [Next]_vars, OneTtl, NEW k \in Key
             PROVE  /\ \A s \in Sender : TtlOf[s] # 0 => badUntil'[k] <= now' + TtlOf[s]
                    /\ skipUntil'[k] = 0 => badUntil'[k] <= breaker'[k]
  BY DEF PromisesKept, OneTtl
<1>1. /\ breaker \in [Key -> Nat] /\ badUntil \in [Key -> Nat] /\ skipUntil \in [Key -> Nat]
      /\ now \in Nat /\ now' \in Nat
  BY TypeStep DEF IInv, TypeOK, HealthTypeOK
<1>2. /\ \A s \in Sender : TtlOf[s] # 0 => badUntil[k] <= now + TtlOf[s]
      /\ skipUntil[k] = 0 => badUntil[k] <= breaker[k]
  BY DEF IInv, PromisesKept
<1>3. \A s, t \in Sender : TtlOf[s] # 0 /\ TtlOf[t] # 0 => TtlOf[s] = TtlOf[t]
  BY DEF OneTtl
<1>4. ASSUME NEW t \in Sender, MarkStep(t)
      PROVE  /\ \A s \in Sender : TtlOf[s] # 0 => badUntil'[k] <= now' + TtlOf[s]
             /\ skipUntil'[k] = 0 => badUntil'[k] <= breaker'[k]
  <2>1. TtlOf[t] \in Nat /\ TtlOf[t] # 0 /\ badUntil[k] <= now + TtlOf[t]
    BY <1>2, <1>4 DEF MarkStep
  <2>2. \A s \in Sender : TtlOf[s] # 0 => TtlOf[s] = TtlOf[t]
    BY <1>3, <2>1
  <2>3. CASE k = KeyOf[Current(t)]
    <3>1. badUntil'[k] = now + TtlOf[t] /\ breaker'[k] = now + TtlOf[t] /\ now' = now
      <4>1. badUntil'[k] = Later(badUntil[k], now + TtlOf[t]) /\ breaker'[k] = now + TtlOf[t]
            /\ now' = now
        BY <1>1, <1>4, <2>3 DEF MarkStep
      <4>2. badUntil[k] \in Nat /\ now + TtlOf[t] \in Nat
        BY <1>1, <2>1
      <4>3. Later(badUntil[k], now + TtlOf[t]) = now + TtlOf[t]
        BY <2>1, <4>2 DEF Later
      <4>4. QED
        BY <4>1, <4>3
    <3>2. QED
      BY <1>1, <2>1, <2>2, <3>1
  <2>4. CASE k # KeyOf[Current(t)]
    BY <1>1, <1>2, <1>4, <2>4 DEF MarkStep
  <2>5. QED
    BY <2>3, <2>4
<1>5. ASSUME NEW q \in Prober, ProbeStep(q)
      PROVE  /\ \A s \in Sender : TtlOf[s] # 0 => badUntil'[k] <= now' + TtlOf[s]
             /\ skipUntil'[k] = 0 => badUntil'[k] <= breaker'[k]
  <2>1. CASE k = KeyOf[Head(left[q])]
    <3>1. skipUntil'[k] = Later(skipUntil[k], now + ProbeTtl)
      BY <1>1, <1>5, <2>1 DEF ProbeStep
    <3>2. skipUntil'[k] # 0
      BY <1>1, <3>1 DEF Later
    <3>3. QED
      BY <1>2, <1>5, <3>2 DEF ProbeStep
  <2>2. CASE k # KeyOf[Head(left[q])]
    BY <1>1, <1>2, <1>5, <2>2 DEF ProbeStep
  <2>3. QED
    BY <2>1, <2>2
<1>6. CASE ClearStep
  BY <1>1, <1>6 DEF ClearStep
<1>7. CASE RestStep
  BY <1>1, <1>2, <1>7 DEF RestStep
<1>8. QED
  BY <1>4, <1>5, <1>6, <1>7, BreakerSteps

-----------------------------------------------------------------------------
(* A request leaves no candidate untried when it ends unsent, and is         *)
(* delivered again only by a library that said it had not been.              *)
TriesOn(s) ==
    /\ sending[s] # "idle" => ended[s] = "none" /\ index[s] \in 1 .. Len(candidates[s])
    /\ sending[s] = "connecting" => delivered[s] <= misreported[s]
    /\ FailsOver[s] /\ (sending[s] # "idle" \/ ended[s] = "unsent") =>
          /\ Len(candidates[s]) = Len(given[s])
          /\ \A e \in Entry : Occurrences(e, candidates[s]) = Occurrences(e, given[s])
    /\ FailsOver[s] /\ ended[s] = "unsent" => index[s] = Len(candidates[s])
    /\ delivered[s] <= 1 + misreported[s]

(* A step of any sender or prober leaves every sender in such a place. *)
LEMMA TryingStep == IInv /\ [Next]_vars => (Trying /\ ResentOnlyIfMisled)'
<1> SUFFICES ASSUME IInv, [Next]_vars, NEW s \in Sender PROVE TriesOn(s)'
  BY DEF Trying, TriesOn, ResentOnlyIfMisled
<1>1. /\ TypeOK /\ TriesOn(s) /\ sending[s] \in Stages
      /\ delivered[s] \in Nat /\ misreported[s] \in Nat
  BY DEF IInv, Trying, TriesOn, ResentOnlyIfMisled, TypeOK
<1>2. CASE /\ sending'[s] = sending[s] /\ given'[s] = given[s] /\ candidates'[s] = candidates[s]
           /\ index'[s] = index[s] /\ ended'[s] = ended[s]
           /\ delivered'[s] = delivered[s] /\ misreported'[s] = misreported[s]
  BY <1>1, <1>2 DEF TriesOn
<1>3. ASSUME NEW t \in Sender, Sending(t), t # s PROVE TriesOn(s)'
  <2>1. CASE BeginSend(t)
    BY <1>1, <1>2, <1>3, <2>1 DEF TypeOK, BeginSend
  <2>2. CASE Sends(t) \/ Redirects(t) \/ Responds(t)
    BY <1>1, <1>2, <1>3, <2>2 DEF TypeOK, Sends, Redirects, Responds, EndSend
  <2>3. CASE Raising(t)
    <3>1. /\ GoOn(t) \/ GiveUp(t)
          /\ \E m \in BOOLEAN : Misreport(t, m)
          /\ UNCHANGED <<given, candidates, delivered>>
      BY <2>3, Raised
    <3>2. sending'[s] = sending[s] /\ index'[s] = index[s] /\ ended'[s] = ended[s]
      BY <1>1, <1>3, <3>1 DEF TypeOK, GoOn, GiveUp, EndSend
    <3>3. misreported'[s] = misreported[s]
      BY <1>1, <1>3, <3>1 DEF TypeOK, Misreport
    <3>4. QED
      BY <1>2, <3>1, <3>2, <3>3
  <2>4. QED
    BY <1>3, <2>1, <2>2, <2>3 DEF Sending, Raising
<1>4. CASE BeginSend(s)
  <2>1. PICK a \in Answers :
          /\ given'[s] = a
          /\ candidates'[s] = IF FailsOver[s] THEN OrderByHealth(a) ELSE <<Head(a)>>
    BY <1>1, <1>4 DEF BeginSend, TypeOK
  <2>2. /\ index'[s] = 1 /\ sending'[s] = "connecting" /\ ended'[s] = "none"
        /\ delivered'[s] = 0 /\ misreported'[s] = 0
    BY <1>1, <1>4 DEF BeginSend, TypeOK
  <2>3. a \in Seq(Entry) /\ Len(a) \in Nat \ {0}
    BY AnswerType
  <2>4. CASE FailsOver[s]
    <3>1. /\ Len(candidates'[s]) = Len(a)
          /\ \A e \in Entry : Occurrences(e, candidates'[s]) = Occurrences(e, a)
      BY <2>1, <2>3, <2>4, OrderKeepsAll
    <3>2. QED
      BY <2>1, <2>2, <2>3, <3>1 DEF TriesOn
  <2>5. CASE ~FailsOver[s]
    BY <2>1, <2>2, <2>5 DEF TriesOn
  <2>6. QED
    BY <2>4, <2>5
<1>5. CASE Sends(s) \/ Redirects(s) \/ Responds(s)
  <2>1. /\ given'[s] = given[s] /\ candidates'[s] = candidates[s] /\ index'[s] = index[s]
        /\ misreported'[s] = misreported[s] /\ sending[s] # "idle"
    BY <1>5 DEF Sends, Redirects, Responds
  <2>2. \/ /\ sending'[s] \in {"sent", "following"} /\ ended'[s] = ended[s]
           /\ \/ delivered'[s] = delivered[s]
              \/ sending[s] = "connecting" /\ delivered'[s] = delivered[s] + 1
        \/ /\ sending'[s] = "idle" /\ ended'[s] = "response" /\ delivered'[s] = delivered[s]
    BY <1>1, <1>5 DEF Sends, Redirects, Responds, EndSend, TypeOK
  <2>3. delivered'[s] <= 1 + misreported'[s]
    BY <1>1, <2>1, <2>2 DEF TriesOn
  <2>4. QED
    BY <1>1, <2>1, <2>2, <2>3 DEF TriesOn
<1>6. CASE Raising(s)
  <2>1. /\ sending[s] # "idle" /\ given'[s] = given[s] /\ candidates'[s] = candidates[s]
        /\ delivered'[s] = delivered[s]
        /\ (FailsOver[s] /\ GoOn(s)) \/ GiveUp(s)
    BY <1>6, Raised
  <2>2. misreported'[s] \in {misreported[s], misreported[s] + 1}
    <3>1. PICK m \in BOOLEAN : Misreport(s, m)
      BY <1>6, Raised
    <3>2. QED
      BY <1>1, <3>1 DEF Misreport, TypeOK
  <2>3. CASE GiveUp(s)
    <3>1. sending'[s] = "idle" /\ ended'[s] = "failed" /\ index'[s] = index[s]
      BY <1>1, <2>3 DEF GiveUp, EndSend, TypeOK
    <3>2. delivered'[s] <= 1 + misreported'[s]
      BY <1>1, <2>1, <2>2 DEF TriesOn
    <3>3. QED
      BY <3>1, <3>2 DEF TriesOn
  <2>4. CASE FailsOver[s] /\ GoOn(s) /\ ~GiveUp(s)
    <3>1. delivered'[s] <= misreported'[s]
      <4>1. CASE CannotConnect(s)
        <5>1. /\ sending[s] \in {"connecting", "following"}
              /\ misreported'[s] = misreported[s] + IF sending[s] = "following" THEN 1 ELSE 0
          BY <1>1, <4>1 DEF CannotConnect, Misreport, TypeOK
        <5>2. QED
          BY <1>1, <2>1, <5>1 DEF TriesOn
      <4>2. CASE Breaks(s)
        <5>1. PICK error \in BrokenErrors(LibraryOf[s], Current(s)) :
                Raise(s, error) /\ Misreport(s, error = "ProxyError")
          BY <4>2 DEF Breaks
        <5>2. FailedBeforeSending(LibraryOf[s], error)
          BY <2>4, <5>1 DEF Raise
        <5>3. error = "ProxyError"
          BY <5>2, ToldApart
        <5>4. misreported'[s] = misreported[s] + 1
          BY <1>1, <5>1, <5>3 DEF Misreport, TypeOK
        <5>5. QED
          BY <1>1, <2>1, <5>4 DEF TriesOn
      <4>3. QED
        BY <1>6, <4>1, <4>2 DEF Raising
    <3>2. delivered'[s] <= 1 + misreported'[s]
      BY <1>1, <2>1, <2>2, <3>1
    <3>3. CASE IsLast(s)
      <4>1. sending'[s] = "idle" /\ ended'[s] = "unsent" /\ index'[s] = index[s]
        BY <1>1, <2>4, <3>3 DEF GoOn, EndSend, TypeOK
      <4>2. QED
        BY <1>1, <2>1, <3>2, <3>3, <4>1 DEF TriesOn, IsLast
    <3>4. CASE ~IsLast(s)
      <4>1. index'[s] = index[s] + 1 /\ sending'[s] = "connecting" /\ ended'[s] = ended[s]
        BY <1>1, <2>4, <3>4 DEF GoOn, TypeOK
      <4>2. /\ index[s] \in 1 .. Len(candidates[s]) /\ index[s] # Len(candidates[s])
            /\ candidates[s] \in Seq(Entry)
        BY <1>1, <2>1, <3>4 DEF TriesOn, IsLast, TypeOK
      <4>3. index[s] + 1 \in 1 .. Len(candidates[s])
        BY <4>2, LenProperties
      <4>4. QED
        BY <1>1, <2>1, <3>1, <3>2, <4>1, <4>3 DEF TriesOn
    <3>5. QED
      BY <3>3, <3>4
  <2>5. QED
    BY <2>1, <2>3, <2>4
<1>7. CASE UNCHANGED senderVars
  BY <1>2, <1>7 DEF senderVars
<1>8. QED
  BY <1>3, <1>4, <1>5, <1>6, <1>7 DEF Next, Sending, Raising, vars

-----------------------------------------------------------------------------
(* The inductive invariant holds at the start. *)
LEMMA InitIInv == Init => IInv
<1> SUFFICES ASSUME Init PROVE IInv
  OBVIOUS
<1> USE DEF Init, HealthInit
<1>1. TypeOK
  BY EmptySeq DEF TypeOK, HealthTypeOK, Stages, Ends
<1>2. Scanning
  BY EmptySeq DEF Scanning, ScansOn
<1>3. BansExpire
  BY DEF BansExpire, NoBanOutlives, Ttls
<1>4. BannedWereBad /\ PromisesKept
  BY DEF BannedWereBad, PromisesKept
<1>5. Trying /\ ResentOnlyIfMisled
  BY DEF Trying, ResentOnlyIfMisled
<1>6. QED
  BY <1>1, <1>2, <1>3, <1>4, <1>5 DEF IInv

(* The inductive invariant: every step of every sender and prober, the       *)
(* clearing of the caches and the passing of time keep it.                   *)
THEOREM FailoverInvariant == Spec => []IInv
<1>1. IInv /\ [Next]_vars => IInv'
  BY TypeStep, ScanStep, BannedStep, BansStep, PromisesStep, TryingStep DEF IInv
<1>2. QED
  BY InitIInv, <1>1, PTL DEF Spec

(* Every variable of the breaker, the probers and the senders keeps its      *)
(* type: no prober checks past the end of its answer, no request is at an    *)
(* entry its answer does not have.                                           *)
THEOREM FailoverTypes == Spec => []TypeOK
<1>1. IInv => TypeOK
  BY DEF IInv
<1>2. QED
  BY FailoverInvariant, <1>1, PTL

(* A request is sent again only after its library reported one it had sent   *)
(* as one it could not send, once for each such report (requests.py:112-123, *)
(* 228-233, httpx.py:44-46, aiohttp.py:40-45).                               *)
THEOREM ResentOnlyWhenMisled == Spec => []ResentOnlyIfMisled
<1>1. IInv => ResentOnlyIfMisled
  BY DEF IInv
<1>2. QED
  BY FailoverInvariant, <1>1, PTL

(* A request that fails unsent was tried through its whole answer, each      *)
(* entry once (requests.py:214-233, _net.py:164-173).                        *)
THEOREM UnsentTriedAll == Spec => []AllTried
<1>1. IInv => AllTried
  BY DEF IInv, Trying, AllTried
<1>2. QED
  BY FailoverInvariant, <1>1, PTL

(* No ban outlives the longest ttl from now (_net.py:142-161, 202).          *)
THEOREM BansAlwaysExpire == Spec => []BansExpire
<1>1. IInv => BansExpire
  BY DEF IInv
<1>2. QED
  BY FailoverInvariant, <1>1, PTL

(* first_working_proxy passes over no proxy that never failed, and never     *)
(* past DIRECT (_net.py:188-203).                                            *)
THEOREM PassesOnlyBad == Spec => []OnlyBadArePassed
<1>1. IInv => OnlyBadArePassed
  <2> SUFFICES ASSUME IInv, NEW q \in Prober, NEW e \in PassedOver(q) PROVE MayPass(e)
    BY DEF OnlyBadArePassed, MayPass
  <2>1. PICK i \in 1 .. Len(answer[q]) - Len(left[q]) : e = answer[q][i]
    BY DEF PassedOver
  <2>2. QED
    BY <2>1 DEF IInv, Scanning, ScansOn
<1>2. QED
  BY FailoverInvariant, <1>1, PTL

(* A request that begins while a mark lasts tries what was marked after      *)
(* every entry that is not, when all mark with one ttl and no prober found   *)
(* the same server bad (_net.py:156-173).                                    *)
THEOREM MarksAreLearned == Spec => LearnsFromOthers
<1> DEFINE Learns ==
      \A s \in Sender : sends' # sends /\ sending'[s] # sending[s] /\ FailsOver[s] /\ OneTtl =>
        \A i, j \in 1 .. Len(candidates'[s]) :
            /\ i < j /\ candidates'[s][i] # Direct
            /\ now < badUntil[KeyOf[candidates'[s][i]]]
            /\ skipUntil[KeyOf[candidates'[s][i]]] = 0
            => BadAt(candidates'[s][j], now)
<1>1. IInv /\ [Next]_vars => [Learns]_vars
  <2> SUFFICES ASSUME IInv, Next, NEW s \in Sender,
                      sends' # sends, sending'[s] # sending[s], FailsOver[s], OneTtl,
                      NEW i \in 1 .. Len(candidates'[s]), NEW j \in 1 .. Len(candidates'[s]),
                      i < j, candidates'[s][i] # Direct,
                      now < badUntil[KeyOf[candidates'[s][i]]],
                      skipUntil[KeyOf[candidates'[s][i]]] = 0
               PROVE  BadAt(candidates'[s][j], now)
    OBVIOUS
  <2>1. /\ sending \in [Sender -> Stages] /\ candidates \in [Sender -> Seq(Entry)]
        /\ breaker \in [Key -> Nat] /\ badUntil \in [Key -> Nat] /\ now \in Nat
    BY DEF IInv, TypeOK, HealthTypeOK
  <2>2. BeginSend(s)
    <3>1. PICK t \in Sender : BeginSend(t)
      <4>1. ASSUME NEW t \in Sender, Raising(t) PROVE FALSE
        BY <4>1, Raised
      <4>2. QED
        BY <4>1 DEF Next, Sending, Raising, Sends, Redirects, Responds, senderVars
    <3>2. t = s
      BY <2>1, <3>1 DEF BeginSend
    <3>3. QED
      BY <3>1, <3>2
  <2>3. PICK a \in Answers : candidates'[s] = OrderByHealth(a)
    BY <2>1, <2>2 DEF BeginSend
  <2> DEFINE r == OrderByHealth(a)
  <2>4. /\ r \in Seq(Entry)
        /\ \A m, n \in 1 .. Len(r) : m < n /\ BadAt(r[m], now) => BadAt(r[n], now)
    BY AnswerType, OrderKeepsAll
  <2>5. BadAt(r[i], now)
    <3>1. r[i] \in Entry /\ r[i] # Direct
      BY <2>3, <2>4, ElementOfSeq
    <3>2. KeyOf[r[i]] \in Key
      BY <3>1, KeyOfProxy
    <3>3. badUntil[KeyOf[r[i]]] <= breaker[KeyOf[r[i]]]
      BY <2>3, <3>2 DEF IInv, PromisesKept
    <3>4. QED
      BY <2>1, <2>3, <3>1, <3>2, <3>3 DEF BadAt
  <2>6. QED
    BY <2>3, <2>4, <2>5
<1>2. QED
  BY FailoverInvariant, <1>1, PTL DEF Spec, LearnsFromOthers
=============================================================================
