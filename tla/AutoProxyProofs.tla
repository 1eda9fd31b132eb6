--------------------------- MODULE AutoProxyProofs ---------------------------
(***************************************************************************)
(* What is proved of auto_proxy's map, for every environment, settings,    *)
(* options, URLs and answers of PACs: first that bypass lists mean what    *)
(* they say, by the labels of names and the moves of globs; then what      *)
(* the environment, a list of servers and the settings hold; then the      *)
(* invariant of the map and its lookups; then who decides.                 *)
(***************************************************************************)
EXTENDS AutoProxy, WellFoundedInduction, TLAPS, SequenceTheorems

-----------------------------------------------------------------------------
(* A set of naturals that has 0 and every successor has them all: induction  *)
(* by the least counterexample.                                              *)
LEMMA Induction ==
    ASSUME NEW T \in SUBSET Nat, 0 \in T, \A n \in T : n + 1 \in T
    PROVE  T = Nat
<1> SUFFICES ASSUME Nat \ T # {} PROVE FALSE
  OBVIOUS
<1>1. \E n \in Nat \ T : \A m \in Nat \ T : <<m, n>> \notin OpToRel(<, Nat)
  BY NatLessThanWellFounded, WFMin
<1>2. PICK n \in Nat \ T : \A m \in Nat \ T : ~ (m < n)
  BY <1>1 DEF OpToRel
<1>3. n - 1 \in T
  BY <1>2
<1>4. QED
  BY <1>2, <1>3

(* A recursion over 0 .. N whose step reads only the value before has a      *)
(* solution.                                                                 *)
Solutions(N, A, Start, Step) ==
    {f \in [0 .. N -> A] : f[0] = Start /\ \A n \in 1 .. N : f[n] = Step[<<f[n - 1], n>>]}

(* Such a recursion has a solution.                                          *)
LEMMA Recursion ==
    ASSUME NEW N \in Nat, NEW Start, NEW Step, NEW A,
           Start \in A, Step \in [A \X (1 .. N) -> A]
    PROVE  Solutions(N, A, Start, Step) # {}
<1> DEFINE Upto(f, k) == /\ f \in [0 .. k -> A] /\ f[0] = Start
                         /\ \A n \in 1 .. k : f[n] = Step[<<f[n - 1], n>>]
           T == {k \in Nat : k <= N => \E f : Upto(f, k)}
<1>1. 0 \in T
  <2> DEFINE f == [i \in 0 .. 0 |-> Start]
  <2>1. Upto(f, 0)
    OBVIOUS
  <2>2. QED
    BY <2>1
<1>2. ASSUME NEW k \in T PROVE k + 1 \in T
  <2> SUFFICES ASSUME k + 1 <= N PROVE \E g : Upto(g, k + 1)
    OBVIOUS
  <2>1. PICK f : Upto(f, k)
    OBVIOUS
  <2> DEFINE g == [i \in 0 .. k + 1 |-> IF i = k + 1 THEN Step[<<f[k], k + 1>>] ELSE f[i]]
  <2>2. f[k] \in A /\ k + 1 \in 1 .. N
    BY <2>1
  <2>3. Step[<<f[k], k + 1>>] \in A
    BY <2>2
  <2>4. g \in [0 .. k + 1 -> A] /\ g[0] = Start
    BY <2>1, <2>3
  <2>5. ASSUME NEW n \in 1 .. k + 1 PROVE g[n] = Step[<<g[n - 1], n>>]
    <3>1. CASE n = k + 1
      <4>1. g[k + 1] = Step[<<f[k], k + 1>>]
        OBVIOUS
      <4>2. g[k] = f[k] /\ n - 1 = k
        BY <3>1
      <4> HIDE DEF g
      <4>3. QED
        BY <3>1, <4>1, <4>2
    <3>2. CASE n # k + 1
      BY <2>1, <3>2
    <3>3. QED
      BY <3>1, <3>2
  <2>6. QED
    BY <2>4, <2>5
<1>3. T = Nat
  <2> HIDE DEF T
  <2>1. T \in SUBSET Nat
    BY DEF T
  <2>2. QED
    BY <1>1, <1>2, <2>1, Induction
<1>4. PICK f : Upto(f, N)
  <2>1. N \in T
    BY <1>3
  <2>2. QED
    BY <2>1
<1>5. QED
  BY <1>4 DEF Solutions

-----------------------------------------------------------------------------
(* Greatest and least numbers of a set.                                      *)
LEMMA MaxIs ==
    ASSUME NEW S, S \subseteq Int, NEW x \in S, \A y \in S : y <= x
    PROVE  Max(S) = x
<1>1. \A y \in S : x >= y
  OBVIOUS
<1>2. Max(S) \in S /\ \A y \in S : Max(S) >= y
  <2> DEFINE IsMax(z) == z \in S /\ \A y \in S : z >= y
  <2>1. IsMax(x)
    BY <1>1
  <2>2. Max(S) = CHOOSE z : IsMax(z)
    BY DEF Max
  <2> HIDE DEF IsMax
  <2>3. IsMax(Max(S))
    BY <2>1, <2>2
  <2>4. QED
    BY <2>3 DEF IsMax
<1>3. Max(S) >= x /\ Max(S) <= x /\ Max(S) \in Int /\ x \in Int
  BY <1>2
<1> DEFINE m == Max(S)
<1> HIDE DEF m
<1>4. m = x
  <2>1. m >= x /\ m <= x /\ m \in Int /\ x \in Int
    BY <1>3 DEF m
  <2>2. QED
    BY <2>1
<1>5. QED
  BY <1>4 DEF m

(* An element of a set that is below the others is its least.                *)
LEMMA MinIs ==
    ASSUME NEW S, S \subseteq Int, NEW x \in S, \A y \in S : x <= y
    PROVE  Min(S) = x
<1>1. Min(S) \in S /\ \A y \in S : Min(S) <= y
  <2> DEFINE IsMin(z) == z \in S /\ \A y \in S : z <= y
  <2>1. IsMin(x)
    OBVIOUS
  <2>2. Min(S) = CHOOSE z : IsMin(z)
    BY DEF Min
  <2> HIDE DEF IsMin
  <2>3. IsMin(Min(S))
    BY <2>1, <2>2
  <2>4. QED
    BY <2>3 DEF IsMin
<1>2. Min(S) >= x /\ Min(S) <= x /\ Min(S) \in Int /\ x \in Int
  BY <1>1
<1> DEFINE m == Min(S)
<1> HIDE DEF m
<1>3. m = x
  <2>1. m >= x /\ m <= x /\ m \in Int /\ x \in Int
    BY <1>2 DEF m
  <2>2. QED
    BY <2>1
<1>4. QED
  BY <1>3 DEF m

(* A set of the first numbers has a greatest and a least element.            *)
LEMMA Extremes ==
    ASSUME NEW N \in Nat, NEW S \in SUBSET (1 .. N), S # {}
    PROVE  Max(S) \in S /\ Min(S) \in S
<1> DEFINE HasMax(R) == \E x \in R : \A y \in R : y <= x
           T == {n \in Nat : \A R \in SUBSET (1 .. n) : R # {} => HasMax(R)}
<1>1. 0 \in T
  <2>1. \A y \in 1 .. 0 : FALSE
    OBVIOUS
  <2>2. \A R \in SUBSET (1 .. 0) : R = {}
    BY <2>1
  <2> HIDE DEF HasMax
  <2>3. QED
    BY <2>2
<1>2. ASSUME NEW n \in T PROVE n + 1 \in T
  <2> SUFFICES ASSUME NEW R \in SUBSET (1 .. n + 1), R # {} PROVE HasMax(R)
    OBVIOUS
  <2>1. CASE n + 1 \in R
    <3>1. n \in Nat /\ \A y \in R : y \in 1 .. n + 1
      OBVIOUS
    <3> HIDE DEF T
    <3>2. \A y \in R : y <= n + 1
      BY <3>1
    <3>3. QED
      BY <2>1, <3>2
  <2>2. CASE n + 1 \notin R
    <3>1. \A y \in 1 .. n + 1 : y = n + 1 \/ y \in 1 .. n
      OBVIOUS
    <3>2. R \in SUBSET (1 .. n)
      BY <2>2, <3>1
    <3>3. QED
      BY <3>2
  <2>3. QED
    BY <2>1, <2>2
<1>3. T = Nat
  <2> HIDE DEF T
  <2>1. T \in SUBSET Nat
    BY DEF T
  <2>2. QED
    BY <1>1, <1>2, <2>1, Induction
<1>4. \A i \in 1 .. N : i \in Int /\ i \in Nat
  OBVIOUS
<1>5. S \subseteq Int /\ S \subseteq Nat
  BY <1>4
<1>6. HasMax(S)
  <2>1. N \in T
    BY <1>3
  <2>2. QED
    BY <2>1
<1>7. Max(S) \in S
  <2>1. PICK x \in S : \A y \in S : y <= x
    BY <1>6
  <2>2. QED
    BY <1>5, <2>1, MaxIs
<1>8. Min(S) \in S
  <2>1. \E x \in S : \A y \in S : <<y, x>> \notin OpToRel(<, Nat)
    BY <1>5, NatLessThanWellFounded, WFMin
  <2>2. PICK x \in S : \A y \in S : ~(y < x)
    BY <1>5, <2>1 DEF OpToRel
  <2>3. \A y \in S : x <= y
    BY <1>5, <2>2
  <2>4. QED
    BY <1>5, <2>2, <2>3, MinIs
<1>9. QED
  BY <1>7, <1>8

-----------------------------------------------------------------------------
(* Texts and their labels.  A set of sequences that has the empty one and,   *)
(* with a sequence, that sequence and one element more has them all.         *)
LEMMA ByAppending ==
    ASSUME NEW S, NEW T \in SUBSET Seq(S), << >> \in T,
           \A t \in T, c \in S : Append(t, c) \in T
    PROVE  T = Seq(S)
<1> DEFINE L == {n \in Nat : \A t \in Seq(S) : Len(t) = n => t \in T}
<1>1. 0 \in L
  BY EmptySeq
<1>2. ASSUME NEW n \in L PROVE n + 1 \in L
  <2> SUFFICES ASSUME NEW t \in Seq(S), Len(t) = n + 1 PROVE t \in T
    OBVIOUS
  <2>1. t # << >>
    BY EmptySeq
  <2>2. PICK u \in Seq(S), c \in S : t = Append(u, c)
    BY <2>1, SequenceEmptyOrAppend
  <2>3. Len(u) \in Nat /\ Len(u) + 1 = n + 1
    BY <2>2, AppendProperties, LenProperties
  <2>4. u \in T
    BY <2>3
  <2>5. QED
    BY <2>2, <2>4
<1>3. L = Nat
  <2> HIDE DEF L
  <2>1. L \in SUBSET Nat
    BY DEF L
  <2>2. QED
    BY <1>1, <1>2, <2>1, Induction
<1>4. \A t \in Seq(S) : Len(t) \in L
  BY <1>3, LenProperties
<1>5. QED
  BY <1>4

(* A text's labels: the text's last character ends the last label or, a dot, *)
(* begins one.                                                               *)
Texts == Seq(Chars)
LabelLists == Seq(Texts) \ {<< >>}
Longer(labels, c) ==
    IF c = "." THEN Append(labels, << >>) ELSE Append(Front(labels), Append(Last(labels), c))

(* One character more leaves a list of labels.                               *)
LEMMA LongerIsOne ==
    ASSUME NEW labels \in LabelLists, NEW c \in Chars
    PROVE  /\ Longer(labels, c) \in LabelLists
           /\ Front(labels) \in Seq(Texts) /\ Last(labels) \in Texts
           /\ labels = Append(Front(labels), Last(labels))
<1>1. PICK f \in Seq(Texts), l \in Texts : labels = Append(f, l)
  BY SequenceEmptyOrAppend DEF LabelLists
<1>2. Len(f) \in Nat /\ Len(labels) = Len(f) + 1 /\ labels[Len(f) + 1] = l
      /\ \A i \in 1 .. Len(f) : labels[i] = f[i]
  BY <1>1, AppendProperties, LenProperties
<1>3. Last(labels) = l
  BY <1>2 DEF Last
<1>4. Front(labels) = f
  <2>1. Front(labels) = SubSeq(labels, 1, Len(f))
    BY <1>2 DEF Front
  <2>2. \A i \in 1 .. Len(f) : labels[i] \in Texts
    BY <1>2, ElementOfSeq
  <2>3. /\ SubSeq(labels, 1, Len(f)) \in Seq(Texts)
        /\ Len(SubSeq(labels, 1, Len(f))) = Len(f)
        /\ \A i \in 1 .. Len(f) : SubSeq(labels, 1, Len(f))[i] = labels[i]
    <3>1. 1 \in Int /\ Len(f) \in Int /\ (Len(f) - 1) + 1 = Len(f)
          /\ IF 1 <= Len(f) THEN TRUE ELSE Len(f) = 0
      BY <1>2
    <3>2. /\ SubSeq(labels, 1, Len(f)) \in Seq(Texts)
          /\ Len(SubSeq(labels, 1, Len(f))) = IF 1 <= Len(f) THEN (Len(f) - 1) + 1 ELSE 0
          /\ \A i \in 1 .. (Len(f) - 1) + 1 : SubSeq(labels, 1, Len(f))[i] = labels[(1 + i) - 1]
      BY <2>2, <3>1, SubSeqProperties
    <3>3. QED
      BY <1>2, <3>1, <3>2
  <2>4. SubSeq(labels, 1, Len(f)) = f
    BY <1>2, <2>3, SeqEqual
  <2>5. QED
    BY <2>1, <2>4
<1>5. << >> \in Texts /\ Append(l, c) \in Texts
  BY AppendProperties, EmptySeq DEF Texts
<1>6. Longer(labels, c) \in Seq(Texts) /\ Longer(labels, c) # << >>
  <2>1. Longer(labels, c) \in {Append(labels, << >>), Append(f, Append(l, c))}
    BY <1>3, <1>4 DEF Longer
  <2>2. labels \in Seq(Texts)
    BY DEF LabelLists
  <2>3. Append(labels, << >>) \in Seq(Texts) /\ Append(labels, << >>) # << >>
    BY <1>5, <2>2, AppendProperties
  <2>4. Append(f, Append(l, c)) \in Seq(Texts) /\ Append(f, Append(l, c)) # << >>
    BY <1>5, AppendProperties
  <2>5. QED
    BY <2>1, <2>3, <2>4
<1>7. QED
  BY <1>1, <1>3, <1>4, <1>6 DEF LabelLists

(* The recursion that defines Labels.                                        *)
LabelBody(text, f) ==
    [n \in 0 .. Len(text) |-> IF n = 0 THEN << << >> >> ELSE Longer(f[n - 1], text[n])]

(* Labels is what its recursion says.                                        *)
LEMMA LabelsUnfold ==
    ASSUME NEW text \in Texts
    PROVE  \E f \in [0 .. Len(text) -> LabelLists] :
             /\ f[0] = << << >> >>
             /\ \A n \in 1 .. Len(text) : f[n] = Longer(f[n - 1], text[n])
             /\ Labels(text) = f[Len(text)]
<1> DEFINE N == Len(text)
           Body(f) == LabelBody(text, f)
           Step == [p \in LabelLists \X (1 .. N) |-> Longer(p[1], text[p[2]])]
<1>1. N \in Nat /\ \A n \in 1 .. N : text[n] \in Chars
  BY LenProperties, ElementOfSeq DEF Texts
<1>2. << << >> >> \in LabelLists
  BY EmptySeq DEF LabelLists, Texts
<1>3. Step \in [LabelLists \X (1 .. N) -> LabelLists]
  BY <1>1, LongerIsOne
<1>4. \A l \in LabelLists, n \in 1 .. N : Step[<<l, n>>] = Longer(l, text[n])
  OBVIOUS
<1>5. \E f : f = Body(f)
  <2> HIDE DEF Step, N
  <2>1. Solutions(N, LabelLists, << << >> >>, Step) # {}
    BY <1>1, <1>2, <1>3, Recursion
  <2> PICK f \in [0 .. N -> LabelLists] :
         f[0] = << << >> >> /\ \A n \in 1 .. N : f[n] = Step[<<f[n - 1], n>>]
    BY <2>1 DEF Solutions
  <2>2. \A n \in 1 .. N : f[n - 1] \in LabelLists
    BY <1>1
  <2>3. \A n \in 0 .. N : n # 0 => n \in 1 .. N
    BY <1>1
  <2>4. \A n \in 0 .. N : f[n] = IF n = 0 THEN << << >> >> ELSE Longer(f[n - 1], text[n])
    BY <1>4, <2>2, <2>3
  <2>5. f = Body(f)
    BY <2>4 DEF LabelBody, N
  <2>6. QED
    BY <2>5
<1> DEFINE f == CHOOSE g : g = Body(g)
<1>6. f = Body(f)
  BY <1>5
<1>7. Labels(text) = f[N]
  BY DEF Labels, LabelBody, Longer
<1> HIDE DEF f, Step
<1>8. f[0] = << << >> >> /\ DOMAIN f = 0 .. N
  BY <1>1, <1>6 DEF LabelBody
<1>9. \A n \in 1 .. N : f[n] = Longer(f[n - 1], text[n])
  <2> SUFFICES ASSUME NEW n \in 1 .. N PROVE f[n] = Longer(f[n - 1], text[n])
    OBVIOUS
  <2>1. n \in 0 .. N /\ n # 0
    BY <1>1
  <2> HIDE DEF N
  <2>2. QED
    BY <1>6, <2>1, Zenon DEF LabelBody, N
<1> DEFINE T == {n \in Nat : n <= N => f[n] \in LabelLists}
<1>10. 0 \in T
  BY <1>2, <1>8
<1>11. ASSUME NEW n \in T PROVE n + 1 \in T
  <2> SUFFICES ASSUME n + 1 <= N PROVE f[n + 1] \in LabelLists
    OBVIOUS
  <2> DEFINE j == n + 1
  <2>1. j \in 1 .. N /\ j - 1 = n /\ f[n] \in LabelLists
    BY <1>1
  <2> HIDE DEF j, N, T
  <2>2. f[j] = Longer(f[n], text[j])
    BY <1>9, <2>1
  <2>3. QED
    BY <1>1, <2>1, <2>2, LongerIsOne DEF j
<1>12. T = Nat
  <2> HIDE DEF T
  <2>1. T \in SUBSET Nat
    BY DEF T
  <2>2. QED
    BY <1>10, <1>11, <2>1, Induction
<1>13. f = [n \in 0 .. N |-> f[n]] /\ \A n \in 0 .. N : f[n] \in LabelLists
  BY <1>6, <1>12 DEF LabelBody
<1> HIDE DEF T, N
<1>14. f \in [0 .. N -> LabelLists]
  BY <1>13
<1>15. QED
  BY <1>7, <1>8, <1>9, <1>14 DEF N

(* A text with one character more has one label more or a longer last one.   *)
LEMMA LabelsOf ==
    /\ Labels(<< >>) = << << >> >>
    /\ \A t \in Texts : Labels(t) \in LabelLists
    /\ \A t \in Texts, c \in Chars :
         Append(t, c) \in Texts /\ Labels(Append(t, c)) = Longer(Labels(t), c)
<1>1. << >> \in Texts /\ Len(<< >>) = 0
  BY EmptySeq DEF Texts
<1>2. Labels(<< >>) = << << >> >>
  BY <1>1, LabelsUnfold
<1>3. ASSUME NEW t \in Texts PROVE Labels(t) \in LabelLists
  <2>1. Len(t) \in 0 .. Len(t)
    BY LenProperties DEF Texts
  <2>2. QED
    BY <2>1, LabelsUnfold
<1>4. ASSUME NEW t \in Texts, NEW c \in Chars
      PROVE  Append(t, c) \in Texts /\ Labels(Append(t, c)) = Longer(Labels(t), c)
  <2> DEFINE u == Append(t, c)
             N == Len(t)
  <2>1. /\ u \in Texts /\ N \in Nat /\ Len(u) = N + 1 /\ u[N + 1] = c
        /\ \A i \in 1 .. N : u[i] = t[i]
    <3>1. t \in Seq(Chars)
      BY DEF Texts
    <3>2. /\ u \in Seq(Chars) /\ Len(u) = N + 1 /\ u[N + 1] = c
          /\ \A i \in 1 .. N : u[i] = t[i]
      <4>1. /\ Append(t, c) \in Seq(Chars) /\ Len(Append(t, c)) = Len(t) + 1
            /\ Append(t, c)[Len(t) + 1] = c
            /\ \A i \in 1 .. Len(t) : Append(t, c)[i] = t[i]
        BY <3>1, AppendProperties
      <4>2. QED
        BY <4>1, Zenon
    <3>3. QED
      BY <3>1, <3>2, LenProperties DEF Texts
  <2> HIDE DEF u
  <2>2. PICK f \in [0 .. N -> LabelLists] :
          /\ f[0] = << << >> >>
          /\ \A n \in 1 .. N : f[n] = Longer(f[n - 1], t[n])
          /\ Labels(t) = f[N]
    BY LabelsUnfold
  <2>3. PICK g \in [0 .. N + 1 -> LabelLists] :
          /\ g[0] = << << >> >>
          /\ \A n \in 1 .. N + 1 : g[n] = Longer(g[n - 1], u[n])
          /\ Labels(u) = g[N + 1]
    BY <2>1, LabelsUnfold
  <2> DEFINE T == {n \in Nat : n <= N => g[n] = f[n]}
  <2> HIDE DEF N
  <2>4. 0 \in T
    BY <2>2, <2>3
  <2>5. ASSUME NEW n \in T PROVE n + 1 \in T
    <3> SUFFICES ASSUME n + 1 <= N PROVE g[n + 1] = f[n + 1]
      OBVIOUS
    <3> DEFINE j == n + 1
    <3>1. j \in 1 .. N /\ j \in 1 .. N + 1 /\ j - 1 = n /\ g[n] = f[n]
      BY <2>1
    <3> HIDE DEF j, T
    <3>2. g[j] = f[j]
      BY <2>1, <2>2, <2>3, <3>1
    <3>3. QED
      BY <3>2 DEF j
  <2>6. T = Nat
    <3> HIDE DEF T
    <3>1. T \in SUBSET Nat
      BY DEF T
    <3>2. QED
      BY <2>4, <2>5, <3>1, Induction
  <2>7. g[N] = f[N]
    BY <2>1, <2>6
  <2>8. g[N + 1] = Longer(g[(N + 1) - 1], u[N + 1])
    <3>1. N + 1 \in 1 .. N + 1
      BY <2>1
    <3>2. QED
      BY <2>3, <3>1
  <2>9. (N + 1) - 1 = N
    BY <2>1
  <2>10. QED
    BY <2>1, <2>2, <2>3, <2>7, <2>8, <2>9 DEF u
<1>5. QED
  BY <1>2, <1>3, <1>4

-----------------------------------------------------------------------------
(* Suffixes, element by element.                                             *)
LEMMA ReverseIs ==
    ASSUME NEW S, NEW s \in Seq(S)
    PROVE  /\ Reverse(s) \in Seq(S) /\ Len(Reverse(s)) = Len(s)
           /\ \A i \in 1 .. Len(s) : Reverse(s)[i] = s[(Len(s) - i) + 1]
<1>1. Len(s) \in Nat /\ \A i \in 1 .. Len(s) : (Len(s) - i) + 1 \in 1 .. Len(s) /\ s[(Len(s) - i) + 1] \in S
  BY LenProperties, ElementOfSeq
<1>2. Reverse(s) \in [1 .. Len(s) -> S]
  BY <1>1 DEF Reverse
<1>3. Reverse(s) \in Seq(S)
  BY <1>1, <1>2, SeqDef
<1>4. DOMAIN Reverse(s) = 1 .. Len(Reverse(s)) /\ DOMAIN Reverse(s) = 1 .. Len(s)
      /\ Len(Reverse(s)) \in Nat
  BY <1>2, <1>3, LenProperties
<1>5. QED
  BY <1>1, <1>3, <1>4 DEF Reverse

(* The first elements of two sequences are equal one by one.                 *)
LEMMA FirstsEqual ==
    ASSUME NEW S, NEW a \in Seq(S), NEW b \in Seq(S), NEW m \in Nat, m <= Len(a), m <= Len(b)
    PROVE  SubSeq(a, 1, m) = SubSeq(b, 1, m) <=> \A i \in 1 .. m : a[i] = b[i]
<1>1. (\A i \in 1 .. m : a[i] \in S /\ b[i] \in S) /\ 1 \in Int /\ m \in Int
  BY LenProperties, ElementOfSeq
<1>2. (m - 1) + 1 = m /\ (IF 1 <= m THEN (m - 1) + 1 ELSE 0) = m
      /\ \A i \in 1 .. m : (1 + i) - 1 = i
  OBVIOUS
<1>3. /\ SubSeq(a, 1, m) \in Seq(S) /\ Len(SubSeq(a, 1, m)) = m
      /\ \A i \in 1 .. m : SubSeq(a, 1, m)[i] = a[i]
  <2>1. /\ SubSeq(a, 1, m) \in Seq(S)
        /\ Len(SubSeq(a, 1, m)) = IF 1 <= m THEN (m - 1) + 1 ELSE 0
        /\ \A i \in 1 .. (m - 1) + 1 : SubSeq(a, 1, m)[i] = a[(1 + i) - 1]
    BY <1>1, SubSeqProperties
  <2>2. QED
    BY <1>2, <2>1
<1>4. /\ SubSeq(b, 1, m) \in Seq(S) /\ Len(SubSeq(b, 1, m)) = m
      /\ \A i \in 1 .. m : SubSeq(b, 1, m)[i] = b[i]
  <2>1. /\ SubSeq(b, 1, m) \in Seq(S)
        /\ Len(SubSeq(b, 1, m)) = IF 1 <= m THEN (m - 1) + 1 ELSE 0
        /\ \A i \in 1 .. (m - 1) + 1 : SubSeq(b, 1, m)[i] = b[(1 + i) - 1]
    BY <1>1, SubSeqProperties
  <2>2. QED
    BY <1>2, <2>1
<1>5. ASSUME SubSeq(a, 1, m) = SubSeq(b, 1, m), NEW i \in 1 .. m PROVE a[i] = b[i]
  BY <1>3, <1>4, <1>5
<1>6. ASSUME \A i \in 1 .. m : a[i] = b[i] PROVE SubSeq(a, 1, m) = SubSeq(b, 1, m)
  BY <1>3, <1>4, <1>6, SeqEqual
<1>7. QED
  BY <1>5, <1>6

(* A suffix holds a sequence's last elements.                                *)
LEMMA SuffixIs ==
    ASSUME NEW S, NEW s \in Seq(S), NEW t \in Seq(S)
    PROVE  IsSuffix(s, t) <=> /\ Len(s) <= Len(t)
                              /\ \A i \in 1 .. Len(s) : s[i] = t[(Len(t) - Len(s)) + i]
<1> DEFINE m == Len(s)
           n == Len(t)
           a == Reverse(s)
           b == Reverse(t)
<1>1. /\ a \in Seq(S) /\ Len(a) = m /\ \A i \in 1 .. m : a[i] = s[(m - i) + 1]
      /\ b \in Seq(S) /\ Len(b) = n /\ \A i \in 1 .. n : b[i] = t[(n - i) + 1]
      /\ m \in Nat /\ n \in Nat
  BY ReverseIs, LenProperties
<1>2. IsSuffix(s, t) <=> m <= n /\ SubSeq(a, 1, m) = SubSeq(b, 1, m)
  BY <1>1 DEF IsSuffix, IsPrefix
<1> HIDE DEF a, b, m, n
<1>3. ASSUME m <= n
      PROVE  SubSeq(a, 1, m) = SubSeq(b, 1, m) <=> \A i \in 1 .. m : a[i] = b[i]
  BY <1>1, <1>3, FirstsEqual
<1>4. ASSUME m <= n
      PROVE  (\A i \in 1 .. m : a[i] = b[i]) <=> \A i \in 1 .. m : s[i] = t[(n - m) + i]
  <2>1. ASSUME \A i \in 1 .. m : a[i] = b[i], NEW i \in 1 .. m PROVE s[i] = t[(n - m) + i]
    <3> DEFINE j == (m - i) + 1
    <3>1. j \in 1 .. m /\ j \in 1 .. n /\ (m - j) + 1 = i /\ (n - j) + 1 = (n - m) + i
      BY <1>1, <1>4
    <3> HIDE DEF j
    <3>2. a[j] = s[(m - j) + 1] /\ b[j] = t[(n - j) + 1]
      BY <1>1, <3>1
    <3>3. QED
      BY <2>1, <3>1, <3>2
  <2>2. ASSUME \A i \in 1 .. m : s[i] = t[(n - m) + i], NEW i \in 1 .. m PROVE a[i] = b[i]
    <3> DEFINE j == (m - i) + 1
    <3>1. j \in 1 .. m /\ i \in 1 .. n /\ (n - m) + j = (n - i) + 1
      BY <1>1, <1>4
    <3>2. a[i] = s[j] /\ b[i] = t[(n - i) + 1]
      BY <1>1, <3>1
    <3> HIDE DEF j
    <3>3. QED
      BY <2>2, <3>1, <3>2
  <2>3. QED
    BY <2>1, <2>2
<1>5. QED
  BY <1>2, <1>3, <1>4 DEF m, n

(* Two sequences that end alike and begin alike before it, and no others,    *)
(* are suffixes of each other.                                               *)
LEMMA SuffixAppended ==
    ASSUME NEW S, NEW s \in Seq(S), NEW t \in Seq(S), NEW x \in S, NEW y \in S
    PROVE  IsSuffix(Append(s, x), Append(t, y)) <=> x = y /\ IsSuffix(s, t)
<1> DEFINE a == Append(s, x)
           b == Append(t, y)
           m == Len(s)
           n == Len(t)
<1>1. /\ a \in Seq(S) /\ Len(a) = m + 1 /\ a[m + 1] = x /\ \A i \in 1 .. m : a[i] = s[i]
      /\ b \in Seq(S) /\ Len(b) = n + 1 /\ b[n + 1] = y /\ \A i \in 1 .. n : b[i] = t[i]
      /\ m \in Nat /\ n \in Nat
  BY AppendProperties, LenProperties
<1>2. IsSuffix(s, t) <=> m <= n /\ \A i \in 1 .. m : s[i] = t[(n - m) + i]
  BY SuffixIs
<1> HIDE DEF a, b
<1>3. IsSuffix(a, b) <=> m + 1 <= n + 1 /\ \A i \in 1 .. m + 1 : a[i] = b[((n + 1) - (m + 1)) + i]
  <2>1. IsSuffix(a, b) <=> Len(a) <= Len(b) /\ \A i \in 1 .. Len(a) : a[i] = b[(Len(b) - Len(a)) + i]
    BY <1>1, SuffixIs
  <2>2. QED
    BY <1>1, <2>1
<1> HIDE DEF m, n
<1>4. ASSUME m <= n
      PROVE  (\A i \in 1 .. m + 1 : a[i] = b[((n + 1) - (m + 1)) + i])
               <=> x = y /\ \A i \in 1 .. m : s[i] = t[(n - m) + i]
  <2>1. m + 1 \in 1 .. m + 1 /\ ((n + 1) - (m + 1)) + (m + 1) = n + 1
    BY <1>1
  <2>2. ASSUME NEW i \in 1 .. m
        PROVE  /\ i \in 1 .. m + 1 /\ ((n + 1) - (m + 1)) + i = (n - m) + i
               /\ a[i] = s[i] /\ b[(n - m) + i] = t[(n - m) + i]
    <3>1. i \in 1 .. m + 1 /\ ((n + 1) - (m + 1)) + i = (n - m) + i /\ (n - m) + i \in 1 .. n
      BY <1>1, <1>4
    <3>2. QED
      BY <1>1, <3>1
  <2>3. \A i \in 1 .. m + 1 : i = m + 1 \/ i \in 1 .. m
    BY <1>1
  <2>4. ASSUME \A i \in 1 .. m + 1 : a[i] = b[((n + 1) - (m + 1)) + i]
        PROVE  x = y /\ \A i \in 1 .. m : s[i] = t[(n - m) + i]
    BY <1>1, <2>1, <2>2, <2>4
  <2>5. ASSUME x = y, \A i \in 1 .. m : s[i] = t[(n - m) + i], NEW i \in 1 .. m + 1
        PROVE  a[i] = b[((n + 1) - (m + 1)) + i]
    <3>1. CASE i = m + 1
      BY <1>1, <2>1, <2>5, <3>1
    <3>2. CASE i \in 1 .. m
      BY <2>2, <2>5, <3>2
    <3>3. QED
      BY <2>3, <3>1, <3>2
  <2>6. QED
    BY <2>4, <2>5
<1>5. m + 1 <= n + 1 <=> m <= n
  BY <1>1
<1>6. QED
  BY <1>2, <1>3, <1>4, <1>5 DEF a, b

(* Only the empty sequence is a suffix of the empty one, and it is one of    *)
(* all.                                                                      *)
LEMMA SuffixOfNothing ==
    ASSUME NEW S, NEW s \in Seq(S)
    PROVE  /\ IsSuffix(s, << >>) <=> s = << >>
           /\ IsSuffix(<< >>, s)
<1>1. << >> \in Seq(S) /\ Len(<< >>) = 0 /\ Len(s) \in Nat /\ (s # << >> => Len(s) # 0)
  BY EmptySeq, LenProperties
<1>2. /\ IsSuffix(s, << >>) <=> /\ Len(s) <= Len(<< >>)
                                /\ \A i \in 1 .. Len(s) : s[i] = << >>[(Len(<< >>) - Len(s)) + i]
      /\ IsSuffix(<< >>, s) <=> /\ Len(<< >>) <= Len(s)
                                /\ \A i \in 1 .. Len(<< >>) : << >>[i] = s[(Len(s) - Len(<< >>)) + i]
  BY <1>1, SuffixIs
<1>3. \A i \in 1 .. Len(<< >>) : FALSE
  BY <1>1
<1>4. QED
  BY <1>1, <1>2, <1>3

(* Lists of labels have a common suffix when they end alike.                 *)
LEMMA LabelListSuffix ==
    \A s, t \in Seq(Texts) : \A x, y \in Texts :
       IsSuffix(Append(s, x), Append(t, y)) <=> x = y /\ IsSuffix(s, t)
BY SuffixAppended

(* A list is no suffix of one that ends otherwise.                           *)
LEMMA LastLabelDiffers ==
    ASSUME NEW s \in Seq(Texts), NEW t \in Seq(Texts), NEW x \in Texts, NEW y \in Texts, x # y
    PROVE  ~IsSuffix(Append(s, x), Append(t, y))
BY LabelListSuffix

(* One character more changes the last label, or the labels, alike.          *)
LEMMA LongerSuffix ==
    ASSUME NEW a \in LabelLists, NEW b \in LabelLists, NEW c \in Chars, NEW x \in Chars
    PROVE  IsSuffix(Longer(a, c), Longer(b, x)) <=> c = x /\ IsSuffix(a, b)
<1> DEFINE f == Front(a)
           g == Front(b)
           k == Last(a)
           l == Last(b)
<1>1. /\ f \in Seq(Texts) /\ k \in Texts /\ a = Append(f, k)
      /\ g \in Seq(Texts) /\ l \in Texts /\ b = Append(g, l)
      /\ a \in Seq(Texts) /\ b \in Seq(Texts)
  BY LongerIsOne DEF LabelLists
<1>2. << >> \in Texts /\ \A t \in Texts, y \in Chars : Append(t, y) \in Texts /\ Append(t, y) # << >>
  BY EmptySeq, AppendProperties DEF Texts
<1>3. IsSuffix(a, b) <=> k = l /\ IsSuffix(f, g)
  <2> HIDE DEF f, g, k, l
  <2>1. QED
    BY <1>1, LabelListSuffix
<1>4. CASE c = "." /\ x = "."
  <2>1. Longer(a, c) = Append(a, << >>) /\ Longer(b, x) = Append(b, << >>)
    BY <1>4 DEF Longer
  <2>2. IsSuffix(Append(a, << >>), Append(b, << >>)) <=> IsSuffix(a, b)
    BY <1>1, <1>2, LabelListSuffix
  <2>3. QED
    BY <1>4, <2>1, <2>2
<1>5. CASE c = "." /\ x # "."
  <2>1. Longer(a, c) = Append(a, << >>) /\ Longer(b, x) = Append(g, Append(l, x))
    BY <1>5 DEF Longer
  <2> HIDE DEF g, l
  <2>2. ~IsSuffix(Append(a, << >>), Append(g, Append(l, x)))
    <3>1. Append(l, x) \in Texts /\ Append(l, x) # << >> /\ g \in Seq(Texts) /\ a \in Seq(Texts)
      BY <1>1, <1>2
    <3>2. << >> # Append(l, x) /\ << >> \in Texts
      BY <1>2, <3>1
    <3>3. QED
      BY <3>1, <3>2, LastLabelDiffers
  <2>3. QED
    BY <1>5, <2>1, <2>2
<1>6. CASE c # "." /\ x = "."
  <2>1. Longer(a, c) = Append(f, Append(k, c)) /\ Longer(b, x) = Append(b, << >>)
    BY <1>6 DEF Longer
  <2> HIDE DEF f, k
  <2>2. ~IsSuffix(Append(f, Append(k, c)), Append(b, << >>))
    <3>1. Append(k, c) \in Texts /\ Append(k, c) # << >> /\ f \in Seq(Texts) /\ b \in Seq(Texts)
      BY <1>1, <1>2
    <3>2. QED
      BY <1>2, <3>1, LastLabelDiffers
  <2>3. QED
    BY <1>6, <2>1, <2>2
<1>7. CASE c # "." /\ x # "."
  <2>1. Longer(a, c) = Append(f, Append(k, c)) /\ Longer(b, x) = Append(g, Append(l, x))
    BY <1>7 DEF Longer
  <2> HIDE DEF f, g, k, l
  <2>2. IsSuffix(Append(f, Append(k, c)), Append(g, Append(l, x)))
          <=> Append(k, c) = Append(l, x) /\ IsSuffix(f, g)
    <3>1. Append(k, c) \in Texts /\ Append(l, x) \in Texts /\ f \in Seq(Texts) /\ g \in Seq(Texts)
      BY <1>1, <1>2
    <3>2. QED
      BY <3>1, LabelListSuffix
  <2>3. Append(k, c) = Append(l, x) <=> k = l /\ c = x
    BY <1>1, AppendInjective DEF Texts
  <2>4. QED
    BY <1>3, <2>1, <2>2, <2>3
<1>8. QED
  BY <1>4, <1>5, <1>6, <1>7

(* The last labels of a name are a domain's if and only if the name is the   *)
(* domain or ends with a dot and it: a domain is never a part of a label.    *)
LEMMA SuffixIsByLabel ==
    ASSUME NEW domain \in Texts, NEW name \in Texts
    PROVE  IsSuffix(Labels(domain), Labels(name)) <=> Suffix(domain, name)
<1> DEFINE Same(d, h) == IsSuffix(Labels(d), Labels(h)) <=> Suffix(d, h)
           T == {d \in Texts : \A h \in Texts : Same(d, h)}
           dot == << ".">>
<1>1. /\ << >> \in Texts /\ dot \in Texts /\ dot = Append(<< >>, ".") /\ "." \in Chars
      /\ \A d \in Texts, c \in Chars : Append(d, c) \in Texts /\ Append(d, c) # << >>
  <2>1. << >> \in Texts /\ "." \in Chars
    <3>1. "." \in Chars
      BY CharsAssumption
    <3>2. QED
      BY <3>1, EmptySeq DEF Texts
  <2>2. dot = Append(<< >>, ".")
    OBVIOUS
  <2>3. \A d \in Texts, c \in Chars : Append(d, c) \in Texts /\ Append(d, c) # << >>
    BY AppendProperties DEF Texts
  <2>4. QED
    BY <2>1, <2>2, <2>3
<1> HIDE DEF dot
<1>2. \A d \in Texts : dot \o d \in Texts
  BY <1>1, ConcatProperties DEF Texts
<1>3. ASSUME NEW d \in Texts, NEW c \in Chars PROVE dot \o Append(d, c) = Append(dot \o d, c)
  <2>1. Append(d, c) = d \o <<c>> /\ <<c>> \in Texts /\ Append(dot \o d, c) = (dot \o d) \o <<c>>
    BY <1>2, AppendIsConcat DEF Texts
  <2>2. QED
    BY <1>1, <2>1, ConcatAssociative DEF Texts
<1>4. \A h \in Texts : h = << >> \/ \E g \in Texts, x \in Chars : h = Append(g, x)
  BY SequenceEmptyOrAppend DEF Texts
<1>5. << << >> >> = Append(<< >>, << >>) /\ << >> \in Seq(Texts)
      /\ \A d \in Texts : Labels(d) \in Seq(Texts) /\ Labels(d) # << >>
  BY LabelsOf, EmptySeq DEF LabelLists
<1>6. << >> \in T
  <2> SUFFICES ASSUME NEW h \in Texts PROVE Same(<< >>, h)
    BY <1>1
  <2>1. dot \o << >> = Append(<< >>, ".")
    BY <1>1, ConcatEmptySeq DEF Texts
  <2>2. CASE h = << >>
    <3>1. IsSuffix(Labels(h), Labels(h))
      <4>1. IsSuffix(Append(<< >>, << >>), Append(<< >>, << >>))
        BY <1>1, <1>5, LabelListSuffix, SuffixOfNothing
      <4>2. QED
        BY <1>5, <2>2, <4>1, LabelsOf
    <3>2. QED
      BY <2>2, <3>1 DEF Suffix
  <2>3. ASSUME NEW g \in Texts, NEW x \in Chars, h = Append(g, x) PROVE Same(<< >>, h)
    <3>1. Suffix(<< >>, h) <=> x = "."
      <4>1. IsSuffix(dot \o << >>, h) <=> x = "."
        <5>1. IsSuffix(Append(<< >>, "."), Append(g, x)) <=> "." = x /\ IsSuffix(<< >>, g)
          BY <1>1, SuffixAppended DEF Texts
        <5>2. IsSuffix(<< >>, g)
          BY SuffixOfNothing DEF Texts
        <5>3. QED
          BY <2>1, <2>3, <5>1, <5>2
      <4>2. QED
        BY <1>1, <2>3, <4>1 DEF Suffix, dot
    <3>2. IsSuffix(Labels(<< >>), Labels(h)) <=> x = "."
      <4> DEFINE f == Front(Labels(g))
                 l == Last(Labels(g))
      <4>1. Labels(h) = Longer(Labels(g), x) /\ Labels(<< >>) = Append(<< >>, << >>)
        BY <1>5, <2>3, LabelsOf
      <4>2. f \in Seq(Texts) /\ l \in Texts
        BY LabelsOf, LongerIsOne, <1>1
      <4>3. CASE x = "."
        <5>1. Labels(h) = Append(Labels(g), << >>)
          BY <4>1, <4>3 DEF Longer
        <5>2. IsSuffix(Append(<< >>, << >>), Append(Labels(g), << >>)) <=> IsSuffix(<< >>, Labels(g))
          BY <1>1, <1>5, LabelListSuffix
        <5>3. QED
          BY <1>5, <4>1, <4>3, <5>1, <5>2, SuffixOfNothing
      <4>4. CASE x # "."
        <5>1. Labels(h) = Append(f, Append(l, x))
          BY <4>1, <4>4 DEF Longer
        <5> HIDE DEF f, l
        <5>2. Append(l, x) \in Texts /\ Append(l, x) # << >>
          BY <1>1, <4>2
        <5>3. ~IsSuffix(Append(<< >>, << >>), Append(f, Append(l, x)))
          <6>1. << >> \in Texts /\ << >> \in Seq(Texts) /\ f \in Seq(Texts)
            BY <1>1, <1>5, <4>2
          <6>2. QED
            BY <5>2, <6>1, LabelListSuffix
        <5>4. QED
          BY <4>1, <4>4, <5>1, <5>3
      <4>5. QED
        BY <4>3, <4>4
    <3>3. QED
      BY <3>1, <3>2
  <2>4. QED
    BY <1>4, <2>2, <2>3
<1>7. ASSUME NEW e \in T, NEW c \in Chars PROVE Append(e, c) \in T
  <2>1. e \in Texts /\ Append(e, c) \in Texts
    BY <1>1
  <2> DEFINE d == Append(e, c)
  <2> SUFFICES ASSUME NEW h \in Texts PROVE Same(d, h)
    BY <2>1
  <2>2. Labels(d) = Longer(Labels(e), c)
    BY <2>1, LabelsOf
  <2>3. dot \o d = Append(dot \o e, c) /\ d # << >> /\ dot \o e \in Texts
    BY <1>1, <1>2, <1>3, <2>1
  <2>4. CASE h = << >>
    <3>1. ~Suffix(d, h)
      <4>1. Append(dot \o e, c) \in Texts /\ Append(dot \o e, c) # << >>
        BY <1>1, <2>3
      <4>2. ~IsSuffix(Append(dot \o e, c), << >>)
        BY <4>1, SuffixOfNothing DEF Texts
      <4>3. QED
        BY <2>3, <2>4, <4>2 DEF Suffix, dot
    <3>2. ~IsSuffix(Labels(d), Labels(h))
      <4> DEFINE f == Front(Labels(e))
                 l == Last(Labels(e))
      <4>1. Labels(h) = Append(<< >>, << >>)
        BY <1>5, <2>4, LabelsOf
      <4>2. f \in Seq(Texts) /\ l \in Texts
        BY <2>1, LabelsOf, LongerIsOne
      <4>3. CASE c = "."
        <5>1. Labels(d) = Append(Labels(e), << >>)
          BY <2>2, <4>3 DEF Longer
        <5>2. IsSuffix(Append(Labels(e), << >>), Append(<< >>, << >>)) <=> IsSuffix(Labels(e), << >>)
          BY <1>1, <1>5, <2>1, LabelListSuffix
        <5>3. ~IsSuffix(Labels(e), << >>)
          BY <1>5, <2>1, SuffixOfNothing
        <5>4. QED
          BY <4>1, <5>1, <5>2, <5>3
      <4>4. CASE c # "."
        <5>1. Labels(d) = Append(f, Append(l, c))
          BY <2>2, <4>4 DEF Longer
        <5> HIDE DEF f, l
        <5>2. Append(l, c) \in Texts /\ Append(l, c) # << >>
          BY <1>1, <4>2
        <5>3. ~IsSuffix(Append(f, Append(l, c)), Append(<< >>, << >>))
          <6>1. << >> \in Texts /\ << >> \in Seq(Texts) /\ f \in Seq(Texts)
            BY <1>1, <1>5, <4>2
          <6>2. QED
            BY <5>2, <6>1, LastLabelDiffers
        <5>4. QED
          BY <4>1, <5>1, <5>3
      <4>5. QED
        BY <4>3, <4>4
    <3>3. QED
      BY <3>1, <3>2
  <2>5. ASSUME NEW g \in Texts, NEW x \in Chars, h = Append(g, x) PROVE Same(d, h)
    <3>1. IsSuffix(Labels(d), Labels(h)) <=> c = x /\ IsSuffix(Labels(e), Labels(g))
      <4>1. Labels(h) = Longer(Labels(g), x) /\ Labels(e) \in LabelLists /\ Labels(g) \in LabelLists
        BY <2>1, <2>5, LabelsOf
      <4>2. QED
        BY <2>2, <4>1, LongerSuffix
    <3>2. Suffix(d, h) <=> c = x /\ Suffix(e, g)
      <4>1. h = d <=> g = e /\ x = c
        BY <2>1, <2>5, AppendInjective DEF Texts
      <4>2. IsSuffix(dot \o d, h) <=> c = x /\ IsSuffix(dot \o e, g)
        <5> DEFINE q == dot \o e
        <5>1. IsSuffix(Append(q, c), Append(g, x)) <=> c = x /\ IsSuffix(q, g)
          <6>1. q \in Seq(Chars) /\ g \in Seq(Chars)
            BY <2>3 DEF Texts
          <6> HIDE DEF q
          <6>2. QED
            BY <6>1, SuffixAppended
        <5>2. QED
          BY <2>3, <2>5, <5>1
      <4>3. QED
        BY <4>1, <4>2 DEF Suffix, dot
    <3>3. Same(e, g)
      OBVIOUS
    <3>4. QED
      BY <3>1, <3>2, <3>3
  <2>6. QED
    BY <1>4, <2>4, <2>5
<1>8. T = Texts
  <2> HIDE DEF T
  <2>1. T \in SUBSET Seq(Chars)
    BY DEF T, Texts
  <2>2. QED
    BY <1>6, <1>7, <2>1, ByAppending DEF Texts
<1>9. QED
  BY <1>8

-----------------------------------------------------------------------------
(* The first label, and those behind it.                                     *)
LEMMA LongerHeadTail ==
    ASSUME NEW a \in LabelLists, NEW x \in Chars
    PROVE  /\ Head(Longer(a, x)) =
                IF x # "." /\ Tail(a) = << >> THEN Append(Head(a), x) ELSE Head(a)
           /\ Tail(Longer(a, x)) =
                IF x # "." /\ Tail(a) = << >> THEN << >>
                ELSE IF x = "." THEN Append(Tail(a), << >>) ELSE Longer(Tail(a), x)
<1> DEFINE f == Front(a)
           l == Last(a)
<1>1. f \in Seq(Texts) /\ l \in Texts /\ a = Append(f, l) /\ a \in Seq(Texts) /\ a # << >>
  BY LongerIsOne DEF LabelLists
<1>2. << >> \in Texts /\ Append(l, x) \in Texts
  BY <1>1, EmptySeq, AppendProperties DEF Texts
<1>3. CASE x = "."
  <2>1. Longer(a, x) = Append(a, << >>)
    BY <1>3 DEF Longer
  <2>2. /\ Head(Append(a, << >>)) = Head(a)
        /\ Tail(Append(a, << >>)) = Append(Tail(a), << >>)
    BY <1>1, HeadTailAppend
  <2>3. QED
    BY <1>3, <2>1, <2>2
<1>4. CASE x # "."
  <2>1. Longer(a, x) = Append(f, Append(l, x))
    BY <1>4 DEF Longer
  <2> HIDE DEF f, l
  <2>2. /\ Head(a) = IF f = << >> THEN l ELSE Head(f)
        /\ Tail(a) = IF f = << >> THEN << >> ELSE Append(Tail(f), l)
    BY <1>1, HeadTailAppend
  <2>3. /\ Head(Longer(a, x)) = IF f = << >> THEN Append(l, x) ELSE Head(f)
        /\ Tail(Longer(a, x)) = IF f = << >> THEN << >> ELSE Append(Tail(f), Append(l, x))
    BY <1>1, <2>1, HeadTailAppend
  <2>4. CASE f = << >>
    BY <1>4, <2>2, <2>3, <2>4
  <2>5. CASE f # << >>
    <3>1. Tail(f) \in Seq(Texts)
      BY <1>1, <2>5, HeadTailProperties
    <3>2. Append(Tail(f), l) # << >> /\ Append(Tail(f), l) \in LabelLists
      BY <1>1, <3>1, AppendProperties DEF LabelLists
    <3>3. Longer(Append(Tail(f), l), x) = Append(Tail(f), Append(l, x))
      <4>1. Append(Tail(f), l) = Append(Front(Append(Tail(f), l)), Last(Append(Tail(f), l)))
            /\ Front(Append(Tail(f), l)) \in Seq(Texts) /\ Last(Append(Tail(f), l)) \in Texts
        BY <3>2, LongerIsOne
      <4>2. Front(Append(Tail(f), l)) = Tail(f) /\ Last(Append(Tail(f), l)) = l
        BY <1>1, <3>1, <4>1, AppendInjective
      <4>3. QED
        BY <1>4, <4>2 DEF Longer
    <3>4. QED
      BY <1>4, <2>2, <2>3, <2>5, <3>2, <3>3
  <2>6. QED
    BY <2>4, <2>5
<1>5. QED
  BY <1>3, <1>4

(* A character before a text begins its first label or, a dot, ends an empty *)
(* one.                                                                      *)
LEMMA LabelsOfPrefixed ==
    ASSUME NEW c \in Chars, NEW text \in Texts
    PROVE  /\ <<c>> \o text \in Texts
           /\ c = "." => /\ Head(Labels(<<c>> \o text)) = << >>
                         /\ Tail(Labels(<<c>> \o text)) = Labels(text)
           /\ c # "." => /\ Head(Labels(<<c>> \o text)) = <<c>> \o Head(Labels(text))
                         /\ Tail(Labels(<<c>> \o text)) = Tail(Labels(text))
<1> DEFINE Good(r) == /\ c = "." => /\ Head(Labels(<<c>> \o r)) = << >>
                                    /\ Tail(Labels(<<c>> \o r)) = Labels(r)
                      /\ c # "." => /\ Head(Labels(<<c>> \o r)) = <<c>> \o Head(Labels(r))
                                    /\ Tail(Labels(<<c>> \o r)) = Tail(Labels(r))
           T == {r \in Texts : Good(r)}
<1>1. << >> \in Texts /\ <<c>> \in Texts /\ <<c>> = Append(<< >>, c) /\ <<c>> # << >>
  BY EmptySeq DEF Texts
<1>2. \A r \in Texts : <<c>> \o r \in Texts
  BY <1>1, ConcatProperties DEF Texts
<1>3. \A r \in Texts : Labels(r) \in LabelLists /\ Head(Labels(r)) \in Texts /\ Labels(r) # << >>
                       /\ Tail(Labels(r)) \in Seq(Texts)
  BY LabelsOf, HeadTailProperties DEF LabelLists
<1>4. << >> \in T
  <2>1. <<c>> \o << >> = <<c>>
    BY <1>1, ConcatEmptySeq DEF Texts
  <2>2. Labels(<<c>>) = Longer(<< << >> >>, c)
    <3>1. Labels(Append(<< >>, c)) = Longer(Labels(<< >>), c)
      BY <1>1, LabelsOf
    <3>2. QED
      BY <1>1, <3>1, LabelsOf
  <2>3. Head(<< << >> >>) = << >> /\ Tail(<< << >> >>) = << >>
    OBVIOUS
  <2>4. /\ Head(Longer(<< << >> >>, c)) = IF c # "." THEN <<c>> ELSE << >>
        /\ Tail(Longer(<< << >> >>, c)) = IF c # "." THEN << >> ELSE << << >> >>
    <3> DEFINE w == << << >> >>
    <3>1. w \in LabelLists /\ Head(w) = << >> /\ Tail(w) = << >>
      BY <1>1, <1>3, <2>3, LabelsOf
    <3>2. Append(<< >>, << >>) = w
      OBVIOUS
    <3> HIDE DEF w
    <3>3. /\ Head(Longer(w, c)) =
               IF c # "." /\ Tail(w) = << >> THEN Append(Head(w), c) ELSE Head(w)
          /\ Tail(Longer(w, c)) =
               IF c # "." /\ Tail(w) = << >> THEN << >>
               ELSE IF c = "." THEN Append(Tail(w), << >>) ELSE Longer(Tail(w), c)
      BY <3>1, LongerHeadTail
    <3>4. /\ Head(Longer(w, c)) = IF c # "." THEN Append(<< >>, c) ELSE << >>
          /\ Tail(Longer(w, c)) = IF c # "." THEN << >> ELSE Append(<< >>, << >>)
      BY <3>1, <3>3
    <3>5. QED
      BY <1>1, <3>2, <3>4 DEF w
  <2>5. <<c>> \o Head(Labels(<< >>)) = <<c>>
    BY <2>1, <2>3, LabelsOf
  <2>6. QED
    BY <1>1, <2>1, <2>2, <2>3, <2>4, <2>5, LabelsOf
<1>5. ASSUME NEW r \in T, NEW x \in Chars PROVE Append(r, x) \in T
  <2>1. r \in Texts /\ Append(r, x) \in Texts /\ Labels(Append(r, x)) = Longer(Labels(r), x)
    BY LabelsOf
  <2> DEFINE p == <<c>> \o r
             a == Labels(p)
             b == Labels(r)
  <2>2. p \in Texts /\ a \in LabelLists /\ b \in LabelLists
    BY <1>2, <1>3, <2>1
  <2>3. <<c>> \o Append(r, x) = Append(p, x)
    <3>1. Append(r, x) = r \o <<x>> /\ <<x>> \in Texts /\ Append(p, x) = p \o <<x>>
      BY <2>1, <2>2, AppendIsConcat DEF Texts
    <3>2. QED
      BY <1>1, <2>1, <3>1, ConcatAssociative DEF Texts
  <2>4. Labels(<<c>> \o Append(r, x)) = Longer(a, x)
    BY <2>2, <2>3, LabelsOf
  <2>5. Good(r)
    OBVIOUS
  <2>6. Tail(b) \in Seq(Texts) /\ Head(b) \in Texts /\ b # << >> /\ Head(b) \in Seq(Chars)
    BY <1>3, <2>1 DEF Texts
  <2>7. /\ c = "." => Head(a) = << >> /\ Tail(a) = b
        /\ c # "." => Head(a) = <<c>> \o Head(b) /\ Tail(a) = Tail(b)
    BY <2>5
  <2> HIDE DEF a, b, p
  <2>8. \A d \in {a, b} :
           /\ Head(Longer(d, x)) =
                IF x # "." /\ Tail(d) = << >> THEN Append(Head(d), x) ELSE Head(d)
           /\ Tail(Longer(d, x)) =
                IF x # "." /\ Tail(d) = << >> THEN << >>
                ELSE IF x = "." THEN Append(Tail(d), << >>) ELSE Longer(Tail(d), x)
    BY <2>2, LongerHeadTail
  <2>9. CASE c = "."
    <3>1. Head(Longer(a, x)) = << >>
      BY <2>6, <2>7, <2>9, <2>8
    <3>2. Tail(Longer(a, x)) = IF x = "." THEN Append(b, << >>) ELSE Longer(b, x)
      BY <2>6, <2>7, <2>9, <2>8
    <3>3. Tail(Longer(a, x)) = Longer(b, x)
      BY <3>2 DEF Longer
    <3>4. Good(Append(r, x))
      BY <2>1, <2>4, <2>9, <3>1, <3>3 DEF b
    <3>5. QED
      BY <2>1, <3>4
  <2>10. CASE c # "."
    <3>1. Tail(Longer(a, x)) = Tail(Longer(b, x))
      BY <2>7, <2>10, <2>8
    <3>2. Head(Longer(a, x)) = <<c>> \o Head(Longer(b, x))
      <4>1. CASE x # "." /\ Tail(b) = << >>
        <5>1. Head(Longer(a, x)) = Append(<<c>> \o Head(b), x)
              /\ Head(Longer(b, x)) = Append(Head(b), x)
          BY <2>7, <2>10, <2>8, <4>1
        <5>2. Append(<<c>> \o Head(b), x) = <<c>> \o Append(Head(b), x)
          <6> DEFINE h == Head(b)
          <6>1. h \in Seq(Chars)
            BY <2>6
          <6> HIDE DEF h
          <6>2. <<c>> \o h \in Seq(Chars)
            BY <1>1, <6>1, ConcatProperties DEF Texts
          <6>3. Append(h, x) = h \o <<x>> /\ <<x>> \in Seq(Chars)
                /\ Append(<<c>> \o h, x) = (<<c>> \o h) \o <<x>>
            BY <6>1, <6>2, AppendIsConcat
          <6>4. QED
            BY <1>1, <6>1, <6>3, ConcatAssociative DEF Texts, h
        <5>3. QED
          BY <5>1, <5>2
      <4>2. CASE ~(x # "." /\ Tail(b) = << >>)
        BY <2>2, <2>7, <2>10, <4>2, LongerHeadTail
      <4>3. QED
        BY <4>1, <4>2
    <3>3. Good(Append(r, x))
      BY <2>1, <2>4, <2>10, <3>1, <3>2 DEF b
    <3>4. QED
      BY <2>1, <3>3
  <2>11. QED
    BY <2>9, <2>10
<1>6. T = Texts
  <2> HIDE DEF T
  <2>1. T \in SUBSET Seq(Chars)
    BY DEF T, Texts
  <2>2. QED
    BY <1>4, <1>5, <2>1, ByAppending DEF Texts
<1>7. QED
  BY <1>2, <1>6

(* A text holds a character when it is in the rest or comes last.           *)
LEMMA RangeAppended ==
    ASSUME NEW S, NEW t \in Seq(S), NEW c \in S
    PROVE  Range(Append(t, c)) = Range(t) \cup {c}
<1> DEFINE u == Append(t, c)
           n == Len(t)
<1>1. /\ n \in Nat /\ u \in Seq(S) /\ Len(u) = n + 1 /\ u[n + 1] = c /\ \A i \in 1 .. n : u[i] = t[i]
      /\ DOMAIN u = 1 .. n + 1 /\ DOMAIN t = 1 .. n
  BY AppendProperties, LenProperties
<1> HIDE DEF u, n
<1>2. n + 1 \in 1 .. n + 1 /\ (\A i \in 1 .. n : i \in 1 .. n + 1)
      /\ \A i \in 1 .. n + 1 : i = n + 1 \/ i \in 1 .. n
  BY <1>1
<1>3. Range(u) = {u[i] : i \in 1 .. n + 1} /\ Range(t) = {t[i] : i \in 1 .. n}
  BY <1>1 DEF Range
<1>4. Range(u) = Range(t) \cup {c}
  BY <1>1, <1>2, <1>3
<1>5. QED
  BY <1>4 DEF u

AnyWild(labels) == \E i \in 1 .. Len(labels) : Wild(labels[i])

(* A text or a list is wild when what it begins with or what it ends with    *)
(* is.                                                                       *)
LEMMA WildAppended ==
    /\ ~Wild(<< >>)
    /\ \A t \in Texts, c \in Chars : Wild(Append(t, c)) <=> Wild(t) \/ c \in {"*", "?"}
    /\ \A a \in Seq(Texts), l \in Texts : AnyWild(Append(a, l)) <=> AnyWild(a) \/ Wild(l)
<1>1. ~Wild(<< >>)
  BY DEF Wild, Range
<1>2. \A t \in Texts, c \in Chars : Wild(Append(t, c)) <=> Wild(t) \/ c \in {"*", "?"}
  BY RangeAppended DEF Wild, Texts
<1>3. ASSUME NEW a \in Seq(Texts), NEW l \in Texts
      PROVE  AnyWild(Append(a, l)) <=> AnyWild(a) \/ Wild(l)
  <2> DEFINE b == Append(a, l)
             n == Len(a)
  <2>1. n \in Nat /\ Len(b) = n + 1 /\ b[n + 1] = l /\ \A i \in 1 .. n : b[i] = a[i]
    BY AppendProperties, LenProperties
  <2> HIDE DEF b, n
  <2>2. \A i \in 1 .. n + 1 : i = n + 1 \/ i \in 1 .. n
    BY <2>1
  <2>3. n + 1 \in 1 .. n + 1 /\ \A i \in 1 .. n : i \in 1 .. n + 1
    BY <2>1
  <2>4. AnyWild(b) <=> \E i \in 1 .. n + 1 : Wild(b[i])
    BY <2>1 DEF AnyWild
  <2>5. AnyWild(a) <=> \E i \in 1 .. n : Wild(a[i])
    BY DEF AnyWild, n
  <2>6. QED
    BY <2>1, <2>2, <2>3, <2>4, <2>5 DEF b
<1>4. QED
  BY <1>1, <1>2, <1>3

(* A label is wild exactly when the text is; the labels are one exactly when *)
(* the text has no dot.                                                      *)
LEMMA WildAndDots ==
    ASSUME NEW text \in Texts
    PROVE  /\ AnyWild(Labels(text)) <=> Wild(text)
           /\ Len(Labels(text)) = 1 <=> "." \notin Range(text)
<1> DEFINE Good(t) == /\ AnyWild(Labels(t)) <=> Wild(t)
                      /\ Len(Labels(t)) = 1 <=> "." \notin Range(t)
           T == {t \in Texts : Good(t)}
<1>1. << >> \in T
  <2>1. << >> \in Texts /\ Labels(<< >>) = << << >> >> /\ Len(<< << >> >>) = 1
    BY EmptySeq, LabelsOf DEF Texts
  <2>2. ~AnyWild(<< << >> >>)
    BY WildAppended DEF AnyWild
  <2>3. "." \notin Range(<< >>)
    BY DEF Range
  <2>4. QED
    BY <2>1, <2>2, <2>3, WildAppended
<1>2. ASSUME NEW t \in T, NEW c \in Chars PROVE Append(t, c) \in T
  <2> DEFINE a == Labels(t)
             f == Front(a)
             l == Last(a)
             u == Append(t, c)
  <2>1. t \in Texts /\ u \in Texts /\ Labels(u) = Longer(a, c) /\ a \in LabelLists
    BY LabelsOf
  <2>2. f \in Seq(Texts) /\ l \in Texts /\ a = Append(f, l) /\ a \in Seq(Texts)
    BY <2>1, LongerIsOne DEF LabelLists
  <2>3. << >> \in Texts /\ Append(l, c) \in Texts
    BY <2>2, EmptySeq, AppendProperties DEF Texts
  <2>4. Range(u) = Range(t) \cup {c}
    BY <2>1, RangeAppended DEF Texts
  <2>5. Len(a) = Len(f) + 1 /\ Len(f) \in Nat
    BY <2>2, AppendProperties, LenProperties
  <2>6. Good(t)
    OBVIOUS
  <2> HIDE DEF a, f, l, u
  <2>7. CASE c = "."
    <3>1. Labels(u) = Append(a, << >>)
      BY <2>1, <2>7 DEF Longer
    <3>2. AnyWild(Labels(u)) <=> Wild(u)
      <4>1. AnyWild(Labels(u)) <=> AnyWild(a)
        <5> DEFINE v == << >>
        <5>1. v \in Texts /\ ~Wild(v) /\ Labels(u) = Append(a, v)
          BY <2>3, <3>1, WildAppended
        <5> HIDE DEF v
        <5>2. AnyWild(Append(a, v)) <=> AnyWild(a) \/ Wild(v)
          BY <2>2, <5>1, WildAppended
        <5>3. QED
          BY <5>1, <5>2
      <4>2. Wild(u) <=> Wild(t)
        BY <2>1, <2>7, WildAppended DEF u
      <4>3. QED
        BY <2>6, <4>1, <4>2 DEF a
    <3>3. Len(Labels(u)) = Len(a) + 1
      BY <2>2, <2>3, <3>1, AppendProperties
    <3>4. Len(Labels(u)) # 1 /\ "." \in Range(u)
      BY <2>4, <2>5, <2>7, <3>3
    <3>5. QED
      BY <2>1, <3>2, <3>4 DEF u
  <2>8. CASE c # "."
    <3>1. Labels(u) = Append(f, Append(l, c))
      BY <2>1, <2>8 DEF Longer, f, l
    <3>2. AnyWild(Labels(u)) <=> AnyWild(f) \/ Wild(l) \/ c \in {"*", "?"}
      BY <2>2, <2>3, <3>1, WildAppended
    <3>3. AnyWild(a) <=> AnyWild(f) \/ Wild(l)
      BY <2>2, WildAppended
    <3>4. Wild(u) <=> Wild(t) \/ c \in {"*", "?"}
      BY <2>1, WildAppended DEF u
    <3>5. AnyWild(Labels(u)) <=> Wild(u)
      BY <2>6, <3>2, <3>3, <3>4 DEF a
    <3>6. Len(Labels(u)) = Len(a)
      BY <2>2, <2>3, <2>5, <3>1, AppendProperties
    <3>7. Len(Labels(u)) = 1 <=> "." \notin Range(u)
      BY <2>4, <2>6, <2>8, <3>6 DEF a
    <3>8. QED
      BY <2>1, <3>5, <3>7 DEF u
  <2>9. QED
    BY <2>7, <2>8
<1>3. T = Texts
  <2> HIDE DEF T
  <2>1. T \in SUBSET Seq(Chars)
    BY DEF T, Texts
  <2>2. QED
    BY <1>1, <1>2, <2>1, ByAppending DEF Texts
<1>4. QED
  BY <1>3

-----------------------------------------------------------------------------
(* Globs.  What the first n of a pattern can match, from what one less can.  *)
Reach(pattern, text, before, n) ==
    IF pattern[n] = "*" THEN {j \in 0 .. Len(text) : \E i \in before : i <= j}
    ELSE {j \in 1 .. Len(text) : j - 1 \in before /\ pattern[n] \in {"?", text[j]}}
GlobBody(pattern, text, f) ==
    [n \in 0 .. Len(pattern) |-> IF n = 0 THEN {0} ELSE Reach(pattern, text, f[n - 1], n)]

(* Glob is what its recursion says.                                          *)
LEMMA GlobUnfold ==
    ASSUME NEW pattern \in Texts, NEW text \in Texts
    PROVE  \E f \in [0 .. Len(pattern) -> SUBSET (0 .. Len(text))] :
             /\ f[0] = {0}
             /\ \A n \in 1 .. Len(pattern) : f[n] = Reach(pattern, text, f[n - 1], n)
             /\ Glob(pattern, text) <=> Len(text) \in f[Len(pattern)]
<1> DEFINE N == Len(pattern)
           A == SUBSET (0 .. Len(text))
           Body(f) == GlobBody(pattern, text, f)
           Step == [p \in A \X (1 .. N) |-> Reach(pattern, text, p[1], p[2])]
<1>1. N \in Nat /\ Len(text) \in Nat
  BY LenProperties DEF Texts
<1>2. {0} \in A
  BY <1>1
<1>3. \A B, n : Reach(pattern, text, B, n) \in A
  BY <1>1 DEF Reach
<1>4. Step \in [A \X (1 .. N) -> A]
  BY <1>3
<1>5. \A B \in A, n \in 1 .. N : Step[<<B, n>>] = Reach(pattern, text, B, n)
  OBVIOUS
<1> HIDE DEF A
<1>6. \E f : f = Body(f)
  <2> HIDE DEF Step, N
  <2>1. Solutions(N, A, {0}, Step) # {}
    BY <1>1, <1>2, <1>4, Recursion
  <2> PICK f \in [0 .. N -> A] : f[0] = {0} /\ \A n \in 1 .. N : f[n] = Step[<<f[n - 1], n>>]
    BY <2>1 DEF Solutions
  <2>2. \A n \in 1 .. N : f[n - 1] \in A
    BY <1>1
  <2>3. \A n \in 0 .. N : n # 0 => n \in 1 .. N
    BY <1>1
  <2>4. \A n \in 0 .. N : f[n] = IF n = 0 THEN {0} ELSE Reach(pattern, text, f[n - 1], n)
    BY <1>5, <2>2, <2>3
  <2>5. f = Body(f)
    BY <2>4 DEF GlobBody, N
  <2>6. QED
    BY <2>5
<1> DEFINE f == CHOOSE g : g = Body(g)
<1>7. f = Body(f)
  BY <1>6
<1>8. Glob(pattern, text) <=> Len(text) \in f[N]
  BY DEF Glob, GlobBody, Reach
<1> HIDE DEF f, Step
<1>9. f[0] = {0} /\ DOMAIN f = 0 .. N
  BY <1>1, <1>7 DEF GlobBody
<1>10. \A n \in 1 .. N : f[n] = Reach(pattern, text, f[n - 1], n)
  <2> SUFFICES ASSUME NEW n \in 1 .. N PROVE f[n] = Reach(pattern, text, f[n - 1], n)
    OBVIOUS
  <2>1. n \in 0 .. N /\ n # 0
    BY <1>1
  <2> HIDE DEF N
  <2>2. QED
    BY <1>7, <2>1, Zenon DEF GlobBody, N
<1>11. \A n \in 0 .. N : f[n] \in A
  <2> SUFFICES ASSUME NEW n \in 0 .. N PROVE f[n] \in A
    OBVIOUS
  <2>1. n = 0 \/ n \in 1 .. N
    BY <1>1
  <2> HIDE DEF N
  <2>2. CASE n \in 1 .. N
    <3>1. f[n] = Reach(pattern, text, f[n - 1], n)
      BY <1>10, <2>2
    <3>2. QED
      BY <1>3, <3>1
  <2>3. QED
    BY <1>2, <1>9, <2>1, <2>2
<1>12. f = [n \in 0 .. N |-> f[n]]
  BY <1>7 DEF GlobBody
<1> HIDE DEF N
<1>13. f \in [0 .. N -> A]
  BY <1>11, <1>12
<1>14. QED
  BY <1>8, <1>9, <1>10, <1>13 DEF N, A

(* A way through the text: where in it each element of the pattern ends.     *)
Moves(pattern, text, i, a, b) ==
    IF pattern[i] = "*" THEN a <= b ELSE b = a + 1 /\ pattern[i] \in {"?", text[b]}
Way(pattern, text, to, n, j) ==
    /\ to \in [0 .. n -> 0 .. Len(text)] /\ to[0] = 0 /\ to[n] = j
    /\ \A i \in 1 .. n : Moves(pattern, text, i, to[i - 1], to[i])

(* A way through one element more is a way through the elements before and   *)
(* that element's move.                                                      *)
LEMMA WayStep ==
    ASSUME NEW pattern \in Texts, NEW text \in Texts, NEW n \in Nat, NEW j \in 0 .. Len(text)
    PROVE  (\E to : Way(pattern, text, to, n + 1, j))
             <=> \E i \in 0 .. Len(text) : /\ \E to : Way(pattern, text, to, n, i)
                                           /\ Moves(pattern, text, n + 1, i, j)
<1> DEFINE M == Len(text)
<1>1. M \in Nat
  BY LenProperties DEF Texts
<1> HIDE DEF M
<1>2. ASSUME NEW to, Way(pattern, text, to, n + 1, j)
      PROVE  \E i \in 0 .. M : /\ \E way : Way(pattern, text, way, n, i)
                               /\ Moves(pattern, text, n + 1, i, j)
  <2> DEFINE way == [k \in 0 .. n |-> to[k]]
  <2>1. /\ to \in [0 .. n + 1 -> 0 .. M] /\ to[0] = 0 /\ to[n + 1] = j
        /\ \A k \in 1 .. n + 1 : Moves(pattern, text, k, to[k - 1], to[k])
    BY <1>2 DEF Way, M
  <2>2. /\ \A k \in 0 .. n : k \in 0 .. n + 1 /\ way[k] = to[k] /\ to[k] \in 0 .. M
        /\ 0 \in 0 .. n /\ n \in 0 .. n /\ n + 1 \in 1 .. n + 1 /\ (n + 1) - 1 = n
        /\ \A k \in 1 .. n : k \in 1 .. n + 1 /\ k \in 0 .. n /\ k - 1 \in 0 .. n
    BY <2>1
  <2>3. way \in [0 .. n -> 0 .. M]
    BY <2>2
  <2> HIDE DEF way
  <2>4. Way(pattern, text, way, n, to[n])
    BY <2>1, <2>2, <2>3 DEF Way, M
  <2>5. Moves(pattern, text, n + 1, to[n], j)
    BY <2>1, <2>2
  <2>6. QED
    BY <2>2, <2>4, <2>5
<1>3. ASSUME NEW i \in 0 .. M, NEW to, Way(pattern, text, to, n, i), Moves(pattern, text, n + 1, i, j)
      PROVE  \E way : Way(pattern, text, way, n + 1, j)
  <2> DEFINE way == [k \in 0 .. n + 1 |-> IF k = n + 1 THEN j ELSE to[k]]
  <2>1. /\ to \in [0 .. n -> 0 .. M] /\ to[0] = 0 /\ to[n] = i
        /\ \A k \in 1 .. n : Moves(pattern, text, k, to[k - 1], to[k])
    BY <1>3 DEF Way, M
  <2>2. /\ \A k \in 0 .. n : k # n + 1 /\ k \in 0 .. n + 1 /\ to[k] \in 0 .. M
        /\ n + 1 \in 0 .. n + 1 /\ 0 \in 0 .. n /\ n \in 0 .. n /\ (n + 1) - 1 = n
        /\ \A k \in 0 .. n + 1 : k = n + 1 \/ k \in 0 .. n
        /\ \A k \in 1 .. n : k \in 0 .. n /\ k - 1 \in 0 .. n
        /\ \A k \in 1 .. n + 1 : k = n + 1 \/ k \in 1 .. n
    BY <2>1
  <2>3. j \in 0 .. M
    BY DEF M
  <2>4. way \in [0 .. n + 1 -> 0 .. M] /\ way[n + 1] = j /\ \A k \in 0 .. n : way[k] = to[k]
    BY <2>2, <2>3
  <2> HIDE DEF way
  <2>5. \A k \in 1 .. n + 1 : Moves(pattern, text, k, way[k - 1], way[k])
    <3>1. ASSUME NEW k \in 1 .. n PROVE Moves(pattern, text, k, way[k - 1], way[k])
      BY <2>1, <2>2, <2>4
    <3>2. Moves(pattern, text, n + 1, way[(n + 1) - 1], way[n + 1])
      BY <1>3, <2>1, <2>2, <2>4
    <3>3. QED
      BY <2>2, <3>1, <3>2
  <2>6. Way(pattern, text, way, n + 1, j)
    BY <2>1, <2>2, <2>4, <2>5 DEF Way, M
  <2>7. QED
    BY <2>6
<1>4. QED
  BY <1>2, <1>3 DEF M

(* A glob matches a text when there is a way through all of it.              *)
LEMMA GlobIsWay ==
    ASSUME NEW pattern \in Texts, NEW text \in Texts
    PROVE  Glob(pattern, text) <=> \E to : Way(pattern, text, to, Len(pattern), Len(text))
<1> DEFINE N == Len(pattern)
           M == Len(text)
           Go(n, j) == \E to : Way(pattern, text, to, n, j)
<1>1. N \in Nat /\ M \in Nat
  BY LenProperties DEF Texts
<1>2. PICK f \in [0 .. N -> SUBSET (0 .. M)] :
        /\ f[0] = {0}
        /\ \A n \in 1 .. N : f[n] = Reach(pattern, text, f[n - 1], n)
        /\ Glob(pattern, text) <=> M \in f[N]
  BY GlobUnfold
<1> DEFINE T == {n \in Nat : n <= N => \A j \in 0 .. M : j \in f[n] <=> Go(n, j)}
<1>3. 0 \in T
  <2> SUFFICES ASSUME NEW j \in 0 .. M PROVE j \in {0} <=> Go(0, j)
    BY <1>2
  <2>1. ASSUME j = 0 PROVE Go(0, j)
    <3> DEFINE to == [k \in 0 .. 0 |-> 0]
    <3>1. to \in [0 .. 0 -> 0 .. M] /\ to[0] = 0 /\ \A i \in 1 .. 0 : FALSE
      BY <1>1
    <3> HIDE DEF to
    <3>2. Way(pattern, text, to, 0, j)
      BY <2>1, <3>1 DEF Way
    <3>3. QED
      BY <3>2
  <2>2. ASSUME Go(0, j) PROVE j = 0
    BY <2>2 DEF Way
  <2>3. QED
    BY <2>1, <2>2
<1>4. ASSUME NEW n \in T PROVE n + 1 \in T
  <2> SUFFICES ASSUME n + 1 <= N, NEW j \in 0 .. M PROVE j \in f[n + 1] <=> Go(n + 1, j)
    OBVIOUS
  <2> HIDE DEF Go
  <2>1. n \in Nat /\ n + 1 \in 1 .. N /\ (n + 1) - 1 = n /\ n \in 0 .. N
        /\ \A i \in 0 .. M : i \in f[n] <=> Go(n, i)
    BY <1>1
  <2> HIDE DEF T, N
  <2>2. f[n + 1] = Reach(pattern, text, f[n], n + 1) /\ f[n] \subseteq 0 .. M
    BY <1>2, <2>1
  <2>3. j \in Reach(pattern, text, f[n], n + 1)
          <=> \E i \in 0 .. M : i \in f[n] /\ Moves(pattern, text, n + 1, i, j)
    <3>1. CASE pattern[n + 1] = "*"
      BY <1>1, <2>2, <3>1 DEF Reach, Moves
    <3>2. CASE pattern[n + 1] # "*"
      <4>1. j \in Reach(pattern, text, f[n], n + 1)
              <=> j \in 1 .. M /\ j - 1 \in f[n] /\ pattern[n + 1] \in {"?", text[j]}
        BY <3>2 DEF Reach
      <4>2. \A i \in 0 .. M : Moves(pattern, text, n + 1, i, j)
                                <=> i = j - 1 /\ pattern[n + 1] \in {"?", text[j]}
        BY <1>1, <3>2 DEF Moves
      <4>3. \A i \in 0 .. M : i = j - 1 => j \in 1 .. M
        BY <1>1
      <4>4. j - 1 \in f[n] => j - 1 \in 0 .. M
        BY <2>2
      <4>5. QED
        BY <4>1, <4>2, <4>3, <4>4
    <3>3. QED
      BY <3>1, <3>2
  <2>4. Go(n + 1, j) <=> \E i \in 0 .. M : Go(n, i) /\ Moves(pattern, text, n + 1, i, j)
    BY <2>1, WayStep DEF Go
  <2>5. QED
    BY <2>1, <2>2, <2>3, <2>4
<1>5. T = Nat
  <2> HIDE DEF T
  <2>1. T \in SUBSET Nat
    BY DEF T
  <2>2. QED
    BY <1>3, <1>4, <2>1, Induction
<1>6. M \in f[N] <=> Go(N, M)
  BY <1>1, <1>5
<1>7. QED
  BY <1>2, <1>6

(* Where an element ends, counted from the star before it.                   *)
StarsOf(pattern) == {i \in DOMAIN pattern : pattern[i] = "*"}
Upto(pattern, end, i) ==
    LET before == {k \in StarsOf(pattern) : k <= i}
    IN IF before = {} THEN i ELSE end[Max(before)] + (i - Max(before))

(* Where an element ends goes on from the element before; a star ends        *)
(* where it chooses.                                                         *)
LEMMA UptoGoes ==
    ASSUME NEW pattern \in Texts, NEW M \in Nat, NEW end \in [StarsOf(pattern) -> 0 .. M]
    PROVE  /\ Upto(pattern, end, 0) = 0
           /\ \A i \in 0 .. Len(pattern) : Upto(pattern, end, i) \in Nat
           /\ \A i \in 1 .. Len(pattern) :
                Upto(pattern, end, i) = IF pattern[i] = "*" THEN end[i]
                                        ELSE Upto(pattern, end, i - 1) + 1
<1> DEFINE N == Len(pattern)
           before(i) == {k \in StarsOf(pattern) : k <= i}
<1>1. N \in Nat /\ StarsOf(pattern) \subseteq 1 .. N
      /\ \A i \in 1 .. N : i \in StarsOf(pattern) <=> pattern[i] = "*"
  BY LenProperties DEF StarsOf, Texts
<1>2. ASSUME NEW i \in 0 .. N
      PROVE  Upto(pattern, end, i) = IF before(i) = {} THEN i
                                     ELSE end[Max(before(i))] + (i - Max(before(i)))
  BY DEF Upto
<1>3. ASSUME NEW i \in 0 .. N, before(i) # {}
      PROVE  Max(before(i)) \in StarsOf(pattern) /\ Max(before(i)) <= i
  <2>1. before(i) \in SUBSET (1 .. N)
    BY <1>1
  <2> HIDE DEF before
  <2>2. Max(before(i)) \in before(i)
    BY <1>1, <1>3, <2>1, Extremes
  <2>3. QED
    BY <2>2 DEF before
<1>4. \A i \in 0 .. N : Upto(pattern, end, i) \in Nat
  <2> SUFFICES ASSUME NEW i \in 0 .. N PROVE Upto(pattern, end, i) \in Nat
    OBVIOUS
  <2>1. CASE before(i) = {}
    <3>1. Upto(pattern, end, i) = i
      BY <1>2, <2>1
    <3>2. QED
      BY <1>1, <3>1
  <2>2. CASE before(i) # {}
    <3> DEFINE m == Max(before(i))
    <3>1. m \in StarsOf(pattern) /\ m <= i /\ Upto(pattern, end, i) = end[m] + (i - m)
      BY <1>2, <1>3, <2>2
    <3> HIDE DEF m, before
    <3>2. end[m] \in 0 .. M /\ m \in 1 .. N
      BY <1>1, <3>1
    <3>3. QED
      BY <1>1, <3>1, <3>2
  <2>3. QED
    BY <2>1, <2>2
<1>5. Upto(pattern, end, 0) = 0
  <2>1. before(0) = {} /\ 0 \in 0 .. N
    BY <1>1
  <2>2. QED
    BY <1>2, <2>1
<1>6. ASSUME NEW i \in 1 .. N, pattern[i] = "*" PROVE Upto(pattern, end, i) = end[i]
  <2>1. before(i) \subseteq Int /\ i \in before(i) /\ \A k \in before(i) : k <= i
    BY <1>1, <1>6
  <2> HIDE DEF before
  <2>2. Max(before(i)) = i
    BY <2>1, MaxIs
  <2>3. i \in 0 .. N /\ end[i] \in 0 .. M /\ i - i = 0
    BY <1>1, <1>6
  <2>4. Upto(pattern, end, i) = end[i] + (i - i)
    BY <1>2, <2>1, <2>2, <2>3
  <2>5. QED
    BY <2>3, <2>4
<1>7. ASSUME NEW i \in 1 .. N, pattern[i] # "*"
      PROVE  Upto(pattern, end, i) = Upto(pattern, end, i - 1) + 1
  <2>1. i \in 0 .. N /\ i - 1 \in 0 .. N
    BY <1>1
  <2>2. before(i) = before(i - 1)
    <3>1. \A k \in StarsOf(pattern) : k <= i <=> k <= i - 1
      BY <1>1, <1>7
    <3>2. QED
      BY <3>1
  <2>3. CASE before(i - 1) = {}
    <3>1. Upto(pattern, end, i - 1) = i - 1
      BY <1>2, <2>1, <2>3
    <3>2. Upto(pattern, end, i) = i
      <4>1. before(i) = {}
        BY <2>2, <2>3
      <4>2. QED
        BY <1>2, <2>1, <4>1
    <3>3. QED
      BY <1>1, <3>1, <3>2
  <2>4. CASE before(i - 1) # {}
    <3> DEFINE m == Max(before(i - 1))
    <3>1. /\ m \in StarsOf(pattern) /\ Upto(pattern, end, i - 1) = end[m] + ((i - 1) - m)
          /\ Upto(pattern, end, i) = end[m] + (i - m)
      BY <1>2, <1>3, <2>1, <2>2, <2>4
    <3> HIDE DEF m, before
    <3>2. end[m] \in 0 .. M /\ m \in 1 .. N
      BY <1>1, <3>1
    <3>3. QED
      BY <1>1, <3>1, <3>2
  <2>5. QED
    BY <2>3, <2>4
<1>8. QED
  BY <1>4, <1>5, <1>6, <1>7

(* A glob matches when its stars can stretch to fit the text.                *)
LEMMA GlobFits ==
    ASSUME NEW pattern \in Texts, NEW text \in Texts
    PROVE  Glob(pattern, text) <=> Fits(pattern, text)
<1> DEFINE N == Len(pattern)
           M == Len(text)
           Ends == [StarsOf(pattern) -> 0 .. M]
           Good(end) == /\ Upto(pattern, end, N) = M
                        /\ \A i \in 1 .. N :
                             IF i \in StarsOf(pattern) THEN Upto(pattern, end, i - 1) <= end[i]
                             ELSE /\ Upto(pattern, end, i) <= M
                                  /\ pattern[i] \in {"?", text[Upto(pattern, end, i)]}
<1>1. N \in Nat /\ M \in Nat /\ DOMAIN pattern = 1 .. N
      /\ \A i \in 1 .. N : i \in StarsOf(pattern) <=> pattern[i] = "*"
  BY LenProperties DEF StarsOf, Texts
<1>2. Fits(pattern, text) <=> \E end \in Ends : Good(end)
  BY <1>1 DEF Fits, Upto, StarsOf
<1>3. ASSUME NEW to, Way(pattern, text, to, N, M) PROVE \E end \in Ends : Good(end)
  <2> DEFINE end == [k \in StarsOf(pattern) |-> to[k]]
  <2>1. /\ to \in [0 .. N -> 0 .. M] /\ to[0] = 0 /\ to[N] = M
        /\ \A i \in 1 .. N : Moves(pattern, text, i, to[i - 1], to[i])
    BY <1>3 DEF Way
  <2>2. StarsOf(pattern) \subseteq 0 .. N
    BY <1>1 DEF StarsOf
  <2>3. end \in Ends /\ \A k \in StarsOf(pattern) : end[k] = to[k]
    BY <2>1, <2>2
  <2> HIDE DEF end
  <2>4. /\ Upto(pattern, end, 0) = 0
        /\ \A i \in 1 .. N : Upto(pattern, end, i) = IF pattern[i] = "*" THEN end[i]
                                                     ELSE Upto(pattern, end, i - 1) + 1
    BY <1>1, <2>3, UptoGoes
  <2> DEFINE T == {i \in Nat : i <= N => Upto(pattern, end, i) = to[i]}
  <2>5. 0 \in T
    BY <2>1, <2>4
  <2>6. ASSUME NEW i \in T PROVE i + 1 \in T
    <3> SUFFICES ASSUME i + 1 <= N PROVE Upto(pattern, end, i + 1) = to[i + 1]
      OBVIOUS
    <3> DEFINE j == i + 1
    <3>1. j \in 1 .. N /\ j - 1 = i /\ Upto(pattern, end, i) = to[i]
      BY <1>1
    <3> HIDE DEF j, T, N, M
    <3>2. CASE pattern[j] = "*"
      <4>1. Upto(pattern, end, j) = end[j] /\ j \in StarsOf(pattern)
        BY <1>1, <2>4, <3>1, <3>2
      <4>2. QED
        BY <2>3, <4>1 DEF j
    <3>3. CASE pattern[j] # "*"
      <4>1. Upto(pattern, end, j) = to[i] + 1
        BY <2>4, <3>1, <3>3
      <4>2. to[j] = to[i] + 1
        BY <2>1, <3>1, <3>3 DEF Moves
      <4>3. QED
        BY <4>1, <4>2 DEF j
    <3>4. QED
      BY <3>2, <3>3
  <2>7. T = Nat
    <3> HIDE DEF T
    <3>1. T \in SUBSET Nat
      BY DEF T
    <3>2. QED
      BY <2>5, <2>6, <3>1, Induction
  <2>8. \A i \in 0 .. N : Upto(pattern, end, i) = to[i]
    BY <1>1, <2>7
  <2> HIDE DEF T, N, M
  <2>9. ASSUME NEW i \in 1 .. N
        PROVE  IF i \in StarsOf(pattern) THEN Upto(pattern, end, i - 1) <= end[i]
               ELSE /\ Upto(pattern, end, i) <= M
                    /\ pattern[i] \in {"?", text[Upto(pattern, end, i)]}
    <3>1. i \in 0 .. N /\ i - 1 \in 0 .. N /\ to[i] \in 0 .. M
      BY <1>1, <2>1
    <3>2. Upto(pattern, end, i) = to[i] /\ Upto(pattern, end, i - 1) = to[i - 1]
      BY <2>8, <3>1
    <3>3. Moves(pattern, text, i, to[i - 1], to[i])
      BY <2>1
    <3>4. CASE pattern[i] = "*"
      BY <1>1, <2>3, <3>2, <3>3, <3>4 DEF Moves
    <3>5. CASE pattern[i] # "*"
      BY <1>1, <3>1, <3>2, <3>3, <3>5 DEF Moves
    <3>6. QED
      BY <3>4, <3>5
  <2>10. Upto(pattern, end, N) = M
    BY <1>1, <2>1, <2>8
  <2>11. QED
    BY <2>3, <2>9, <2>10
<1>4. ASSUME NEW end \in Ends, Good(end) PROVE \E to : Way(pattern, text, to, N, M)
  <2> DEFINE to == [i \in 0 .. N |-> Upto(pattern, end, i)]
  <2>1. /\ Upto(pattern, end, 0) = 0
        /\ \A i \in 0 .. N : Upto(pattern, end, i) \in Nat
        /\ \A i \in 1 .. N : Upto(pattern, end, i) = IF pattern[i] = "*" THEN end[i]
                                                     ELSE Upto(pattern, end, i - 1) + 1
    BY <1>1, UptoGoes
  <2>2. ASSUME NEW i \in 0 .. N PROVE Upto(pattern, end, i) \in 0 .. M
    <3>1. CASE i = 0
      BY <1>1, <2>1, <3>1
    <3>2. CASE i \in 1 .. N /\ pattern[i] = "*"
      <4>1. i \in StarsOf(pattern) /\ Upto(pattern, end, i) = end[i]
        BY <1>1, <2>1, <3>2
      <4>2. QED
        BY <4>1
    <3>3. CASE i \in 1 .. N /\ pattern[i] # "*"
      <4>1. Upto(pattern, end, i) <= M /\ Upto(pattern, end, i) \in Nat
        BY <1>1, <1>4, <2>1, <3>3
      <4>2. QED
        BY <1>1, <4>1
    <3>4. QED
      BY <1>1, <3>1, <3>2, <3>3
  <2>3. to \in [0 .. N -> 0 .. M] /\ \A i \in 0 .. N : to[i] = Upto(pattern, end, i)
    BY <2>2
  <2>4. to[0] = 0 /\ to[N] = M
    BY <1>1, <1>4, <2>1, <2>3
  <2> HIDE DEF to
  <2>5. ASSUME NEW i \in 1 .. N PROVE Moves(pattern, text, i, to[i - 1], to[i])
    <3>1. i \in 0 .. N /\ i - 1 \in 0 .. N
      BY <1>1
    <3>2. to[i] = Upto(pattern, end, i) /\ to[i - 1] = Upto(pattern, end, i - 1)
      BY <2>3, <3>1
    <3>3. CASE pattern[i] = "*"
      <4>1. Upto(pattern, end, i - 1) <= end[i] /\ Upto(pattern, end, i) = end[i]
        BY <1>1, <1>4, <2>1, <3>3
      <4>2. QED
        BY <3>2, <3>3, <4>1 DEF Moves
    <3>4. CASE pattern[i] # "*"
      <4>1. pattern[i] \in {"?", text[Upto(pattern, end, i)]}
            /\ Upto(pattern, end, i) = Upto(pattern, end, i - 1) + 1
        BY <1>1, <1>4, <2>1, <3>4
      <4>2. QED
        BY <3>2, <3>4, <4>1 DEF Moves
    <3>5. QED
      BY <3>3, <3>4
  <2>6. Way(pattern, text, to, N, M)
    BY <2>3, <2>4, <2>5 DEF Way
  <2>7. QED
    BY <2>6
<1>5. QED
  BY <1>2, <1>3, <1>4, GlobIsWay

-----------------------------------------------------------------------------
(* An entry does to a URL what it means.                                     *)
LEMMA PrefixIs ==
    ASSUME NEW text \in Texts, NEW c \in Chars, NEW d \in Chars
    PROVE  /\ IsPrefix(<<c>>, text) <=> Len(text) >= 1 /\ text[1] = c
           /\ IsPrefix(<<c, d>>, text) <=> Len(text) >= 2 /\ text[1] = c /\ text[2] = d
<1> DEFINE n == Len(text)
<1>1. n \in Nat /\ DOMAIN text = 1 .. n
  BY LenProperties DEF Texts
<1> HIDE DEF n
<1>2. /\ Len(<<c>>) = 1 /\ <<c>> \in Seq(Chars) /\ <<c>>[1] = c
      /\ Len(<<c, d>>) = 2 /\ <<c, d>> \in Seq(Chars) /\ <<c, d>>[1] = c /\ <<c, d>>[2] = d
  OBVIOUS
<1>3. ASSUME n >= 1 PROVE SubSeq(<<c>>, 1, 1) = SubSeq(text, 1, 1) <=> text[1] = c
  <2>1. SubSeq(<<c>>, 1, 1) = SubSeq(text, 1, 1) <=> \A i \in 1 .. 1 : <<c>>[i] = text[i]
    BY <1>1, <1>2, <1>3, FirstsEqual DEF Texts, n
  <2>2. QED
    BY <1>2, <2>1
<1>4. ASSUME n >= 2
      PROVE  SubSeq(<<c, d>>, 1, 2) = SubSeq(text, 1, 2) <=> text[1] = c /\ text[2] = d
  <2>1. SubSeq(<<c, d>>, 1, 2) = SubSeq(text, 1, 2) <=> \A i \in 1 .. 2 : <<c, d>>[i] = text[i]
    BY <1>1, <1>2, <1>4, FirstsEqual DEF Texts, n
  <2>2. \A i : i \in 1 .. 2 <=> i = 1 \/ i = 2
    OBVIOUS
  <2>3. QED
    BY <1>2, <2>1, <2>2
<1>5. IsPrefix(<<c>>, text) <=> 1 <= n /\ SubSeq(<<c>>, 1, 1) = SubSeq(text, 1, 1)
  BY <1>2 DEF IsPrefix, n
<1>6. IsPrefix(<<c, d>>, text) <=> 2 <= n /\ SubSeq(<<c, d>>, 1, 2) = SubSeq(text, 1, 2)
  BY <1>2 DEF IsPrefix, n
<1>7. QED
  BY <1>1, <1>3, <1>4, <1>5, <1>6 DEF n

(* A text that is not empty is a character before a text.                    *)
LEMMA FirstAndRest ==
    ASSUME NEW text \in Texts, text # << >>
    PROVE  /\ text[1] \in Chars /\ SubSeq(text, 2, Len(text)) \in Texts
           /\ text = <<text[1]>> \o SubSeq(text, 2, Len(text))
           /\ Len(text) >= 1 /\ Len(SubSeq(text, 2, Len(text))) = Len(text) - 1
           /\ \A i \in 1 .. Len(text) - 1 : SubSeq(text, 2, Len(text))[i] = text[i + 1]
<1> DEFINE n == Len(text)
           r == SubSeq(text, 2, n)
<1>1. n \in Nat /\ n # 0 /\ \A i \in 1 .. n : text[i] \in Chars
  BY EmptySeq, LenProperties, ElementOfSeq DEF Texts
<1>2. 1 \in 1 .. n /\ n \in 1 .. n /\ 2 \in Int /\ n \in Int /\ \A i \in 2 .. n : text[i] \in Chars
  BY <1>1
<1>3. /\ r \in Seq(Chars) /\ Len(r) = IF 2 <= n THEN (n - 2) + 1 ELSE 0
      /\ \A i \in 1 .. (n - 2) + 1 : r[i] = text[(2 + i) - 1]
  BY <1>2, SubSeqProperties
<1>4. SubSeq(text, 1, n) = <<text[1]>> \o SubSeq(text, 1 + 1, n)
  BY <1>2, SubSeqRecursiveFirst DEF Texts
<1>5. SubSeq(text, 1, n) = text
  BY SubSeqFull DEF Texts
<1>6. text = <<text[1]>> \o r
  BY <1>4, <1>5
<1> HIDE DEF r, n
<1>7. Len(r) = n - 1 /\ \A i \in 1 .. n - 1 : r[i] = text[i + 1]
  <2>1. (n - 2) + 1 = n - 1 /\ \A i \in 1 .. n - 1 : (2 + i) - 1 = i + 1
    BY <1>1
  <2>2. QED
    BY <1>1, <1>3, <2>1
<1>8. QED
  BY <1>1, <1>2, <1>3, <1>6, <1>7 DEF r, n, Texts

(* What an entry's text makes of its labels.                                 *)
LEMMA PrefixedWild ==
    ASSUME NEW text \in Texts, text # << >>
    PROVE  Wild(text) <=> text[1] \in {"*", "?"} \/ Wild(SubSeq(text, 2, Len(text)))
<1> DEFINE n == Len(text)
           r == SubSeq(text, 2, n)
<1>1. /\ n \in Nat /\ n >= 1 /\ Len(r) = n - 1 /\ r \in Texts
      /\ \A i \in 1 .. n - 1 : r[i] = text[i + 1]
  BY FirstAndRest, LenProperties DEF Texts
<1>2. DOMAIN text = 1 .. n /\ DOMAIN r = 1 .. n - 1
  BY <1>1, LenProperties DEF Texts
<1> HIDE DEF n, r
<1>3. \A t : Wild(t) <=> \E i \in DOMAIN t : t[i] \in {"*", "?"}
  BY DEF Wild, Range
<1>4. /\ 1 \in 1 .. n /\ \A i \in 1 .. n - 1 : i + 1 \in 1 .. n
      /\ \A i \in 1 .. n : i = 1 \/ (i - 1 \in 1 .. n - 1 /\ (i - 1) + 1 = i)
  BY <1>1
<1>5. Wild(text) <=> \E i \in 1 .. n : text[i] \in {"*", "?"}
  BY <1>2, <1>3
<1>6. Wild(r) <=> \E i \in 1 .. n - 1 : text[i + 1] \in {"*", "?"}
  BY <1>1, <1>2, <1>3
<1>7. ASSUME NEW i \in 1 .. n, text[i] \in {"*", "?"}, i # 1
      PROVE  \E j \in 1 .. n - 1 : text[j + 1] \in {"*", "?"}
  BY <1>4, <1>7
<1>8. QED
  BY <1>4, <1>5, <1>6, <1>7 DEF n, r

FirstLabel(text) == Labels(text)[1]
WildBehind(text) == \E i \in 2 .. Len(Labels(text)) : Wild(Labels(text)[i])

(* The labels behind the first are the tail of the labels.                   *)
LEMMA TailIsWild ==
    ASSUME NEW text \in Texts
    PROVE  /\ WildBehind(text) <=> AnyWild(Tail(Labels(text)))
           /\ FirstLabel(text) = Head(Labels(text))
           /\ Tail(Labels(text)) \in Seq(Texts)
<1> DEFINE a == Labels(text)
           n == Len(a)
<1>1. a \in Seq(Texts) /\ a # << >>
  BY LabelsOf DEF LabelLists
<1>2. /\ Tail(a) \in Seq(Texts) /\ Len(Tail(a)) = n - 1 /\ n \in Nat
      /\ \A i \in 1 .. Len(Tail(a)) : Tail(a)[i] = a[i + 1]
  BY <1>1, HeadTailProperties, LenProperties
<1>3. Head(a) = a[1]
  BY <1>1
<1> HIDE DEF a, n
<1>4. (\E i \in 2 .. n : Wild(a[i])) <=> \E i \in 1 .. n - 1 : Wild(a[i + 1])
  <2>1. ASSUME NEW i \in 2 .. n, Wild(a[i]) PROVE \E j \in 1 .. n - 1 : Wild(a[j + 1])
    <3> DEFINE j == i - 1
    <3>1. j \in 1 .. n - 1 /\ j + 1 = i
      BY <1>2
    <3> HIDE DEF j
    <3>2. QED
      BY <2>1, <3>1
  <2>2. ASSUME NEW i \in 1 .. n - 1, Wild(a[i + 1]) PROVE \E j \in 2 .. n : Wild(a[j])
    <3>1. i + 1 \in 2 .. n
      BY <1>2
    <3>2. QED
      BY <2>2, <3>1
  <2>3. QED
    BY <2>1, <2>2
<1>5. AnyWild(Tail(a)) <=> \E i \in 1 .. n - 1 : Wild(a[i + 1])
  BY <1>2 DEF AnyWild
<1>6. QED
  BY <1>2, <1>3, <1>4, <1>5 DEF a, n, FirstLabel, WildBehind

(* The four ways a name is read: a star and a dot before a plain domain, a   *)
(* glob, a dot before a domain, and a plain name.                            *)
LEMMA StarDotLabels ==
    ASSUME NEW text \in Texts, IsPrefix(<<"*", ".">>, text)
    PROVE  LET suffix == SubSeq(text, 3, Len(text))
           IN /\ suffix \in Texts /\ FirstLabel(text) = <<"*">> /\ Tail(Labels(text)) = Labels(suffix)
              /\ WildBehind(text) <=> Wild(suffix)
              /\ Wild(text)
<1> DEFINE n == Len(text)
           r == SubSeq(text, 2, n)
           suffix == SubSeq(text, 3, n)
           q == SubSeq(r, 2, Len(r))
<1>1. n \in Nat /\ n >= 2 /\ text[1] = "*" /\ text[2] = "."
  <2>1. "*" \in Chars /\ "." \in Chars
    BY CharsAssumption
  <2>2. IsPrefix(<<"*", ".">>, text) <=> n >= 2 /\ text[1] = "*" /\ text[2] = "."
    BY <2>1, PrefixIs
  <2>3. QED
    BY <2>2, LenProperties DEF Texts
<1>2. text # << >>
  BY <1>1, EmptySeq
<1>3. /\ r \in Texts /\ text = <<"*">> \o r /\ Len(r) = n - 1
      /\ \A i \in 1 .. n - 1 : r[i] = text[i + 1]
  BY <1>1, <1>2, FirstAndRest
<1>4. r # << >> /\ r[1] = "."
  <2> HIDE DEF n, r
  <2>1. 1 \in 1 .. n - 1 /\ 1 + 1 = 2 /\ n - 1 # 0
    BY <1>1
  <2>2. QED
    BY <1>1, <1>3, <2>1, EmptySeq
<1>5. q \in Texts /\ r = <<".">> \o q
  BY <1>3, <1>4, FirstAndRest
<1>6. q = suffix
  <2>1. Len(q) = (n - 1) - 1 /\ \A i \in 1 .. (n - 1) - 1 : q[i] = r[i + 1]
    BY <1>3, <1>4, FirstAndRest
  <2>2. (\A i \in 3 .. n : text[i] \in Chars) /\ 3 \in Int /\ n \in Int
    BY <1>1, ElementOfSeq DEF Texts
  <2>3. /\ suffix \in Seq(Chars) /\ Len(suffix) = IF 3 <= n THEN (n - 3) + 1 ELSE 0
        /\ \A i \in 1 .. (n - 3) + 1 : suffix[i] = text[(3 + i) - 1]
    BY <2>2, SubSeqProperties
  <2> HIDE DEF n, r, suffix, q
  <2>4. Len(suffix) = Len(q)
    BY <1>1, <2>1, <2>3
  <2>5. ASSUME NEW i \in 1 .. Len(q) PROVE q[i] = suffix[i]
    <3>1. i \in 1 .. (n - 1) - 1 /\ i + 1 \in 1 .. n - 1 /\ i \in 1 .. (n - 3) + 1
          /\ (i + 1) + 1 = (3 + i) - 1
      BY <1>1, <2>1
    <3>2. q[i] = text[(i + 1) + 1] /\ suffix[i] = text[(3 + i) - 1]
      BY <1>3, <2>1, <2>3, <3>1
    <3>3. QED
      BY <3>1, <3>2
  <2>6. QED
    BY <1>5, <2>3, <2>4, <2>5, SeqEqual DEF Texts
<1>7. "*" \in Chars /\ "." \in Chars /\ "*" # "."
  BY CharsAssumption
<1> HIDE DEF n, r, suffix, q
<1>8. Head(Labels(r)) = << >> /\ Tail(Labels(r)) = Labels(q)
  BY <1>5, <1>7, LabelsOfPrefixed
<1>9. Head(Labels(text)) = <<"*">> \o << >> /\ Tail(Labels(text)) = Labels(q)
  <2> DEFINE star == "*"
  <2>1. star \in Chars /\ star # "." /\ text = <<star>> \o r
    BY <1>3, <1>7
  <2> HIDE DEF star
  <2>2. Head(Labels(text)) = <<star>> \o Head(Labels(r)) /\ Tail(Labels(text)) = Tail(Labels(r))
    BY <1>3, <2>1, LabelsOfPrefixed
  <2>3. QED
    BY <1>8, <2>2 DEF star
<1>10. <<"*">> \o << >> = <<"*">>
  OBVIOUS
<1>11. WildBehind(text) <=> Wild(q)
  BY <1>5, <1>9, TailIsWild, WildAndDots
<1>12. Wild(text)
  BY <1>1, <1>2, PrefixedWild
<1>13. QED
  BY <1>5, <1>6, <1>9, <1>10, <1>11, <1>12, TailIsWild DEF suffix, n

(* The first label of a name with no star and dot in front: nothing when a   *)
(* dot is there.                                                             *)
LEMMA OtherLabels ==
    ASSUME NEW text \in Texts, text # << >>, ~IsPrefix(<<"*", ".">>, text)
    PROVE  LET suffix == SubSeq(text, 2, Len(text))
           IN /\ text[1] = "." =>
                   /\ suffix \in Texts /\ FirstLabel(text) = << >>
                   /\ Tail(Labels(text)) = Labels(suffix)
                   /\ WildBehind(text) <=> Wild(text)
              /\ text[1] # "." =>
                   /\ FirstLabel(text) # << >>
                   /\ FirstLabel(text) = <<"*">> => text = <<"*">>
<1> DEFINE n == Len(text)
           c == text[1]
           r == SubSeq(text, 2, n)
<1>1. /\ n \in Nat /\ n >= 1 /\ c \in Chars /\ r \in Texts /\ text = <<c>> \o r /\ Len(r) = n - 1
      /\ \A i \in 1 .. n - 1 : r[i] = text[i + 1]
  BY FirstAndRest, LenProperties DEF Texts
<1>2. FirstLabel(text) = Head(Labels(text)) /\ (WildBehind(text) <=> AnyWild(Tail(Labels(text))))
  BY TailIsWild
<1>3. CASE c = "."
  <2>1. Head(Labels(text)) = << >> /\ Tail(Labels(text)) = Labels(r)
    <3> HIDE DEF c, r
    <3>1. QED
      BY <1>1, <1>3, LabelsOfPrefixed
  <2>2. Wild(text) <=> Wild(r)
    BY <1>3, PrefixedWild
  <2>3. AnyWild(Labels(r)) <=> Wild(r)
    BY <1>1, WildAndDots
  <2>4. QED
    BY <1>1, <1>2, <1>3, <2>1, <2>2, <2>3
<1>4. CASE c # "."
  <2> DEFINE h == Head(Labels(r))
  <2>1. Head(Labels(text)) = <<c>> \o h
    <3> HIDE DEF c, r
    <3>1. QED
      BY <1>1, <1>4, LabelsOfPrefixed
  <2>2. h \in Texts /\ <<c>> \in Texts
    <3>1. Labels(r) \in Seq(Texts) /\ Labels(r) # << >>
      BY <1>1, LabelsOf DEF LabelLists
    <3>2. QED
      BY <1>1, <3>1, HeadTailProperties DEF Texts
  <2>3. Len(<<c>> \o h) = 1 + Len(h) /\ Len(h) \in Nat /\ (<<c>> \o h)[1] = c
    <3> HIDE DEF c, h
    <3>1. Len(<<c>>) = 1 /\ <<c>>[1] = c /\ Len(h) \in Nat
      BY <2>2, LenProperties DEF Texts
    <3>2. Len(<<c>> \o h) = Len(<<c>>) + Len(h)
          /\ \A i \in 1 .. Len(<<c>>) + Len(h) :
               (<<c>> \o h)[i] = IF i <= Len(<<c>>) THEN <<c>>[i] ELSE h[i - Len(<<c>>)]
      BY <2>2, ConcatProperties DEF Texts
    <3>3. QED
      BY <3>1, <3>2
  <2>4. <<c>> \o h # << >>
    BY <2>3
  <2>5. ASSUME <<c>> \o h = <<"*">> PROVE text = <<"*">>
    <3>1. c = "*" /\ Len(h) = 0
      <4>1. Len(<<"*">>) = 1 /\ <<"*">>[1] = "*"
        OBVIOUS
      <4>2. Len(<<c>> \o h) = 1 /\ (<<c>> \o h)[1] = "*"
        BY <2>5, <4>1
      <4> HIDE DEF c, h
      <4>3. QED
        BY <2>3, <4>2
    <3>2. h = << >>
      BY <2>2, <3>1, EmptySeq DEF Texts
    <3>3. CASE r = << >>
      <4>1. text = <<"*">> \o << >>
        BY <1>1, <3>1, <3>3
      <4>2. QED
        BY <4>1
    <3>4. CASE r # << >>
      <4> DEFINE d == r[1]
                 q == SubSeq(r, 2, Len(r))
      <4>1. d \in Chars /\ q \in Texts /\ r = <<d>> \o q /\ Len(r) >= 1
        BY <1>1, <3>4, FirstAndRest
      <4>2. CASE d = "."
        <5>1. n >= 2 /\ text[2] = "."
          <6> HIDE DEF n, r
          <6>1. 1 \in 1 .. n - 1 /\ n >= 2 /\ 1 + 1 = 2
            BY <1>1, <4>1
          <6>2. r[1] = text[1 + 1]
            BY <1>1, <6>1
          <6>3. QED
            BY <4>2, <6>1, <6>2
        <5>2. IsPrefix(<<"*", ".">>, text)
          <6>1. "*" \in Chars /\ "." \in Chars
            BY CharsAssumption
          <6>2. IsPrefix(<<"*", ".">>, text) <=> n >= 2 /\ text[1] = "*" /\ text[2] = "."
            BY <6>1, PrefixIs
          <6>3. QED
            BY <3>1, <5>1, <6>2
        <5>3. QED
          BY <5>2
      <4>3. CASE d # "."
        <5>1. h = <<d>> \o Head(Labels(q))
          <6> HIDE DEF d, q, r
          <6>1. QED
            BY <4>1, <4>3, LabelsOfPrefixed
        <5>2. Head(Labels(q)) \in Texts /\ <<d>> \in Texts /\ <<d>> # << >>
          <6>1. Labels(q) \in Seq(Texts) /\ Labels(q) # << >>
            BY <4>1, LabelsOf DEF LabelLists
          <6>2. QED
            BY <4>1, <6>1, HeadTailProperties DEF Texts
        <5> HIDE DEF d, q, h
        <5>3. h # << >>
          BY <5>1, <5>2, ConcatEqualIffEmpty DEF Texts
        <5>4. QED
          BY <3>2, <5>3
      <4>4. QED
        BY <4>2, <4>3
    <3>5. QED
      BY <3>3, <3>4
  <2>6. QED
    BY <1>2, <1>4, <2>1, <2>4, <2>5
<1>5. QED
  BY <1>3, <1>4

-----------------------------------------------------------------------------
(* A rule and what it does; an entry and what it means.                      *)
Rule(rule, text, entry) ==
    [rule |-> rule, text |-> text, address |-> entry.address, bits |-> entry.bits,
     port |-> entry.port]
ReadAs(entry, dialect, u) ==
    \E r \in {ParseEntry(entry, dialect)} \ {NoRule} : Applies(r, Target(u))

(* What the rules for addresses and for sets of hosts do.                    *)
LEMMA RuleApplies ==
    ASSUME NEW rule, NEW text, NEW entry, NEW t
    PROVE  LET r == Rule(rule, text, entry)
           IN /\ rule # "none" => r # NoRule
              /\ rule = "everything" => Applies(r, t)
              /\ rule = "local" => (Applies(r, t) <=> "." \notin Range(t.host.text) /\ t.host.address = << >>)
              /\ rule = "subnet" => (Applies(r, t) <=> t.host.resolves \in {"link", "subnet"})
              /\ rule = "network" => (Applies(r, t) <=> InNetwork(r, t.host.address))
<1> DEFINE r == Rule(rule, text, entry)
<1>1. r.rule = rule
  BY DEF Rule
<1>2. rule # "none" => r # NoRule
  <2>1. NoRule.rule = "none"
    BY DEF NoRule
  <2> HIDE DEF r
  <2>2. QED
    BY <1>1, <2>1
<1> HIDE DEF r
<1>3. rule = "everything" => Applies(r, t)
  BY <1>1 DEF Applies
<1>4. rule = "local" => (Applies(r, t) <=> "." \notin Range(t.host.text) /\ t.host.address = << >>)
  BY <1>1 DEF Applies
<1>5. rule = "subnet" => (Applies(r, t) <=> t.host.resolves \in {"link", "subnet"})
  BY <1>1 DEF Applies
<1>6. rule = "network" => (Applies(r, t) <=> InNetwork(r, t.host.address))
  BY <1>1 DEF Applies
<1>7. QED
  BY <1>2, <1>3, <1>4, <1>5, <1>6 DEF r

(* What the rules for one name, one address or a domain do.                  *)
LEMMA NamedRuleApplies ==
    ASSUME NEW text, NEW entry, NEW t
    PROVE  /\ Applies(Rule("suffix", text, entry), t)
                <=> Suffix(text, t.host.text) /\ (entry.port = 0 \/ entry.port = t.port)
           /\ Applies(Rule("glob", text, entry), t)
                <=> Glob(text, t.host.text) /\ (entry.port = 0 \/ entry.port = t.port)
           /\ Applies(Rule("exact", text, entry), t)
                <=> text = t.host.text /\ (entry.port = 0 \/ entry.port = t.port)
           /\ Applies(Rule("address", text, entry), t)
                <=> t.host.address = entry.address /\ (entry.port = 0 \/ entry.port = t.port)
<1>1. ASSUME NEW rule PROVE LET r == Rule(rule, text, entry)
                            IN /\ r.rule = rule /\ r.text = text
                               /\ r.address = entry.address /\ r.port = entry.port
  BY DEF Rule
<1>2. \A r : PortOk(r.port, t) <=> r.port = 0 \/ r.port = t.port
  BY DEF PortOk
<1>3. \A r : r.rule = "suffix" => (Applies(r, t) <=> Suffix(r.text, t.host.text) /\ PortOk(r.port, t))
  BY DEF Applies
<1>4. \A r : r.rule = "glob" => (Applies(r, t) <=> Glob(r.text, t.host.text) /\ PortOk(r.port, t))
  BY DEF Applies
<1>5. \A r : r.rule = "exact" => (Applies(r, t) <=> r.text = t.host.text /\ PortOk(r.port, t))
  BY DEF Applies
<1>6. \A r : r.rule = "address" => (Applies(r, t) <=> t.host.address = r.address /\ PortOk(r.port, t))
  BY DEF Applies
<1>7. Applies(Rule("suffix", text, entry), t)
        <=> Suffix(text, t.host.text) /\ (entry.port = 0 \/ entry.port = t.port)
  <2> DEFINE r == Rule("suffix", text, entry)
  <2>1. /\ r.rule = "suffix" /\ r.text = text
        /\ r.address = entry.address /\ r.port = entry.port
    BY <1>1
  <2> HIDE DEF r
  <2>2. Applies(r, t) <=> Suffix(r.text, t.host.text) /\ PortOk(r.port, t)
    BY <1>3, <2>1
  <2>3. QED
    BY <1>2, <2>1, <2>2 DEF r
<1>8. Applies(Rule("glob", text, entry), t)
        <=> Glob(text, t.host.text) /\ (entry.port = 0 \/ entry.port = t.port)
  <2> DEFINE r == Rule("glob", text, entry)
  <2>1. /\ r.rule = "glob" /\ r.text = text
        /\ r.address = entry.address /\ r.port = entry.port
    BY <1>1
  <2> HIDE DEF r
  <2>2. Applies(r, t) <=> Glob(r.text, t.host.text) /\ PortOk(r.port, t)
    BY <1>4, <2>1
  <2>3. QED
    BY <1>2, <2>1, <2>2 DEF r
<1>9. Applies(Rule("exact", text, entry), t)
        <=> text = t.host.text /\ (entry.port = 0 \/ entry.port = t.port)
  <2> DEFINE r == Rule("exact", text, entry)
  <2>1. /\ r.rule = "exact" /\ r.text = text
        /\ r.address = entry.address /\ r.port = entry.port
    BY <1>1
  <2> HIDE DEF r
  <2>2. Applies(r, t) <=> r.text = t.host.text /\ PortOk(r.port, t)
    BY <1>5, <2>1
  <2>3. QED
    BY <1>2, <2>1, <2>2 DEF r
<1>10. Applies(Rule("address", text, entry), t)
        <=> t.host.address = entry.address /\ (entry.port = 0 \/ entry.port = t.port)
  <2> DEFINE r == Rule("address", text, entry)
  <2>1. /\ r.rule = "address" /\ r.text = text
        /\ r.address = entry.address /\ r.port = entry.port
    BY <1>1
  <2> HIDE DEF r
  <2>2. Applies(r, t) <=> t.host.address = r.address /\ PortOk(r.port, t)
    BY <1>6, <2>1
  <2>3. QED
    BY <1>2, <2>1, <2>2 DEF r
<1>11. QED
  BY <1>7, <1>8, <1>9, <1>10

(* An entry read as a rule does what the rule does.                          *)
LEMMA ReadAsRule ==
    ASSUME NEW entry, NEW dialect, NEW u, NEW rule, NEW text, rule # "none",
           ParseEntry(entry, dialect) = Rule(rule, text, entry)
    PROVE  ReadAs(entry, dialect, u) <=> Applies(Rule(rule, text, entry), Target(u))
<1>1. Rule(rule, text, entry) # NoRule
  BY RuleApplies
<1>2. QED
  BY <1>1 DEF ReadAs

(* Targets keep their host; ports are compared as the entry's meaning does.  *)
LEMMA TargetIs ==
    ASSUME NEW u, NEW port
    PROVE  /\ Target(u).host = u.host
           /\ port \in {0, Target(u).port} <=> port = 0 \/ port = Target(u).port
BY DEF Target

(* A name, a domain or a glob: _parse_entry's rule goes by the text, the     *)
(* entry's meaning by its labels.                                            *)
LEMMA NameIsRead ==
    ASSUME NEW entry \in Entries, entry.form = "name", NEW dialect, NEW u, u.host.text \in Texts
    PROVE  ReadAs(entry, dialect, u) <=> Means(entry, dialect, u)
<1> DEFINE text == entry.text
           h == u.host.text
           suffix == SubSeq(text, 3, Len(text))
           behind == SubSeq(text, 2, Len(text))
           fits == entry.port = 0 \/ entry.port = Target(u).port
           starDot == IsPrefix(<<"*", ".">>, text)
           under(d) == IsSuffix(d, Labels(h))
<1>1. text \in Texts /\ text # << >> /\ ~IsPrefix(<<".", ".">>, text)
  BY DEF Entries, Texts
<1>2. /\ entry.form \notin {"everything", "local", "subnet", "network", "bad", "address"}
      /\ Target(u).host.text = h
  BY TargetIs
<1>3. ParseEntry(entry, dialect) =
        IF starDot /\ ~Wild(suffix) THEN Rule("suffix", suffix, entry)
        ELSE IF Wild(text) THEN Rule("glob", text, entry)
        ELSE IF IsPrefix(<<".">>, text) THEN Rule("suffix", Undotted(text), entry)
        ELSE Rule(IF dialect \in {"no_proxy", "kde"} THEN "suffix" ELSE "exact", text, entry)
  BY <1>2 DEF ParseEntry, Rule
<1>4. Means(entry, dialect, u) <=>
        /\ fits
        /\ IF FirstLabel(text) \in {<< >>, <<"*">>} /\ ~WildBehind(text) THEN under(Tail(Labels(text)))
           ELSE IF Wild(text) THEN Fits(text, h)
           ELSE IF dialect \in {"no_proxy", "kde"} THEN under(Labels(text))
           ELSE text = h
  <2>1. entry.port \in {0, Target(u).port} <=> fits
    BY TargetIs
  <2>2. QED
    BY <1>2, <2>1 DEF Means, FirstLabel, WildBehind
<1>5. ASSUME NEW d, ParseEntry(entry, dialect) = Rule("suffix", d, entry)
      PROVE  ReadAs(entry, dialect, u) <=> Suffix(d, h) /\ fits
  <2>1. ReadAs(entry, dialect, u) <=> Applies(Rule("suffix", d, entry), Target(u))
    BY <1>5, ReadAsRule
  <2>2. Applies(Rule("suffix", d, entry), Target(u)) <=> Suffix(d, Target(u).host.text) /\ fits
    BY NamedRuleApplies
  <2>3. QED
    BY <1>2, <2>1, <2>2
<1>6. ASSUME ParseEntry(entry, dialect) = Rule("glob", text, entry)
      PROVE  ReadAs(entry, dialect, u) <=> Fits(text, h) /\ fits
  <2>1. ReadAs(entry, dialect, u) <=> Glob(text, h) /\ fits
    <3>1. ReadAs(entry, dialect, u) <=> Applies(Rule("glob", text, entry), Target(u))
      BY <1>6, ReadAsRule
    <3>2. Applies(Rule("glob", text, entry), Target(u)) <=> Glob(text, Target(u).host.text) /\ fits
      BY NamedRuleApplies
    <3>3. QED
      BY <1>2, <3>1, <3>2
  <2>2. QED
    BY <1>1, <2>1, GlobFits
<1>7. ASSUME ParseEntry(entry, dialect) = Rule("exact", text, entry)
      PROVE  ReadAs(entry, dialect, u) <=> text = h /\ fits
  <2>1. ReadAs(entry, dialect, u) <=> Applies(Rule("exact", text, entry), Target(u))
    BY <1>7, ReadAsRule
  <2>2. Applies(Rule("exact", text, entry), Target(u)) <=> text = Target(u).host.text /\ fits
    BY NamedRuleApplies
  <2>3. QED
    BY <1>2, <2>1, <2>2
<1>8. \A d \in Texts : under(Labels(d)) <=> Suffix(d, h)
  BY SuffixIsByLabel
<1> HIDE DEF text, h, suffix, behind, fits, starDot, under
<1>9. CASE starDot
  <2>1. /\ suffix \in Texts /\ FirstLabel(text) = <<"*">> /\ Tail(Labels(text)) = Labels(suffix)
        /\ WildBehind(text) <=> Wild(suffix)
        /\ Wild(text)
    BY <1>1, <1>9, StarDotLabels DEF suffix, starDot
  <2>2. CASE Wild(suffix)
    BY <1>3, <1>4, <1>6, <2>1, <2>2
  <2>3. CASE ~Wild(suffix)
    <3>1. ReadAs(entry, dialect, u) <=> Suffix(suffix, h) /\ fits
      BY <1>3, <1>5, <1>9, <2>3
    <3>2. Means(entry, dialect, u) <=> fits /\ under(Labels(suffix))
      BY <1>4, <2>1, <2>3
    <3>3. QED
      BY <1>8, <2>1, <3>1, <3>2
  <2>4. QED
    BY <2>2, <2>3
<1>10. CASE ~starDot /\ text[1] = "."
  <2>1. /\ behind \in Texts /\ FirstLabel(text) = << >> /\ Tail(Labels(text)) = Labels(behind)
        /\ WildBehind(text) <=> Wild(text)
    BY <1>1, <1>10, OtherLabels DEF behind, starDot
  <2>2. CASE Wild(text)
    BY <1>3, <1>4, <1>6, <1>10, <2>1, <2>2
  <2>3. CASE ~Wild(text)
    <3> DEFINE n == Len(text)
    <3>1. n \in Nat /\ n >= 1 /\ DOMAIN text = 1 .. n /\ (n >= 2 => text[2] # ".")
      <4>1. n >= 1 /\ n \in Nat /\ DOMAIN text = 1 .. n
        BY <1>1, FirstAndRest, LenProperties DEF Texts
      <4>2. IsPrefix(<<".", ".">>, text) <=> n >= 2 /\ text[1] = "." /\ text[2] = "."
        BY <1>1, CharsAssumption, PrefixIs
      <4>3. QED
        BY <1>1, <1>10, <4>1, <4>2
    <3>2. IsPrefix(<<".">>, text)
      <4>1. IsPrefix(<<".">>, text) <=> n >= 1 /\ text[1] = "."
        BY <1>1, CharsAssumption, PrefixIs
      <4>2. QED
        BY <1>10, <3>1, <4>1
    <3> DEFINE dots == {k \in 0 .. n : \A i \in 1 .. k : text[i] = "."}
    <3>3. Undotted(text) = SubSeq(text, Max(dots) + 1, n)
      BY DEF Undotted
    <3>4. Max(dots) = 1
      <4>1. 1 \in dots
        <5>1. 1 \in 0 .. n /\ \A i \in 1 .. 1 : i = 1
          BY <3>1
        <5>2. QED
          BY <1>10, <5>1
      <4>2. ASSUME NEW k \in dots PROVE k <= 1
        <5>1. CASE k >= 2
          <6>1. 2 \in 1 .. k /\ n >= 2
            BY <3>1, <5>1
          <6>2. text[2] = "."
            BY <6>1
          <6>3. QED
            BY <3>1, <6>1, <6>2
        <5>2. QED
          BY <3>1, <5>1
      <4>3. dots \subseteq Int
        BY <3>1
      <4> HIDE DEF dots
      <4>4. QED
        BY <4>1, <4>2, <4>3, MaxIs
    <3>5. Undotted(text) = behind
      <4> HIDE DEF dots, n
      <4>1. Undotted(text) = SubSeq(text, 1 + 1, n)
        BY <3>3, <3>4
      <4>2. 1 + 1 = 2
        OBVIOUS
      <4>3. QED
        BY <4>1, <4>2 DEF behind, n
    <3>6. ReadAs(entry, dialect, u) <=> Suffix(behind, h) /\ fits
      BY <1>3, <1>5, <1>10, <2>3, <3>2, <3>5
    <3>7. Means(entry, dialect, u) <=> fits /\ under(Labels(behind))
      BY <1>4, <2>1, <2>3
    <3>8. QED
      BY <1>8, <2>1, <3>6, <3>7
  <2>4. QED
    BY <2>2, <2>3
<1>11. CASE ~starDot /\ text[1] # "."
  <2>1. /\ FirstLabel(text) # << >>
        /\ FirstLabel(text) = <<"*">> => text = <<"*">>
    BY <1>1, <1>11, OtherLabels DEF starDot
  <2>2. ~IsPrefix(<<".">>, text)
    BY <1>1, <1>11, CharsAssumption, PrefixIs
  <2>3. CASE FirstLabel(text) = <<"*">>
    <3>1. text = <<"*">>
      BY <2>1, <2>3
    <3>2. Wild(text)
      <4>1. 1 \in DOMAIN text /\ text[1] = "*"
        BY <3>1
      <4>2. QED
        BY <4>1 DEF Wild, Range
    <3>3. Fits(text, h)
      <4> DEFINE M == Len(h)
                 to == [i \in 0 .. 1 |-> IF i = 0 THEN 0 ELSE M]
      <4>1. M \in Nat /\ h \in Texts /\ Len(text) = 1 /\ text[1] = "*"
        BY <3>1, LenProperties DEF h, Texts
      <4> HIDE DEF M
      <4>2. to \in [0 .. 1 -> 0 .. M] /\ to[0] = 0 /\ to[1] = M
        BY <4>1
      <4> HIDE DEF to
      <4>3. \A i \in 1 .. 1 : i = 1 /\ i - 1 = 0
        OBVIOUS
      <4>4. \A i \in 1 .. 1 : Moves(text, h, i, to[i - 1], to[i])
        BY <4>1, <4>2, <4>3 DEF Moves
      <4>5. Way(text, h, to, Len(text), Len(h))
        BY <4>1, <4>2, <4>4 DEF Way, M
      <4>6. QED
        BY <1>1, <4>1, <4>5, GlobIsWay, GlobFits
    <3>4. ReadAs(entry, dialect, u) <=> fits
      BY <1>3, <1>6, <1>11, <3>2, <3>3
    <3>5. under(Tail(Labels(text)))
      <4>1. Tail(Labels(text)) = << >>
        <5> DEFINE star == "*"
        <5>1. star \in Chars /\ star # "." /\ text = Append(<< >>, star) /\ << >> \in Texts
          BY <3>1, CharsAssumption, EmptySeq DEF Texts
        <5> HIDE DEF star
        <5>2. Labels(text) = Longer(<< << >> >>, star) /\ << << >> >> \in LabelLists
          BY <5>1, LabelsOf
        <5>3. Tail(<< << >> >>) = << >>
          OBVIOUS
        <5>4. QED
          BY <5>1, <5>2, <5>3, LongerHeadTail
      <4>2. Labels(h) \in Seq(Texts)
        BY LabelsOf DEF h, LabelLists
      <4>3. QED
        BY <4>1, <4>2, SuffixOfNothing DEF under
    <3>6. Means(entry, dialect, u) <=> fits
      BY <1>4, <2>3, <3>2, <3>3, <3>5
    <3>7. QED
      BY <3>4, <3>6
  <2>4. CASE FirstLabel(text) # <<"*">>
    <3>1. Means(entry, dialect, u) <=>
            /\ fits
            /\ IF Wild(text) THEN Fits(text, h)
               ELSE IF dialect \in {"no_proxy", "kde"} THEN under(Labels(text))
               ELSE text = h
      BY <1>4, <2>1, <2>4
    <3>2. CASE Wild(text)
      BY <1>3, <1>6, <1>11, <3>1, <3>2
    <3>3. CASE ~Wild(text) /\ dialect \in {"no_proxy", "kde"}
      <4>1. ReadAs(entry, dialect, u) <=> Suffix(text, h) /\ fits
        BY <1>3, <1>5, <1>11, <2>2, <3>3
      <4>2. QED
        BY <1>1, <1>8, <3>1, <3>3, <4>1
    <3>4. CASE ~Wild(text) /\ dialect \notin {"no_proxy", "kde"}
      BY <1>3, <1>7, <1>11, <2>2, <3>1, <3>4
    <3>5. QED
      BY <3>2, <3>3, <3>4
  <2>5. QED
    BY <2>3, <2>4
<1>12. QED
  BY <1>9, <1>10, <1>11

(* An abbreviated address has zeros for the numbers it leaves out.           *)
LEMMA Abbreviated ==
    ASSUME NEW a \in Seq(Nat), Len(a) \in {1, 2, 3, 4, 8}
    PROVE  LET octets == a \o [i \in 1 .. 4 - Len(a) |-> 0]
               numbers == IF Len(a) > 4 THEN 8 ELSE 4
           IN /\ Len(octets) = numbers
              /\ \A i \in 1 .. numbers : octets[i] = IF i <= Len(a) THEN a[i] ELSE 0
<1> DEFINE m == Len(a)
           k == IF m = 8 THEN 0 ELSE 4 - m
           numbers == IF m > 4 THEN 8 ELSE 4
           zeros == [i \in 1 .. 4 - m |-> 0]
<1>1. m \in {1, 2, 3, 4, 8}
  OBVIOUS
<1>2. \A z \in Seq(Nat) : /\ Len(a \o z) = m + Len(z)
                          /\ \A i \in 1 .. m + Len(z) : (a \o z)[i] = IF i <= m THEN a[i] ELSE z[i - m]
  BY ConcatProperties
<1> HIDE DEF m
<1>3. k \in Nat /\ m + k = numbers
  BY <1>1
<1>4. 1 .. 4 - m = 1 .. k
  <2>1. CASE m = 8
    <3>1. 4 - m = -4 /\ k = 0
      BY <2>1
    <3>2. 1 .. -4 = 1 .. 0
      OBVIOUS
    <3>3. QED
      BY <3>1, <3>2
  <2>2. CASE m # 8
    BY <2>2
  <2>3. QED
    BY <2>1, <2>2
<1>5. zeros = [i \in 1 .. k |-> 0]
  BY <1>4
<1> HIDE DEF k, numbers, zeros
<1>6. zeros \in [1 .. k -> Nat] /\ \A i \in 1 .. k : zeros[i] = 0
  BY <1>5
<1>7. zeros \in Seq(Nat)
  BY <1>3, <1>6, SeqDef
<1>8. Len(zeros) = k
  <2>1. DOMAIN zeros = 1 .. k /\ DOMAIN zeros = 1 .. Len(zeros) /\ Len(zeros) \in Nat
    BY <1>6, <1>7, LenProperties
  <2>2. QED
    BY <1>3, <2>1
<1>9. /\ Len(a \o zeros) = numbers
      /\ \A i \in 1 .. numbers : (a \o zeros)[i] = IF i <= m THEN a[i] ELSE zeros[i - m]
  BY <1>2, <1>3, <1>7, <1>8
<1>10. ASSUME NEW i \in 1 .. numbers, ~(i <= m) PROVE zeros[i - m] = 0
  <2>1. numbers \in Nat /\ m \in Nat
    BY <1>1 DEF numbers
  <2>2. i - m \in 1 .. k
    BY <1>3, <1>10, <2>1
  <2>3. QED
    BY <1>6, <2>2
<1>11. QED
  BY <1>9, <1>10 DEF m, numbers, zeros

(* A network: as many first numbers as its prefix has, an abbreviated        *)
(* address's zeros among them.                                               *)
LEMMA NetworkIsRead ==
    ASSUME NEW entry \in Entries, entry.form = "network", NEW address \in Seq(Nat)
    PROVE  LET numbers == IF Len(entry.address) > 4 THEN 8 ELSE 4
               width == IF numbers = 8 THEN 16 ELSE 8
           IN InNetwork(Rule("network", entry.text, entry), address) <=>
                /\ Len(address) = numbers
                /\ \A i \in 1 .. numbers : i * width <= entry.bits =>
                     address[i] = IF i <= Len(entry.address) THEN entry.address[i] ELSE 0
<1> DEFINE a == entry.address
           bits == entry.bits
           m == Len(a)
           numbers == IF m > 4 THEN 8 ELSE 4
           width == IF numbers = 8 THEN 16 ELSE 8
           octets == a \o [i \in 1 .. 4 - m |-> 0]
           n == bits \div width
           r == Rule("network", entry.text, entry)
<1>1. /\ a \in Seq(Nat) /\ m \in {1, 2, 3, 4, 8} /\ bits \in Nat
      /\ bits <= IF m = 8 THEN 128 ELSE 32
  BY DEF Entries
<1>2. /\ Len(octets) = numbers
      /\ \A i \in 1 .. numbers : octets[i] = IF i <= m THEN a[i] ELSE 0
  BY <1>1, Abbreviated
<1>3. r.address = a /\ r.bits = bits
  BY DEF Rule
<1> HIDE DEF r
<1>4. InNetwork(r, address) <=>
        /\ Len(octets) = Len(address)
        /\ \A i \in 1 .. bits \div (IF Len(octets) = 8 THEN 16 ELSE 8) : octets[i] = address[i]
  BY <1>3 DEF InNetwork
<1> HIDE DEF octets, a, bits, m
<1>5. (IF Len(octets) = 8 THEN 16 ELSE 8) = width
  BY <1>2
<1>6. InNetwork(r, address) <=> Len(octets) = Len(address) /\ \A i \in 1 .. n : octets[i] = address[i]
  BY <1>4, <1>5
<1>7. /\ n \in Nat /\ n <= numbers
      /\ \A i \in 1 .. numbers : i * width <= bits <=> i \in 1 .. n
  <2>1. CASE m = 8
    <3>1. numbers = 8 /\ width = 16 /\ bits <= 128
      BY <1>1, <2>1
    <3>2. n = bits \div 16
      BY <3>1
    <3> HIDE DEF n
    <3>3. n \in Nat /\ n <= 8 /\ \A i \in Nat : i * 16 <= bits <=> i <= n
      BY <1>1, <3>1, <3>2
    <3>4. \A i \in 1 .. 8 : i * 16 <= bits <=> i \in 1 .. n
      BY <3>3
    <3> HIDE DEF numbers, width
    <3>5. QED
      BY <3>1, <3>3, <3>4
  <2>2. CASE m # 8
    <3>1. numbers = 4 /\ width = 8 /\ bits <= 32
      BY <1>1, <2>2
    <3>2. n = bits \div 8
      BY <3>1
    <3> HIDE DEF n
    <3>3. n \in Nat /\ n <= 4 /\ \A i \in Nat : i * 8 <= bits <=> i <= n
      BY <1>1, <3>1, <3>2
    <3>4. \A i \in 1 .. 4 : i * 8 <= bits <=> i \in 1 .. n
      BY <3>3
    <3> HIDE DEF numbers, width
    <3>5. QED
      BY <3>1, <3>3, <3>4
  <2>3. QED
    BY <2>1, <2>2
<1> HIDE DEF n, width
<1>8. (\A i \in 1 .. n : octets[i] = address[i])
        <=> \A i \in 1 .. numbers : i * width <= bits => address[i] = IF i <= m THEN a[i] ELSE 0
  <2>1. numbers \in Nat
    OBVIOUS
  <2> HIDE DEF numbers
  <2>2. \A i \in 1 .. n : i \in 1 .. numbers
    BY <1>7, <2>1
  <2>3. QED
    BY <1>2, <1>7, <2>2
<1>9. QED
  <2> HIDE DEF numbers
  <2>1. InNetwork(r, address) <=>
          /\ Len(address) = numbers
          /\ \A i \in 1 .. numbers : i * width <= bits => address[i] = IF i <= m THEN a[i] ELSE 0
    BY <1>2, <1>6, <1>8
  <2>2. QED
    BY <2>1 DEF r, numbers, width, m, a, bits

(* Every entry but <-loopback> does to a URL what it means.                  *)
LEMMA EntryIsRead ==
    ASSUME NEW entry \in Entries, entry.form # "-loopback", NEW dialect, NEW u,
           u.host.text \in Texts, u.host.address \in Seq(Nat)
    PROVE  ReadAs(entry, dialect, u) <=> Means(entry, dialect, u)
<1> DEFINE form == entry.form
           t == Target(u)
           text == entry.text
<1>1. form \in Forms /\ text \in Texts
  BY DEF Entries, Texts
<1>2. t.host = u.host /\ (entry.port \in {0, t.port} <=> entry.port = 0 \/ entry.port = t.port)
  BY TargetIs
<1>3. CASE form = "name"
  BY <1>3, NameIsRead
<1>4. CASE form = "bad"
  <2>1. ParseEntry(entry, dialect) = NoRule
    BY <1>4 DEF ParseEntry
  <2>2. ~ReadAs(entry, dialect, u)
    BY <2>1 DEF ReadAs
  <2>3. ~Means(entry, dialect, u)
    BY <1>4 DEF Means
  <2>4. QED
    BY <2>2, <2>3
<1>5. CASE form \in {"everything", "local", "subnet", "network"}
  <2>1. ParseEntry(entry, dialect) = Rule(form, text, entry) /\ form # "none"
    BY <1>5 DEF ParseEntry, Rule
  <2>2. ReadAs(entry, dialect, u) <=> Applies(Rule(form, text, entry), t)
    BY <2>1, ReadAsRule
  <2>3. CASE form = "everything"
    <3>1. Applies(Rule(form, text, entry), t)
      BY <2>3, RuleApplies
    <3>2. Means(entry, dialect, u)
      BY <2>3 DEF Means
    <3>3. QED
      BY <2>2, <3>1, <3>2
  <2>4. CASE form = "local"
    <3>1. Applies(Rule(form, text, entry), t)
            <=> "." \notin Range(t.host.text) /\ t.host.address = << >>
      BY <2>4, RuleApplies
    <3>2. Means(entry, dialect, u) <=> Len(Labels(u.host.text)) = 1 /\ u.host.address = << >>
      BY <2>4 DEF Means
    <3>3. QED
      BY <1>2, <2>2, <3>1, <3>2, WildAndDots
  <2>5. CASE form = "subnet"
    <3>1. Applies(Rule(form, text, entry), t) <=> t.host.resolves \in {"link", "subnet"}
      BY <2>5, RuleApplies
    <3>2. Means(entry, dialect, u) <=> u.host.resolves \in {"link", "subnet"}
      BY <2>5 DEF Means
    <3>3. QED
      BY <1>2, <2>2, <3>1, <3>2
  <2>6. CASE form = "network"
    <3>1. Applies(Rule(form, text, entry), t) <=> InNetwork(Rule(form, text, entry), t.host.address)
      BY <2>6, RuleApplies
    <3>2. InNetwork(Rule(form, text, entry), u.host.address) <=> Means(entry, dialect, u)
      BY <2>6, NetworkIsRead DEF Means
    <3>3. QED
      BY <1>2, <2>2, <3>1, <3>2
  <2>7. QED
    BY <1>5, <2>3, <2>4, <2>5, <2>6
<1>6. CASE form = "address"
  <2>1. ~IsPrefix(<<".">>, text) /\ ~Wild(text)
    BY <1>6 DEF Entries, Wild
  <2>2. ~IsPrefix(<<"*", ".">>, text)
    BY <1>1, <2>1, StarDotLabels
  <2>3. ParseEntry(entry, dialect) = Rule("address", text, entry)
    BY <1>6, <2>1, <2>2 DEF ParseEntry, Rule
  <2>4. ReadAs(entry, dialect, u) <=> Applies(Rule("address", text, entry), t)
    BY <2>3, ReadAsRule
  <2>5. Applies(Rule("address", text, entry), t)
          <=> t.host.address = entry.address /\ (entry.port = 0 \/ entry.port = t.port)
    BY NamedRuleApplies
  <2>6. Means(entry, dialect, u)
          <=> u.host.address = entry.address /\ entry.port \in {0, t.port}
    BY <1>6 DEF Means
  <2>7. QED
    BY <1>2, <2>4, <2>5, <2>6
<1>7. QED
  BY <1>1, <1>3, <1>4, <1>5, <1>6 DEF Forms

(* The rules BypassRules.parse makes of a list do to every URL what the      *)
(* list says, in every dialect, reversed or not: a domain is matched by      *)
(* labels although the code compares text, a glob by some choice of what     *)
(* its stars stand for, a network by its prefix (bypass.py).                 *)
THEOREM ListsMeanWhatTheySay ==
    ASSUME NEW list \in Seq(Entries), NEW dialect, NEW reversed \in BOOLEAN, NEW u,
           u.host.text \in Texts, u.host.address \in Seq(Nat)
    PROVE  Matches(Parse(list, dialect, reversed), u) <=> Listed(list, dialect, reversed, u)
<1> DEFINE n == Len(list)
           rules == Parse(list, dialect, reversed)
           counts(e) == ~(dialect = "no_proxy" /\ e.form = "everything" /\ n > 1)
           kept == {e \in Range(list) : /\ e.form # "-loopback"
                                        /\ e.form = "everything" => n = 1 \/ dialect # "no_proxy"}
           says == \E i \in DOMAIN list : counts(list[i]) /\ Means(list[i], dialect, u)
           apply == \E r \in {ParseEntry(e, dialect) : e \in kept} \ {NoRule} : Applies(r, Target(u))
<1>1. n \in Nat /\ DOMAIN list = 1 .. n /\ \A i \in 1 .. n : list[i] \in Entries
  BY LenProperties, ElementOfSeq
<1>2. \A e \in Entries : e.form = "-loopback" => ~Means(e, dialect, u)
  BY DEF Means
<1>3. apply <=> \E e \in kept : ReadAs(e, dialect, u)
  BY DEF ReadAs
<1>4. \A e : e \in kept <=> \E i \in 1 .. n : e = list[i] /\ e.form # "-loopback" /\ counts(e)
  <2>1. \A e : e \in Range(list) <=> \E i \in 1 .. n : e = list[i]
    BY <1>1 DEF Range
  <2>2. \A i \in 1 .. n : n > 1 \/ n = 1
    BY <1>1
  <2>3. 1 > 1 <=> FALSE
    OBVIOUS
  <2> HIDE DEF n
  <2>4. QED
    BY <2>1, <2>2, <2>3
<1>5. (\E e \in kept : ReadAs(e, dialect, u)) <=> says
  <2>1. ASSUME NEW i \in 1 .. n, list[i].form # "-loopback"
        PROVE  ReadAs(list[i], dialect, u) <=> Means(list[i], dialect, u)
    BY <1>1, <2>1, EntryIsRead
  <2> HIDE DEF counts, kept, n
  <2>2. QED
    BY <1>1, <1>2, <1>4, <2>1
<1>6. rules = [rules |-> {ParseEntry(e, dialect) : e \in kept} \ {NoRule},
               loopback |-> \A i \in DOMAIN list : list[i].form # "-loopback",
               reversed |-> reversed]
  BY DEF Parse
<1>7. Matches(rules, u) <=> /\ u.host # NoHost
                              /\ \/ (\A i \in DOMAIN list : list[i].form # "-loopback") /\ Loopback(u.host)
                                 \/ apply # reversed
  <2> HIDE DEF apply, kept, rules
  <2>1. QED
    BY <1>6 DEF Matches, apply
<1>8. Listed(list, dialect, reversed, u) <=>
        IF u.host = NoHost THEN FALSE
        ELSE IF Loopback(u.host) /\ \A i \in DOMAIN list : list[i].form # "-loopback" THEN TRUE
        ELSE IF reversed THEN ~says ELSE says
  BY DEF Listed
<1>9. apply <=> says
  BY <1>3, <1>5
<1>10. apply # reversed <=> IF reversed THEN ~says ELSE says
  <2>1. apply \in BOOLEAN /\ says \in BOOLEAN
    OBVIOUS
  <2> HIDE DEF apply, says
  <2>2. CASE reversed
    BY <1>9, <2>1, <2>2
  <2>3. CASE ~reversed
    BY <1>9, <2>1, <2>3
  <2>4. QED
    BY <2>2, <2>3
<1>11. QED
  <2> HIDE DEF apply, says, rules
  <2>1. QED
    BY <1>7, <1>8, <1>10 DEF rules

-----------------------------------------------------------------------------
(* A sequence at some of its places holds what the sequence has there.       *)
LEMMA PickedOf ==
    ASSUME NEW S, NEW s \in Seq(S), NEW places
    PROVE  /\ Picked(s, places) \in Seq(S)
           /\ \A k \in 1 .. Len(Picked(s, places)) :
                 \E i \in 1 .. Len(s) : i \in places /\ Picked(s, places)[k] = s[i]
<1> DEFINE N == Len(s)
           Body(f) == [n \in 0 .. N |->
                         IF n = 0 THEN << >>
                         ELSE IF n \in places THEN Append(f[n - 1], s[n]) ELSE f[n - 1]]
           Good(t) == t \in Seq(S) /\ \A k \in 1 .. Len(t) : \E i \in 1 .. N : i \in places /\ t[k] = s[i]
<1>1. N \in Nat /\ \A n \in 1 .. N : s[n] \in S
  BY LenProperties, ElementOfSeq
<1>2. \E f : f = Body(f)
  <2> DEFINE Step == [p \in Seq(S) \X (1 .. N) |->
                        IF p[2] \in places THEN Append(p[1], s[p[2]]) ELSE p[1]]
  <2>1. \A p \in Seq(S) \X (1 .. N) : Append(p[1], s[p[2]]) \in Seq(S)
    BY <1>1, AppendProperties
  <2>2. Step \in [Seq(S) \X (1 .. N) -> Seq(S)]
    BY <2>1
  <2>3. << >> \in Seq(S)
    BY EmptySeq
  <2>4. \A t \in Seq(S), n \in 1 .. N :
           Step[<<t, n>>] = IF n \in places THEN Append(t, s[n]) ELSE t
    OBVIOUS
  <2> HIDE DEF Step, N
  <2>5. Solutions(N, Seq(S), << >>, Step) # {}
    BY <1>1, <2>2, <2>3, Recursion
  <2> PICK f \in [0 .. N -> Seq(S)] :
           f[0] = << >> /\ \A n \in 1 .. N : f[n] = Step[<<f[n - 1], n>>]
    BY <2>5 DEF Solutions
  <2>6. \A n \in 1 .. N : f[n - 1] \in Seq(S)
    BY <1>1
  <2>7. \A n \in 0 .. N : n # 0 => n \in 1 .. N
    BY <1>1
  <2>8. f = Body(f)
    <3>1. ASSUME NEW n \in 0 .. N
          PROVE  f[n] = IF n = 0 THEN << >>
                        ELSE IF n \in places THEN Append(f[n - 1], s[n]) ELSE f[n - 1]
      <4>1. CASE n = 0
        BY <4>1
      <4>2. CASE n # 0
        <5>1. n \in 1 .. N
          BY <2>7, <4>2
        <5>2. f[n - 1] \in Seq(S) /\ f[n] = Step[<<f[n - 1], n>>]
          BY <2>6, <5>1
        <5>3. QED
          BY <2>4, <4>2, <5>1, <5>2
      <4>3. QED
        BY <4>1, <4>2
    <3>2. QED
      BY <3>1, Zenon
  <2>9. QED
    BY <2>8
<1> DEFINE f == CHOOSE g : g = Body(g)
<1>3. f = Body(f)
  BY <1>2, Zenon
<1>4. Picked(s, places) = f[N]
  BY DEF Picked
<1> DEFINE T == {n \in Nat : n <= N => Good(f[n])}
<1> HIDE DEF f, N
<1>5. 0 \in T
  BY <1>1, <1>3, EmptySeq
<1>6. ASSUME NEW n \in T PROVE n + 1 \in T
  <2> SUFFICES ASSUME n + 1 <= N PROVE Good(f[n + 1])
    OBVIOUS
  <2>1. n + 1 \in 1 .. N /\ (n + 1) - 1 = n /\ Good(f[n])
    BY <1>1
  <2>2. f[n + 1] = IF n + 1 \in places THEN Append(f[n], s[n + 1]) ELSE f[n]
    <3> DEFINE j == n + 1
    <3>1. j \in 0 .. N /\ j # 0 /\ j - 1 = n
      BY <1>1, <2>1
    <3> HIDE DEF j
    <3>2. f[j] = IF j = 0 THEN << >> ELSE IF j \in places THEN Append(f[j - 1], s[j]) ELSE f[j - 1]
      BY <1>3, <3>1, Zenon
    <3>3. f[j] = IF j \in places THEN Append(f[n], s[j]) ELSE f[n]
      BY <3>1, <3>2
    <3>4. QED
      BY <3>3 DEF j
  <2>3. CASE n + 1 \in places
    <3> DEFINE j == n + 1
               t == f[n]
    <3>1. t \in Seq(S) /\ s[j] \in S /\ f[j] = Append(t, s[j])
      BY <1>1, <2>1, <2>2, <2>3
    <3>2. Good(t) /\ j \in places /\ j \in 1 .. N
      BY <2>1, <2>3
    <3> HIDE DEF t, j
    <3>3. /\ Append(t, s[j]) \in Seq(S) /\ Len(Append(t, s[j])) = Len(t) + 1
          /\ \A k \in 1 .. Len(t) : Append(t, s[j])[k] = t[k]
          /\ Append(t, s[j])[Len(t) + 1] = s[j]
      BY <3>1, AppendProperties
    <3>4. \A k \in 1 .. Len(t) + 1 : k \in 1 .. Len(t) \/ k = Len(t) + 1
      BY <3>1, LenProperties
    <3>5. Good(f[j])
      BY <3>1, <3>2, <3>3, <3>4
    <3>6. QED
      BY <3>5 DEF j
  <2>4. QED
    BY <2>1, <2>2, <2>3
<1>7. T = Nat
  <2> HIDE DEF T
  <2>1. T \in SUBSET Nat
    BY DEF T
  <2>2. QED
    BY <1>5, <1>6, <2>1, Induction
<1>8. Good(f[N])
  BY <1>1, <1>7
<1>9. QED
  BY <1>4, <1>8 DEF N

-----------------------------------------------------------------------------
(* The environment.  Turn n of _read_env's two passes looks at Seen(env, n). *)
TypedEnv(env) == env \in Environs \cup LaterEnvirons
Seen(env, n) == env.vars[IF n <= Len(env.vars) THEN n ELSE n - Len(env.vars)]
Counts(env, n) ==
    LET v == Seen(env, n)
    IN v.lower = (n > Len(env.vars)) /\ (v.lower \/ ~(env.cgi /\ v.key = "http"))

(* Every turn sees a variable.                                               *)
LEMMA SeenAt ==
    ASSUME NEW env, Len(env.vars) \in Nat, NEW n \in 1 .. 2 * Len(env.vars)
    PROVE  \E i \in 1 .. Len(env.vars) : Seen(env, n) = env.vars[i]
<1> DEFINE L == Len(env.vars)
           i == IF n <= L THEN n ELSE n - L
<1>1. i \in 1 .. L
  <2> HIDE DEF L
  <2>1. QED
    BY DEF L
<1>2. QED
  BY <1>1 DEF Seen

(* The turns of the first m at which the key was read.                       *)
Turns(env, key, m) == {n \in 1 .. m : Counts(env, n) /\ Seen(env, n).key = key}
Latest(env, key, m, n) ==
    n \in Turns(env, key, m) /\ \A i \in Turns(env, key, m) : i <= n

(* What the variables read in the first m turns say.                         *)
SaysTheLatest(env, seen, m) ==
    /\ seen = [proxies |-> seen.proxies, noProxy |-> seen.noProxy]
    /\ \A e \in seen.proxies :
         /\ e = [key |-> e.key, proxy |-> e.proxy] /\ e.key # "no_proxy"
         /\ \E n \in 1 .. m : Latest(env, e.key, m, n) /\ e.proxy = Seen(env, n).value
    /\ IF Turns(env, "no_proxy", m) = {} THEN seen.noProxy = << >>
       ELSE \E n \in 1 .. m : Latest(env, "no_proxy", m, n) /\ seen.noProxy = Seen(env, n).value
    /\ \A n \in 1 .. m : Counts(env, n) /\ Seen(env, n).key # "no_proxy" =>
         HasKey(seen.proxies, Seen(env, n).key)

(* One turn.                                                                 *)
LEMMA TurnReads ==
    ASSUME NEW env, Len(env.vars) \in Nat, NEW m \in 1 .. 2 * Len(env.vars), NEW seen,
           SaysTheLatest(env, seen, m - 1),
           NEW next, next = IF Seen(env, m).lower = (m > Len(env.vars))
                              THEN Reads(seen, Seen(env, m), env.cgi) ELSE seen
    PROVE  SaysTheLatest(env, next, m)
<1> DEFINE v == Seen(env, m)
<1>1. m \in Nat /\ m - 1 \in Nat /\ m \in 1 .. m /\ (\A n \in 1 .. m : n \in 1 .. m - 1 \/ n = m)
      /\ \A n \in 1 .. m - 1 : n \in 1 .. m /\ n <= m
  OBVIOUS
<1>2. \A k : Turns(env, k, m) = Turns(env, k, m - 1) \cup (IF Counts(env, m) /\ v.key = k THEN {m} ELSE {})
  BY <1>1 DEF Turns
<1>3. \A k, n : n \in Turns(env, k, m - 1) => n \in 1 .. m - 1
  BY DEF Turns
<1>4. CASE ~Counts(env, m)
  <2>1. next = seen
    BY <1>4 DEF Counts, Reads
  <2>2. \A k : Turns(env, k, m) = Turns(env, k, m - 1)
    BY <1>2, <1>4
  <2>3. \A k, n : Latest(env, k, m, n) <=> Latest(env, k, m - 1, n)
    BY <2>2 DEF Latest
  <2>4. QED
    BY <1>1, <1>4, <2>1, <2>2, <2>3 DEF SaysTheLatest
<1>5. CASE Counts(env, m) /\ v.key = "no_proxy"
  <2>1. next = [seen EXCEPT !.noProxy = v.value]
    BY <1>5 DEF Counts, Reads
  <2>2. next = [proxies |-> seen.proxies, noProxy |-> v.value]
    BY <2>1 DEF SaysTheLatest
  <2>3. \A k : k # "no_proxy" => Turns(env, k, m) = Turns(env, k, m - 1)
    BY <1>2, <1>5
  <2>4. \A k, n : k # "no_proxy" => (Latest(env, k, m, n) <=> Latest(env, k, m - 1, n))
    BY <2>3 DEF Latest
  <2>5. m \in Turns(env, "no_proxy", m)
    BY <1>2, <1>5
  <2>6. Latest(env, "no_proxy", m, m)
    BY <1>1, <2>5 DEF Latest, Turns
  <2>7. QED
    BY <1>1, <1>5, <2>2, <2>4, <2>5, <2>6 DEF SaysTheLatest
<1>6. CASE Counts(env, m) /\ v.key # "no_proxy"
  <2>1. next = [seen EXCEPT !.proxies = With(@, v.key, v.value)]
    BY <1>6 DEF Counts, Reads
  <2>2. next = [proxies |-> With(seen.proxies, v.key, v.value), noProxy |-> seen.noProxy]
    BY <2>1 DEF SaysTheLatest
  <2>3. \A k : k # v.key => Turns(env, k, m) = Turns(env, k, m - 1)
    BY <1>2, <1>6
  <2>4. \A k, n : k # v.key => (Latest(env, k, m, n) <=> Latest(env, k, m - 1, n))
    BY <2>3 DEF Latest
  <2>5. Latest(env, v.key, m, m)
    <3>1. m \in Turns(env, v.key, m)
      BY <1>2, <1>6
    <3>2. \A n \in Turns(env, v.key, m) : n <= m
      BY <1>1 DEF Turns
    <3>3. QED
      BY <3>1, <3>2 DEF Latest
  <2>6. ASSUME NEW e \in With(seen.proxies, v.key, v.value)
        PROVE  /\ e = [key |-> e.key, proxy |-> e.proxy] /\ e.key # "no_proxy"
               /\ \E n \in 1 .. m : Latest(env, e.key, m, n) /\ e.proxy = Seen(env, n).value
    <3>1. CASE e = [key |-> v.key, proxy |-> v.value]
      BY <1>1, <1>6, <2>5, <3>1
    <3>2. CASE e \in seen.proxies /\ e.key # v.key
      BY <1>1, <2>4, <3>2 DEF SaysTheLatest
    <3>3. QED
      BY <3>1, <3>2 DEF With
  <2>7. HasKey(With(seen.proxies, v.key, v.value), v.key)
    <3>1. [key |-> v.key, proxy |-> v.value] \in With(seen.proxies, v.key, v.value)
      BY DEF With
    <3>2. QED
      BY <3>1 DEF HasKey
  <2>8. \A k : HasKey(seen.proxies, k) => HasKey(With(seen.proxies, v.key, v.value), k)
    <3> SUFFICES ASSUME NEW k, k # v.key, HasKey(seen.proxies, k)
                 PROVE  HasKey(With(seen.proxies, v.key, v.value), k)
      BY <2>7
    <3>1. PICK e \in seen.proxies : e.key = k
      BY DEF HasKey
    <3>2. e \in With(seen.proxies, v.key, v.value)
      BY <3>1 DEF With
    <3>3. QED
      BY <3>1, <3>2 DEF HasKey
  <2>9. ASSUME NEW n \in 1 .. m, Counts(env, n), Seen(env, n).key # "no_proxy"
        PROVE  HasKey(With(seen.proxies, v.key, v.value), Seen(env, n).key)
    <3>1. CASE n = m
      BY <2>7, <3>1
    <3>2. CASE n \in 1 .. m - 1
      BY <2>8, <2>9, <3>2 DEF SaysTheLatest
    <3>3. QED
      BY <1>1, <3>1, <3>2
  <2>10. Turns(env, "no_proxy", m) = Turns(env, "no_proxy", m - 1)
         /\ \A n : Latest(env, "no_proxy", m, n) <=> Latest(env, "no_proxy", m - 1, n)
    BY <1>6, <2>3, <2>4
  <2>11. QED
    BY <2>2, <2>6, <2>9, <2>10 DEF SaysTheLatest
<1>7. QED
  BY <1>4, <1>5, <1>6

(* What the environment says, variable by variable.                          *)
LEMMA ReadEnvSays ==
    ASSUME NEW env, Len(env.vars) \in Nat
    PROVE  SaysTheLatest(env, ReadEnv(env), 2 * Len(env.vars))
<1> DEFINE L == Len(env.vars)
           N == 2 * L
           Next1(seen, n) == IF Seen(env, n).lower = (n > L) THEN Reads(seen, Seen(env, n), env.cgi)
                             ELSE seen
           Body(f) == [n \in 0 .. N |-> IF n = 0 THEN NothingSeen ELSE Next1(f[n - 1], n)]
           Values == {Seen(env, n).value : n \in 1 .. N} \cup {<< >>}
           A == [proxies : SUBSET [key : {Seen(env, n).key : n \in 1 .. N}, proxy : Values],
                 noProxy : Values]
<1>1. N \in Nat /\ L \in Nat
  OBVIOUS
<1>2. \E f : f = Body(f)
  <2> DEFINE Step == [p \in A \X (1 .. N) |-> Next1(p[1], p[2])]
  <2>1. NothingSeen \in A
    BY DEF NothingSeen
  <2>2. ASSUME NEW seen \in A, NEW n \in 1 .. N PROVE Next1(seen, n) \in A
    <3>1. /\ Seen(env, n).value \in Values /\ seen.proxies \subseteq [key : {Seen(env, i).key : i \in 1 .. N}, proxy : Values]
          /\ [key |-> Seen(env, n).key, proxy |-> Seen(env, n).value]
                \in [key : {Seen(env, i).key : i \in 1 .. N}, proxy : Values]
      OBVIOUS
    <3>2. With(seen.proxies, Seen(env, n).key, Seen(env, n).value)
            \subseteq [key : {Seen(env, i).key : i \in 1 .. N}, proxy : Values]
      BY <3>1 DEF With
    <3>3. /\ [seen EXCEPT !.noProxy = Seen(env, n).value] \in A
          /\ [seen EXCEPT !.proxies = With(@, Seen(env, n).key, Seen(env, n).value)] \in A
      BY <3>1, <3>2
    <3> HIDE DEF A
    <3>4. QED
      BY <3>3 DEF Reads
  <2> HIDE DEF A, N, Next1
  <2>3. Step \in [A \X (1 .. N) -> A]
    BY <2>2
  <2>4. \A seen \in A, n \in 1 .. N : Step[<<seen, n>>] = Next1(seen, n)
    OBVIOUS
  <2> HIDE DEF Step
  <2>5. Solutions(N, A, NothingSeen, Step) # {}
    BY <1>1, <2>1, <2>3, Recursion
  <2> PICK f \in [0 .. N -> A] :
           f[0] = NothingSeen /\ \A n \in 1 .. N : f[n] = Step[<<f[n - 1], n>>]
    BY <2>5 DEF Solutions
  <2>6. \A n \in 1 .. N : f[n - 1] \in A
    BY <1>1
  <2>7. \A n \in 0 .. N : n # 0 => n \in 1 .. N
    BY <1>1
  <2>8. f = Body(f)
    BY <2>4, <2>6, <2>7
  <2>9. QED
    BY <2>8
<1> DEFINE f == CHOOSE g : g = Body(g)
<1>3. f = Body(f)
  BY <1>2
<1>4. ReadEnv(env) = f[N]
  BY DEF ReadEnv, Seen
<1> HIDE DEF f, A
<1>5. SaysTheLatest(env, f[0], 0)
  <2>1. f[0] = NothingSeen
    BY <1>1, <1>3
  <2>2. \A k : Turns(env, k, 0) = {}
    BY DEF Turns
  <2>3. QED
    BY <2>1, <2>2 DEF SaysTheLatest, NothingSeen
<1> DEFINE T == {n \in Nat : n <= N => SaysTheLatest(env, f[n], n)}
<1>6. 0 \in T
  BY <1>5
<1>7. ASSUME NEW n \in T PROVE n + 1 \in T
  <2> SUFFICES ASSUME n + 1 <= N PROVE SaysTheLatest(env, f[n + 1], n + 1)
    OBVIOUS
  <2> DEFINE j == n + 1
  <2>1. j \in 0 .. N /\ j \in 1 .. N /\ j # 0 /\ j - 1 = n /\ SaysTheLatest(env, f[n], n)
    BY <1>1
  <2> HIDE DEF j
  <2>2. f[j] = IF j = 0 THEN NothingSeen ELSE Next1(f[j - 1], j)
    BY <1>3, <2>1, Zenon
  <2>3. f[j] = Next1(f[n], j)
    BY <2>1, <2>2
  <2>4. SaysTheLatest(env, f[j], j)
    BY <2>1, <2>3, TurnReads
  <2>5. QED
    BY <2>4 DEF j
<1>8. T = Nat
  <2> HIDE DEF T
  <2>1. T \in SUBSET Nat
    BY DEF T
  <2>2. QED
    BY <1>6, <1>7, <2>1, Induction
<1>9. N \in T
  BY <1>1, <1>8
<1>10. QED
  BY <1>1, <1>4, <1>9

-----------------------------------------------------------------------------
(* The manual proxies.  The entries of the first m that name a proxy for the *)
(* protocol, "" for all of them.                                             *)
Schemes == {"http", "https", "ftp"}
NamedIn(list, p, m) == {i \in 1 .. m : list[i].protocol = p /\ list[i].server # "bad"}
LastOf(S, i) == i \in S /\ \A j \in S : j <= i
FirstOf(S, i) == i \in S /\ \A j \in S : i <= j

(* A scheme's proxy is the last named for it, else the first named for all;  *)
(* SOCKS is named by itself only.                                            *)
SaysAsListed(list, ps, m) ==
    /\ \A e \in ps :
         /\ e = [key |-> e.key, proxy |-> e.proxy] /\ e.key \in Schemes \cup {"socks"}
         /\ \E i \in 1 .. m :
              /\ e.proxy = list[i].server
              /\ \/ LastOf(NamedIn(list, e.key, m), i)
                 \/ /\ NamedIn(list, e.key, m) = {} /\ e.key # "socks"
                    /\ FirstOf(NamedIn(list, "", m), i)
    /\ \A i \in 1 .. m : list[i].server # "bad" =>
         /\ list[i].protocol \in Schemes \cup {"socks"} => HasKey(ps, list[i].protocol)
         /\ list[i].protocol = "" => \A k \in Schemes : HasKey(ps, k)

(* One entry.                                                                *)
LEMMA EntryAdds ==
    ASSUME NEW list, Len(list) \in Nat, NEW m \in 1 .. Len(list), NEW ps,
           SaysAsListed(list, ps, m - 1)
    PROVE  SaysAsListed(list, AddServer(ps, list[m]), m)
<1> DEFINE e == list[m]
           Named1(p, n) == NamedIn(list, p, n)
<1>1. m \in Nat /\ m - 1 \in Nat /\ m \in 1 .. m /\ (\A n \in 1 .. m : n \in 1 .. m - 1 \/ n = m)
      /\ \A n \in 1 .. m - 1 : n \in 1 .. m /\ n <= m /\ n # m
  OBVIOUS
<1>2. \A p : NamedIn(list, p, m) =
               NamedIn(list, p, m - 1) \cup (IF e.protocol = p /\ e.server # "bad" THEN {m} ELSE {})
  BY <1>1 DEF NamedIn
<1>3. \A p : NamedIn(list, p, m - 1) \subseteq 1 .. m - 1
  BY DEF NamedIn
<1>4. \A p : e.protocol # p \/ e.server = "bad" => NamedIn(list, p, m) = NamedIn(list, p, m - 1)
  BY <1>2
<1>5. CASE e.server = "bad" \/ e.protocol \notin Schemes \cup {"", "socks"}
  <2>1. AddServer(ps, e) = ps
    <3>1. CASE e.server = "bad"
      BY <3>1 DEF AddServer
    <3>2. CASE e.server # "bad" /\ e.protocol \notin Schemes \cup {"", "socks"}
      BY <3>2 DEF AddServer, Schemes
    <3>3. QED
      BY <1>5, <3>1, <3>2
  <2>2. ASSUME NEW k \in Schemes \cup {"socks", ""} PROVE NamedIn(list, k, m) = NamedIn(list, k, m - 1)
    BY <1>4, <1>5
  <2>3. QED
    BY <1>1, <1>5, <2>1, <2>2 DEF SaysAsListed
<1>6. CASE e.server # "bad" /\ e.protocol \in Schemes \cup {"socks"}
  <2> DEFINE k == e.protocol
             next == With(ps, k, e.server)
  <2>1. AddServer(ps, e) = next /\ k # ""
    BY <1>6 DEF AddServer, Schemes
  <2>2. \A p : p # k => NamedIn(list, p, m) = NamedIn(list, p, m - 1)
    BY <1>4
  <2>3. LastOf(NamedIn(list, k, m), m)
    BY <1>1, <1>2, <1>3, <1>6 DEF LastOf
  <2>4. [key |-> k, proxy |-> e.server] \in next
    BY DEF With
  <2>5. HasKey(next, k)
    BY <2>4 DEF HasKey
  <2>6. \A p : HasKey(ps, p) => HasKey(next, p)
    <3> SUFFICES ASSUME NEW p, p # k, HasKey(ps, p) PROVE HasKey(next, p)
      BY <2>5
    <3>1. PICK d \in ps : d.key = p
      BY DEF HasKey
    <3>2. d \in next
      BY <3>1 DEF With
    <3>3. QED
      BY <3>1, <3>2 DEF HasKey
  <2>7. ASSUME NEW d \in next
        PROVE  /\ d = [key |-> d.key, proxy |-> d.proxy] /\ d.key \in Schemes \cup {"socks"}
               /\ \E i \in 1 .. m :
                    /\ d.proxy = list[i].server
                    /\ \/ LastOf(NamedIn(list, d.key, m), i)
                       \/ /\ NamedIn(list, d.key, m) = {} /\ d.key # "socks"
                          /\ FirstOf(NamedIn(list, "", m), i)
    <3>1. CASE d = [key |-> k, proxy |-> e.server]
      <4>1. d.key = k /\ d.proxy = list[m].server
        BY <3>1
      <4>2. QED
        BY <1>1, <1>6, <2>3, <3>1, <4>1
    <3>2. CASE d \in ps /\ d.key # k
      BY <1>1, <2>1, <2>2, <3>2 DEF SaysAsListed
    <3>3. QED
      BY <3>1, <3>2 DEF With
  <2> HIDE DEF next
  <2>8. QED
    BY <1>1, <2>1, <2>5, <2>6, <2>7 DEF SaysAsListed
<1>7. CASE e.server # "bad" /\ e.protocol = ""
  <2> DEFINE unset == {k \in Schemes : ~HasKey(ps, k)}
             next == ps \cup {[key |-> k, proxy |-> e.server] : k \in unset}
  <2>1. AddServer(ps, e) = next
    BY <1>7 DEF AddServer, Schemes
  <2>2. \A p : p # "" => NamedIn(list, p, m) = NamedIn(list, p, m - 1)
    BY <1>4, <1>7
  <2>3. \A p : HasKey(ps, p) => HasKey(next, p)
    BY DEF HasKey
  <2>4. \A k \in Schemes : HasKey(next, k)
    <3> TAKE k \in Schemes
    <3>1. CASE HasKey(ps, k)
      BY <2>3, <3>1
    <3>2. CASE ~HasKey(ps, k)
      <4>1. [key |-> k, proxy |-> e.server] \in next
        BY <3>2
      <4>2. QED
        BY <4>1 DEF HasKey
    <3>3. QED
      BY <3>1, <3>2
  <2>5. ASSUME NEW i, FirstOf(NamedIn(list, "", m - 1), i) PROVE FirstOf(NamedIn(list, "", m), i)
    BY <1>1, <1>2, <1>3, <1>7, <2>5 DEF FirstOf
  <2>6. ASSUME NEW d \in next
        PROVE  /\ d = [key |-> d.key, proxy |-> d.proxy] /\ d.key \in Schemes \cup {"socks"}
               /\ \E i \in 1 .. m :
                    /\ d.proxy = list[i].server
                    /\ \/ LastOf(NamedIn(list, d.key, m), i)
                       \/ /\ NamedIn(list, d.key, m) = {} /\ d.key # "socks"
                          /\ FirstOf(NamedIn(list, "", m), i)
    <3>1. CASE d \in ps
      <4>1. d.key # ""
        BY <3>1 DEF SaysAsListed, Schemes
      <4>2. QED
        BY <1>1, <2>2, <2>5, <3>1, <4>1 DEF SaysAsListed
    <3>2. ASSUME NEW k \in unset, d = [key |-> k, proxy |-> e.server]
          PROVE  /\ d.key = k /\ k \in Schemes /\ k # "socks" /\ k # "" /\ d.proxy = list[m].server
                 /\ NamedIn(list, k, m) = {} /\ FirstOf(NamedIn(list, "", m), m)
      <4>1. d.key = k /\ k \in Schemes /\ k # "socks" /\ k # "" /\ d.proxy = list[m].server
        BY <3>2 DEF Schemes
      <4>2. ~HasKey(ps, k)
        OBVIOUS
      <4>3. NamedIn(list, k, m - 1) = {}
        BY <4>1, <4>2 DEF SaysAsListed, NamedIn
      <4>4. NamedIn(list, "", m - 1) = {}
        BY <4>1, <4>2 DEF SaysAsListed, NamedIn
      <4>5. NamedIn(list, "", m) = {m}
        BY <1>2, <1>7, <4>4
      <4>6. FirstOf({m}, m)
        BY <1>1 DEF FirstOf
      <4>7. QED
        BY <2>2, <4>1, <4>3, <4>5, <4>6
    <3>3. QED
      BY <1>1, <3>1, <3>2
  <2> HIDE DEF next
  <2>7. QED
    BY <1>1, <1>7, <2>1, <2>3, <2>4, <2>6 DEF SaysAsListed
<1>8. QED
  BY <1>5, <1>6, <1>7

(* What the list says, scheme by scheme.                                     *)
LEMMA ParseProxyListSays ==
    ASSUME NEW list \in Seq(Server)
    PROVE  SaysAsListed(list, ParseProxyList(list), Len(list))
<1> DEFINE N == Len(list)
           Body(f) == [n \in 0 .. N |-> IF n = 0 THEN {} ELSE AddServer(f[n - 1], list[n])]
           Keys == {list[n].protocol : n \in 1 .. N} \cup {"http", "https", "ftp"}
           E == [key : Keys, proxy : Proxy \cup {"bad"}]
           A == SUBSET E
<1>1. N \in Nat /\ \A n \in 1 .. N : list[n] \in Server
  BY LenProperties, ElementOfSeq
<1>2. \E f : f = Body(f)
  <2> DEFINE Step == [p \in A \X (1 .. N) |-> AddServer(p[1], list[p[2]])]
  <2>1. {} \in A
    OBVIOUS
  <2>2. ASSUME NEW ps \in A, NEW n \in 1 .. N PROVE AddServer(ps, list[n]) \in A
    <3>1. \A k \in Keys : [key |-> k, proxy |-> list[n].server] \in E
      BY <1>1 DEF Server
    <3>2. list[n].protocol \in Keys
      OBVIOUS
    <3>3. With(ps, list[n].protocol, list[n].server) \in A
      BY <3>1, <3>2 DEF With
    <3>4. ASSUME NEW K \in SUBSET {"http", "https", "ftp"}
          PROVE  ps \cup {[key |-> k, proxy |-> list[n].server] : k \in K} \in A
      <4>1. \A k \in K : [key |-> k, proxy |-> list[n].server] \in E
        BY <3>1
      <4> HIDE DEF E
      <4>2. QED
        BY <4>1
    <3> HIDE DEF A
    <3>5. QED
      BY <3>3, <3>4 DEF AddServer
  <2> HIDE DEF A, N
  <2>3. Step \in [A \X (1 .. N) -> A]
    BY <2>2
  <2>4. \A ps \in A, n \in 1 .. N : Step[<<ps, n>>] = AddServer(ps, list[n])
    OBVIOUS
  <2> HIDE DEF Step
  <2>5. Solutions(N, A, {}, Step) # {}
    BY <1>1, <2>1, <2>3, Recursion
  <2> PICK f \in [0 .. N -> A] :
           f[0] = {} /\ \A n \in 1 .. N : f[n] = Step[<<f[n - 1], n>>]
    BY <2>5 DEF Solutions
  <2>6. \A n \in 1 .. N : f[n - 1] \in A
    BY <1>1
  <2>7. \A n \in 0 .. N : n # 0 => n \in 1 .. N
    BY <1>1
  <2>8. f = Body(f)
    BY <2>4, <2>6, <2>7
  <2>9. QED
    BY <2>8
<1> DEFINE f == CHOOSE g : g = Body(g)
<1>3. f = Body(f)
  BY <1>2
<1>4. ParseProxyList(list) = f[N]
  BY DEF ParseProxyList
<1> HIDE DEF f, A
<1>5. SaysAsListed(list, f[0], 0)
  <2>1. f[0] = {}
    BY <1>1, <1>3
  <2>2. QED
    BY <2>1 DEF SaysAsListed
<1> DEFINE T == {n \in Nat : n <= N => SaysAsListed(list, f[n], n)}
<1>6. 0 \in T
  BY <1>5
<1>7. ASSUME NEW n \in T PROVE n + 1 \in T
  <2> SUFFICES ASSUME n + 1 <= N PROVE SaysAsListed(list, f[n + 1], n + 1)
    OBVIOUS
  <2> DEFINE j == n + 1
  <2>1. j \in 0 .. N /\ j \in 1 .. N /\ j # 0 /\ j - 1 = n /\ SaysAsListed(list, f[n], n)
    BY <1>1
  <2> HIDE DEF j
  <2>2. f[j] = IF j = 0 THEN {} ELSE AddServer(f[j - 1], list[j])
    BY <1>3, <2>1, Zenon
  <2>3. f[j] = AddServer(f[n], list[j])
    BY <2>1, <2>2
  <2>4. SaysAsListed(list, f[j], j)
    BY <1>1, <2>1, <2>3, EntryAdds
  <2>5. QED
    BY <2>4 DEF j
<1>8. T = Nat
  <2> HIDE DEF T
  <2>1. T \in SUBSET Nat
    BY DEF T
  <2>2. QED
    BY <1>6, <1>7, <2>1, Induction
<1>9. N \in T
  BY <1>1, <1>8
<1>10. QED
  BY <1>1, <1>4, <1>9
-----------------------------------------------------------------------------
(* The map auto_proxy makes: a dict, then the environment's link and DIRECT, *)
(* or the OS resolver, the deferred sources and the manual proxies.          *)
AnyEnviron == Environs \cup LaterEnvirons
AnySettings == Settings \cup LaterSettings

DictPart(o) == IF o.overrides = {} THEN << >> ELSE << [kind |-> "dict", proxies |-> o.overrides] >>
OsPart(o) == IF o.system /\ o.platform # "bare" THEN << [kind |-> o.platform] >> ELSE << >>
SystemPart(o, s) == OsPart(o) \o ToProxyMap(SystemConfig(s), o.wpad)
EnvPart(env) == <<EnvLink(env), DirectLink>>
LinksOf(o, m) ==
    DictPart(o) \o (IF HasProxyVariable(m.decided) THEN EnvPart(m.environ) ELSE SystemPart(o, m.settings))
RulesOf(o) == IF o.noProxy = {} THEN NoRules
              ELSE LET list == CHOOSE l \in o.noProxy : TRUE IN Parse(list, "no_proxy", FALSE)

(* Every link the map can have.                                              *)
Link ==
    {[kind |-> "dict", proxies |-> o.overrides] : o \in Options}
      \cup {EnvLink(env) : env \in AnyEnviron}
      \cup {ManualLink(SystemConfig(s)) : s \in AnySettings}
      \cup {[kind |-> k] : k \in {"direct", "deferred", "winhttp", "resolver"}}

Kinds == {"dict", "env", "manual", "direct", "deferred", "winhttp", "resolver"}

(* The OS's sources, as SettingsDecide counts them.                          *)
Detects(o, s) == IF s.read THEN s.detect ELSE o.wpad
Sources(o, s) ==
    (IF o.system /\ o.platform # "bare" THEN <<o.platform>> ELSE << >>)
      \o (IF Detects(o, s) THEN <<"deferred">> ELSE << >>)
      \o (IF s.read /\ s.pac THEN <<"deferred">> ELSE << >>)

SameKinds(links, kinds) ==
    Len(links) = Len(kinds) /\ \A i \in 1 .. Len(links) : links[i].kind = kinds[i]

(* Kinds go along with concatenation.                                        *)
LEMMA KindsConcat ==
    ASSUME NEW a \in Seq(Link), NEW b \in Seq(Link), NEW j \in Seq(Kinds), NEW k \in Seq(Kinds),
           SameKinds(a, j), SameKinds(b, k)
    PROVE  SameKinds(a \o b, j \o k)
<1>1. /\ Len(a \o b) = Len(a) + Len(b)
      /\ \A i \in 1 .. Len(a) + Len(b) : (a \o b)[i] = IF i <= Len(a) THEN a[i] ELSE b[i - Len(a)]
  BY ConcatProperties
<1>2. /\ Len(j \o k) = Len(j) + Len(k)
      /\ \A i \in 1 .. Len(j) + Len(k) : (j \o k)[i] = IF i <= Len(j) THEN j[i] ELSE k[i - Len(j)]
  BY ConcatProperties
<1>3. Len(a) \in Nat /\ Len(b) \in Nat
  BY LenProperties
<1>4. ASSUME NEW i \in 1 .. Len(a) + Len(b) PROVE (a \o b)[i].kind = (j \o k)[i]
  <2>1. CASE i <= Len(a)
    <3>1. i \in 1 .. Len(a)
      BY <1>3, <2>1
    <3>2. QED
      BY <1>1, <1>2, <2>1, <3>1 DEF SameKinds
  <2>2. CASE ~(i <= Len(a))
    <3>1. i - Len(a) \in 1 .. Len(b)
      BY <1>3, <2>2
    <3>2. QED
      BY <1>1, <1>2, <2>2, <3>1 DEF SameKinds
  <2>3. QED
    BY <2>1, <2>2
<1>5. QED
  BY <1>1, <1>2, <1>4 DEF SameKinds

(* One link and its kind.                                                    *)
LEMMA OneKind ==
    ASSUME NEW k \in Kinds, NEW l \in Link, l.kind = k
    PROVE  <<l>> \in Seq(Link) /\ <<k>> \in Seq(Kinds) /\ SameKinds(<<l>>, <<k>>)
  BY DEF SameKinds

(* No link and no kind.                                                      *)
LEMMA NoKind == << >> \in Seq(Link) /\ << >> \in Seq(Kinds) /\ SameKinds(<< >>, << >>)
  BY DEF SameKinds

(* The settings' links end with the manual proxies, and those before them    *)
(* are the OS's sources in their order.                                      *)
LEMMA SystemPartSays ==
    ASSUME NEW o \in Options, NEW s \in AnySettings
    PROVE  /\ SystemPart(o, s) \in Seq(Link) /\ Sources(o, s) \in Seq(Kinds)
           /\ Len(SystemPart(o, s)) = Len(Sources(o, s)) + 1
           /\ \A i \in 1 .. Len(Sources(o, s)) : SystemPart(o, s)[i].kind = Sources(o, s)[i]
           /\ SystemPart(o, s)[Len(Sources(o, s)) + 1] = ManualLink(SystemConfig(s))
           /\ \A i \in 1 .. Len(Sources(o, s)) : Sources(o, s)[i] \in {"winhttp", "resolver", "deferred"}
<1> DEFINE c == SystemConfig(s)
           last == ManualLink(c)
           D == [kind |-> "deferred"]
           b == IF Detects(o, s) THEN <<D>> ELSE << >>
           p == IF s.read /\ s.pac THEN <<D>> ELSE << >>
           ka == IF o.system /\ o.platform # "bare" THEN <<o.platform>> ELSE << >>
           kb == IF Detects(o, s) THEN <<"deferred">> ELSE << >>
           kp == IF s.read /\ s.pac THEN <<"deferred">> ELSE << >>
<1>1. last \in Link /\ D \in Link /\ "deferred" \in Kinds /\ D.kind = "deferred"
  BY DEF Link, Kinds
<1>2. OsPart(o) \in Seq(Link) /\ ka \in Seq(Kinds) /\ SameKinds(OsPart(o), ka)
  <2>1. CASE o.system /\ o.platform # "bare"
    <3>1. o.platform \in {"winhttp", "resolver"}
      BY <2>1, WorldAssumption
    <3>2. [kind |-> o.platform] \in Link /\ o.platform \in Kinds /\ [kind |-> o.platform].kind = o.platform
      BY <3>1 DEF Link, Kinds
    <3>3. QED
      BY <2>1, <3>2, OneKind DEF OsPart
  <2>2. CASE ~(o.system /\ o.platform # "bare")
    BY <2>2, NoKind DEF OsPart
  <2>3. QED
    BY <2>1, <2>2
<1>3. b \in Seq(Link) /\ kb \in Seq(Kinds) /\ SameKinds(b, kb)
  BY <1>1, OneKind, NoKind
<1>4. p \in Seq(Link) /\ kp \in Seq(Kinds) /\ SameKinds(p, kp)
  BY <1>1, OneKind, NoKind
<1>5. ToProxyMap(c, o.wpad) = (b \o p) \o <<last>>
  <2>1. CASE c.state = "direct"
    <3>1. s.read /\ ~s.detect /\ ~s.pac /\ c.proxies = {}
      BY <2>1 DEF SystemConfig
    <3>2. b = << >> /\ p = << >> /\ last = DirectLink
      BY <3>1 DEF Detects, ManualLink
    <3>3. ToProxyMap(c, o.wpad) = <<DirectLink>>
      BY <2>1 DEF ToProxyMap
    <3>4. QED
      BY <3>2, <3>3, ConcatEmptySeq, NoKind, <1>1, OneKind
  <2>2. CASE c.state # "direct"
    <3>1. (c.detect \/ (o.wpad /\ c.state = "unset")) <=> Detects(o, s)
      BY <2>2 DEF SystemConfig, Detects
    <3>2. c.pac <=> (s.read /\ s.pac)
      BY DEF SystemConfig
    <3>3. QED
      BY <2>2, <3>1, <3>2 DEF ToProxyMap
  <2>3. QED
    BY <2>1, <2>2
<1> HIDE DEF b, p, ka, kb, kp, last, D, c
<1> DEFINE links == (OsPart(o) \o b) \o p
           kinds == (ka \o kb) \o kp
<1>6. <<last>> \in Seq(Link) /\ Len(<<last>>) = 1 /\ <<last>>[1] = last
  BY <1>1
<1>7. OsPart(o) \o b \in Seq(Link) /\ links \in Seq(Link) /\ b \o p \in Seq(Link)
  BY <1>2, <1>3, <1>4, ConcatProperties
<1>8. ka \o kb \in Seq(Kinds) /\ kinds \in Seq(Kinds)
  BY <1>2, <1>3, <1>4, ConcatProperties
<1>9. SameKinds(links, kinds)
  <2>1. SameKinds(OsPart(o) \o b, ka \o kb)
    BY <1>2, <1>3, KindsConcat
  <2>2. QED
    BY <1>4, <1>7, <1>8, <2>1, KindsConcat
<1>10. SystemPart(o, s) = links \o <<last>>
  <2>1. SystemPart(o, s) = OsPart(o) \o ((b \o p) \o <<last>>)
    BY <1>5 DEF SystemPart, c
  <2>2. OsPart(o) \o ((b \o p) \o <<last>>) = (OsPart(o) \o (b \o p)) \o <<last>>
    BY <1>2, <1>6, <1>7, ConcatAssociative
  <2>3. OsPart(o) \o (b \o p) = links
    <3>1. OsPart(o) \in Seq(Link) /\ b \in Seq(Link) /\ p \in Seq(Link)
      BY <1>2, <1>3, <1>4
    <3>2. QED
      BY <3>1, ConcatAssociative
  <2>4. QED
    BY <2>1, <2>2, <2>3
<1>11. Sources(o, s) = kinds
  BY DEF Sources, ka, kb, kp
<1> HIDE DEF links, kinds
<1>12. /\ links \o <<last>> \in Seq(Link) /\ Len(links \o <<last>>) = Len(links) + 1
       /\ \A i \in 1 .. Len(links) + 1 :
             (links \o <<last>>)[i] = IF i <= Len(links) THEN links[i] ELSE <<last>>[i - Len(links)]
  BY <1>6, <1>7, ConcatProperties
<1>13. Len(links) \in Nat /\ Len(kinds) = Len(links)
  BY <1>7, <1>9, LenProperties DEF SameKinds
<1>14. \A i \in 1 .. Len(kinds) : kinds[i] \in {"winhttp", "resolver", "deferred"}
  <2>1. \A x \in {ka, kb, kp} : x \in Seq({"winhttp", "resolver", "deferred"})
    <3> DEFINE K == {"winhttp", "resolver", "deferred"}
    <3>1. << >> \in Seq(K) /\ \A k \in K : <<k>> \in Seq(K)
      OBVIOUS
    <3>2. o.system /\ o.platform # "bare" => o.platform \in K
      BY WorldAssumption
    <3>3. "deferred" \in K
      OBVIOUS
    <3> HIDE DEF K
    <3>4. ka \in Seq(K)
      BY <3>1, <3>2, Zenon DEF ka
    <3>5. kb \in Seq(K) /\ kp \in Seq(K)
      BY <3>1, <3>3, Zenon DEF kb, kp
    <3>6. QED
      BY <3>4, <3>5, Zenon DEF K
  <2>2. kinds \in Seq({"winhttp", "resolver", "deferred"})
    BY <2>1, ConcatProperties DEF kinds
  <2>3. QED
    BY <2>2, ElementOfSeq
<1>15. \A i \in 1 .. Len(links) : (links \o <<last>>)[i].kind = kinds[i]
  BY <1>9, <1>12, <1>13 DEF SameKinds
<1>16. (links \o <<last>>)[Len(links) + 1] = last
  BY <1>6, <1>12, <1>13
<1>17. QED
  BY <1>8, <1>10, <1>11, <1>12, <1>13, <1>14, <1>15, <1>16 DEF last, c

(* What a link holds.                                                        *)
LEMMA LinkHolds ==
    ASSUME NEW l \in Link
    PROVE  /\ l.kind \in Kinds
           /\ l.kind = "dict" => \A e \in l.proxies : e.proxy \in Seq(Proxy)
           /\ l.kind = "env" => \A e \in l.proxies : e.proxy \in Proxy \cup {"pac"}
           /\ l.kind = "manual" => \A e \in l.proxies : e.proxy \in Proxy
<1>1. ASSUME NEW o \in Options, l = [kind |-> "dict", proxies |-> o.overrides]
      PROVE  l.kind = "dict" /\ \A e \in l.proxies : e.proxy \in Seq(Proxy)
  BY <1>1, WorldAssumption
<1>2. ASSUME NEW env \in AnyEnviron, l = EnvLink(env)
      PROVE  l.kind = "env" /\ \A e \in l.proxies : e.proxy \in Proxy \cup {"pac"}
  <2>1. Len(env.vars) \in Nat /\ \A i \in 1 .. Len(env.vars) :
           env.vars[i].key # "no_proxy" => env.vars[i].value \in Proxy \cup {"", "pac"}
    BY WorldAssumption DEF AnyEnviron
  <2>2. SaysTheLatest(env, ReadEnv(env), 2 * Len(env.vars))
    BY <2>1, ReadEnvSays
  <2>3. l.kind = "env" /\ l.proxies = {e \in ReadEnv(env).proxies : e.proxy # ""}
    BY <1>2 DEF EnvLink, Configured
  <2>4. ASSUME NEW e \in l.proxies PROVE e.proxy \in Proxy \cup {"pac"}
    <3>1. e \in ReadEnv(env).proxies /\ e.proxy # ""
      BY <2>3
    <3>2. e.key # "no_proxy"
      BY <2>2, <3>1 DEF SaysTheLatest
    <3>3. PICK n \in 1 .. 2 * Len(env.vars) : Latest(env, e.key, 2 * Len(env.vars), n) /\ e.proxy = Seen(env, n).value
      BY <2>2, <3>1 DEF SaysTheLatest
    <3>4. Seen(env, n).key = e.key
      BY <3>3 DEF Latest, Turns
    <3>5. \E i \in 1 .. Len(env.vars) : Seen(env, n) = env.vars[i]
      BY <2>1, SeenAt
    <3>6. QED
      BY <2>1, <3>1, <3>2, <3>3, <3>4, <3>5
  <2>5. QED
    BY <2>3, <2>4
<1>3. ASSUME NEW s \in AnySettings, l = ManualLink(SystemConfig(s))
      PROVE  \/ l = DirectLink
             \/ l.kind = "manual" /\ \A e \in l.proxies : e.proxy \in Proxy
  <2>1. s.list \in Seq(Server) /\ Len(s.list) \in Nat
    BY WorldAssumption, LenProperties DEF AnySettings
  <2>2. SaysAsListed(s.list, ParseProxyList(s.list), Len(s.list))
    BY <2>1, ParseProxyListSays
  <2>3. ASSUME NEW e \in ParseProxyList(s.list) PROVE e.proxy \in Proxy
    <3>1. PICK i \in 1 .. Len(s.list) :
             /\ e.proxy = s.list[i].server
             /\ \/ LastOf(NamedIn(s.list, e.key, Len(s.list)), i)
                \/ FirstOf(NamedIn(s.list, "", Len(s.list)), i)
      BY <2>2 DEF SaysAsListed
    <3>2. s.list[i].server # "bad"
      BY <3>1 DEF LastOf, FirstOf, NamedIn
    <3>3. s.list[i] \in Server
      BY <2>1, ElementOfSeq
    <3>4. QED
      BY <3>1, <3>2, <3>3 DEF Server
  <2>4. SystemConfig(s).proxies \in {{}, ParseProxyList(s.list)}
    BY DEF SystemConfig
  <2>5. QED
    BY <1>3, <2>3, <2>4 DEF ManualLink
<1>4. DirectLink.kind = "direct"
  BY DEF DirectLink
<1>5. QED
  BY <1>1, <1>2, <1>3, <1>4 DEF Link, Kinds

(* The links after the dict.                                                 *)
OthersOf(o, m) == IF HasProxyVariable(m.decided) THEN EnvPart(m.environ) ELSE SystemPart(o, m.settings)
Before(o) == IF o.overrides = {} THEN 0 ELSE 1

(* The links of a map are those of its sources, a dict's before them if      *)
(* there is one.                                                             *)
LEMMA LinksOfSay ==
    ASSUME NEW o \in Options, NEW m, m.environ \in AnyEnviron, m.settings \in AnySettings
    PROVE  /\ LinksOf(o, m) \in Seq(Link) /\ OthersOf(o, m) \in Seq(Link)
           /\ Len(LinksOf(o, m)) = Before(o) + Len(OthersOf(o, m))
           /\ \A i \in 1 .. Len(OthersOf(o, m)) :
                /\ LinksOf(o, m)[Before(o) + i] = OthersOf(o, m)[i]
                /\ OthersOf(o, m)[i].kind # "dict"
           /\ Before(o) = 1 => LinksOf(o, m)[1].kind = "dict"
           /\ Len(OthersOf(o, m)) > 0
           /\ OthersOf(o, m)[Len(OthersOf(o, m))].kind \in {"direct", "manual"}
<1> DEFINE d == DictPart(o)
           p == OthersOf(o, m)
<1>1. d \in Seq(Link) /\ Len(d) = Before(o) /\ (Before(o) = 1 => d[1].kind = "dict")
  <2>1. CASE o.overrides = {}
    BY <2>1 DEF DictPart, Before
  <2>2. CASE o.overrides # {}
    <3>1. [kind |-> "dict", proxies |-> o.overrides] \in Link
      BY DEF Link
    <3>2. QED
      BY <2>2, <3>1 DEF DictPart, Before
  <2>3. QED
    BY <2>1, <2>2
<1>2. /\ p \in Seq(Link) /\ Len(p) > 0
      /\ \A i \in 1 .. Len(p) : p[i].kind # "dict"
      /\ p[Len(p)].kind \in {"direct", "manual"}
  <2>1. CASE HasProxyVariable(m.decided)
    <3>1. p = <<EnvLink(m.environ), DirectLink>>
      BY <2>1 DEF OthersOf, EnvPart
    <3>2. EnvLink(m.environ) \in Link /\ DirectLink \in Link
      BY DEF Link, DirectLink
    <3>3. EnvLink(m.environ).kind = "env" /\ DirectLink.kind = "direct"
      BY DEF EnvLink, DirectLink
    <3>4. QED
      BY <3>1, <3>2, <3>3
  <2>2. CASE ~HasProxyVariable(m.decided)
    <3> DEFINE s == m.settings
               n == Len(Sources(o, s))
    <3>1. p = SystemPart(o, s)
      BY <2>2 DEF OthersOf
    <3>2. n \in Nat
      BY SystemPartSays, LenProperties
    <3>3. p \in Seq(Link) /\ Len(p) = n + 1 /\ p[n + 1] = ManualLink(SystemConfig(s))
      BY <3>1, SystemPartSays
    <3>4. ManualLink(SystemConfig(s)).kind \in {"direct", "manual"}
      BY DEF ManualLink, DirectLink
    <3>5. \A i \in 1 .. n : p[i].kind \in {"winhttp", "resolver", "deferred"}
      BY <3>1, SystemPartSays
    <3> HIDE DEF n, p, s
    <3>6. ASSUME NEW i \in 1 .. Len(p) PROVE p[i].kind # "dict"
      BY <3>2, <3>3, <3>4, <3>5
    <3>7. QED
      BY <3>2, <3>3, <3>4, <3>6
  <2>3. QED
    BY <2>1, <2>2
<1>3. LinksOf(o, m) = d \o p
  BY DEF LinksOf, OthersOf
<1> HIDE DEF d, p
<1>4. /\ d \o p \in Seq(Link) /\ Len(d \o p) = Len(d) + Len(p)
      /\ \A i \in 1 .. Len(d) + Len(p) : (d \o p)[i] = IF i <= Len(d) THEN d[i] ELSE p[i - Len(d)]
  BY <1>1, <1>2, ConcatProperties
<1>5. Len(p) \in Nat /\ Before(o) \in {0, 1}
  BY <1>2, LenProperties DEF Before
<1>6. ASSUME NEW i \in 1 .. Len(p) PROVE (d \o p)[Before(o) + i] = p[i]
  BY <1>1, <1>4, <1>5
<1>7. Before(o) = 1 => (d \o p)[1] = d[1]
  BY <1>1, <1>4, <1>5
<1>8. QED
  BY <1>1, <1>2, <1>3, <1>4, <1>6, <1>7 DEF p

-----------------------------------------------------------------------------
(* What the links say.                                                       *)
Good == Seq(Proxy \cup {"DIRECT"}) \ {<< >>}
Answers == Seq(Proxy \cup {"DIRECT", "r", "KeyError", "error"}) \ {<< >>}

(* Good answers are entries, and neither KeyError nor an error is one.       *)
LEMMA GoodAnswers ==
    /\ Good \subseteq Answers /\ NoOpinion \notin Good /\ Error \notin Good
    /\ NoOpinion \in Answers /\ Error \in Answers /\ <<"r">> \in Answers /\ NoOpinion # Error
    /\ Direct \in Good /\ \A p \in Proxy : <<p>> \in Good
    /\ \A s \in Seq(Proxy \cup {"DIRECT"}) : Answered(s) \in Good
<1> DEFINE P == Proxy \cup {"DIRECT"}
           Q == Proxy \cup {"DIRECT", "r", "KeyError", "error"}
<1>1. \A s \in Seq(P) : s \in Seq(Q)
  BY SeqMonotonic
<1>2. \A k : <<k>> \in Seq(P) => k \in P
  <2> SUFFICES ASSUME NEW k, <<k>> \in Seq(P) PROVE k \in P
    OBVIOUS
  <2>1. 1 \in 1 .. Len(<<k>>) /\ <<k>>[1] = k
    OBVIOUS
  <2>2. <<k>>[1] \in P
    BY <2>1, ElementOfSeq
  <2>3. QED
    BY <2>1, <2>2
<1>3. "KeyError" \notin P /\ "error" \notin P
  BY NamesAssumption
<1>4. \A k \in P : <<k>> \in Seq(P)
  OBVIOUS
<1>5. \A k \in Q : <<k>> \in Seq(Q)
  OBVIOUS
<1>6. \A k : <<k>> # << >>
  OBVIOUS
<1>7. "DIRECT" \in P /\ Proxy \subseteq P /\ "KeyError" \in Q /\ "error" \in Q /\ "r" \in Q
  OBVIOUS
<1> HIDE DEF P, Q
<1>8. Good = Seq(P) \ {<< >>} /\ Answers = Seq(Q) \ {<< >>}
  BY DEF Good, Answers, P, Q
<1>9. NoOpinion # Error
  BY DEF NoOpinion, Error
<1>10. \A s \in Seq(P) : Answered(s) \in Good
  BY <1>4, <1>6, <1>7, <1>8 DEF Answered, Direct
<1>11. QED
  BY <1>1, <1>2, <1>3, <1>4, <1>5, <1>6, <1>7, <1>8, <1>9, <1>10 DEF NoOpinion, Error, Direct, P

(* A PAC's answer that is no error is good: parse_pac_result leaves DIRECT   *)
(* when nothing is left.                                                     *)
LEMMA ParsedIsGood ==
    ASSUME NEW r \in PacResults, r # Error
    PROVE  ParsePacResult(r) \in Good
<1> DEFINE places == {i \in DOMAIN r : r[i] # "unknown"}
           t == Picked(r, places)
           P == Proxy \cup {"DIRECT"}
           Q == Proxy \cup {"DIRECT", "unknown"}
<1>1. r \in Seq(Q)
  BY AnswersAssumption
<1>2. t \in Seq(Q) /\ \A k \in 1 .. Len(t) : \E i \in 1 .. Len(r) : i \in places /\ t[k] = r[i]
  <2> HIDE DEF places, Q
  <2>1. QED
    BY <1>1, PickedOf
<1>3. \A k \in 1 .. Len(t) : t[k] \in P
  <2> TAKE k \in 1 .. Len(t)
  <2>1. t[k] # "unknown"
    BY <1>2
  <2>2. t[k] \in Q
    BY <1>2, ElementOfSeq
  <2>3. QED
    BY <2>1, <2>2
<1>4. ParsePacResult(r) = Answered(t)
  BY DEF ParsePacResult
<1> HIDE DEF t, P, Q
<1>5. t \in Seq(P)
  BY <1>2, <1>3, LenProperties
<1>6. QED
  BY <1>4, <1>5, GoodAnswers DEF P

(* The manual map always has a good answer.                                  *)
LEMMA ManualIsGood ==
    ASSUME NEW proxies, NEW rules, \A e \in proxies : e.proxy \in Proxy
    PROVE  ManualAnswer(proxies, rules) \in Good
<1> DEFINE found == Under(proxies, <<url.scheme, Fallback(url.scheme), "socks">>)
<1>1. \A p \in found : p \in Proxy
  BY DEF Under
<1>2. ManualAnswer(proxies, rules) = IF proxies = {} \/ Matches(rules, url) \/ found = {} THEN Direct
                                     ELSE <<CHOOSE p \in found : TRUE>>
  BY DEF ManualAnswer
<1> HIDE DEF found
<1>3. found # {} => (CHOOSE p \in found : TRUE) \in found
  OBVIOUS
<1>4. QED
  BY <1>1, <1>2, <1>3, GoodAnswers

(* WinHTTP's answer is good or an error.                                     *)
LEMMA ResolvedIsAnswer ==
    ASSUME NEW list \in WinHttpLists
    PROVE  ResolveForScheme(list) \in Answers
<1> DEFINE of(protocols) == Picked(list, {i \in DOMAIN list : list[i].protocol \in protocols})
           first(a, b) == IF a # << >> THEN a ELSE b
           chosen == first(of({url.scheme, ""}), first(of({"http"}), of({"https"})))
<1>1. \A ps : of(ps) \in Seq(Server)
  <2> TAKE ps
  <2>1. list \in Seq(Server)
    BY AnswersAssumption
  <2>2. QED
    BY <2>1, PickedOf
<1>2. chosen \in Seq(Server)
  BY <1>1
<1>3. ResolveForScheme(list) =
        IF chosen = << >> THEN Direct
        ELSE IF \E i \in DOMAIN chosen : chosen[i].server = "bad" THEN Error
        ELSE [i \in DOMAIN chosen |-> chosen[i].server]
  BY DEF ResolveForScheme
<1> HIDE DEF chosen
<1>4. ASSUME chosen # << >>, ~\E i \in DOMAIN chosen : chosen[i].server = "bad"
      PROVE  [i \in DOMAIN chosen |-> chosen[i].server] \in Good
  <2> DEFINE N == Len(chosen)
             t == [i \in 1 .. N |-> chosen[i].server]
  <2>1. N \in Nat \ {0} /\ DOMAIN chosen = 1 .. N
    BY <1>2, <1>4, LenProperties, EmptySeq
  <2>2. ASSUME NEW i \in 1 .. N PROVE chosen[i].server \in Proxy
    <3>1. chosen[i] \in Server
      BY <1>2, ElementOfSeq
    <3>2. QED
      BY <1>4, <2>1, <3>1 DEF Server
  <2> HIDE DEF N
  <2>3. t \in Seq(Proxy \cup {"DIRECT"}) /\ Len(t) = N
    BY <2>1, <2>2
  <2>4. t # << >>
    BY <2>1, <2>3
  <2>5. QED
    BY <2>1, <2>3, <2>4 DEF Good
<1>5. QED
  BY <1>3, <1>4, GoodAnswers

-----------------------------------------------------------------------------
(* The invariant.                                                            *)
EnvSays(l) ==
    IF url.host = NoHost THEN {Error}
    ELSE IF Matches(l.rules, url) THEN {Direct}
    ELSE LET values == Under(l.proxies, <<url.scheme, Fallback(url.scheme), "all">>)
         IN IF values = {} THEN {NoOpinion}
            ELSE UNION {IF v = "pac" THEN {IF r = Error THEN r ELSE ParsePacResult(r) : r \in PacResults}
                        ELSE {<<v>>} : v \in values}

MayRaise(l) ==
    \/ l.kind = "env" /\ (url.host = NoHost \/ \E e \in l.proxies : e.proxy = "pac")
    \/ l.kind \in {"winhttp", "resolver"}
    \/ ~options.engine

(* What the report c of the link l has to do with it.                        *)
Reported(c, l) ==
    /\ c.kind = l.kind
    /\ l.kind \in {"direct", "manual"} => c.said # NoOpinion
    /\ l.kind = "direct" => c.said = Direct
    /\ l.kind = "manual" => c.said = ManualAnswer(l.proxies, l.rules)
    /\ l.kind = "env" => c.said \in EnvSays(l)
    /\ LET config == SystemConfig(c.seen)
       IN l.kind = "winhttp" /\ options.session /\ ~(config.detect \/ config.pac)
            => c.said = ManualAnswer(config.proxies, config.rules)
    /\ c.said = Error => MayRaise(l)

Report == [kind : Kinds, said : Answers, seen : AnySettings]

WorldInv ==
    /\ environ \in AnyEnviron /\ settings \in AnySettings /\ options \in Options
    /\ made \in [decided : AnyEnviron, environ : AnyEnviron, settings : AnySettings]
    /\ pc \in {"unmade", "environment", "system", "idle", "asking", "returned"}

MapInv ==
    /\ pc = "unmade" => made.decided = environ
    /\ pc = "environment" => HasProxyVariable(made.decided)
    /\ pc = "system" => ~HasProxyVariable(made.decided)
    /\ pc \in {"idle", "asking", "returned"} =>
         map = [rules |-> RulesOf(options), links |-> LinksOf(options, made)]

(* The links asked have had no opinion, but for the one whose answer is the  *)
(* lookup's; the rest are those after them.                                  *)
LookupInv ==
    /\ consulted \in Seq(Report)
    /\ pc \notin {"asking", "returned"} => consulted = << >>
    /\ pc \in {"asking", "returned"} =>
         /\ url \in Urls /\ Len(consulted) <= Len(map.links)
         /\ \A i \in 1 .. Len(consulted) : Reported(consulted[i], map.links[i])
    /\ pc = "asking" =>
         /\ ~Matches(map.rules, url)
         /\ rest \in Seq(Link) /\ Len(rest) > 0 /\ Len(consulted) + Len(rest) = Len(map.links)
         /\ \A i \in 1 .. Len(rest) : rest[i] = map.links[Len(consulted) + i]
         /\ \A i \in 1 .. Len(consulted) : consulted[i].said = NoOpinion
    /\ pc = "returned" =>
         IF consulted = << >> THEN Matches(map.rules, url) /\ answer = Direct
         ELSE /\ ~Matches(map.rules, url)
              /\ answer = consulted[Len(consulted)].said /\ answer # NoOpinion
              /\ \A i \in 1 .. Len(consulted) - 1 : consulted[i].said = NoOpinion

Inv == WorldInv /\ MapInv /\ LookupInv

(* The links of the map made.                                                *)
LEMMA LinksMade ==
    ASSUME Inv, pc \in {"idle", "asking", "returned"}
    PROVE  /\ map.links = LinksOf(options, made) /\ map.rules = RulesOf(options)
           /\ map.links \in Seq(Link) /\ Len(map.links) > 0
           /\ map.links[Len(map.links)].kind \in {"direct", "manual"}
<1>1. map = [rules |-> RulesOf(options), links |-> LinksOf(options, made)]
  BY DEF Inv, MapInv
<1>2. options \in Options /\ made.environ \in AnyEnviron /\ made.settings \in AnySettings
  BY DEF Inv, WorldInv
<1> DEFINE L == LinksOf(options, made)
           p == OthersOf(options, made)
<1>3. /\ L \in Seq(Link) /\ p \in Seq(Link) /\ Len(L) = Before(options) + Len(p) /\ Len(p) > 0
      /\ \A i \in 1 .. Len(p) : L[Before(options) + i] = p[i]
      /\ p[Len(p)].kind \in {"direct", "manual"}
  BY <1>2, LinksOfSay
<1>4. Len(p) \in Nat /\ Before(options) \in {0, 1}
  BY <1>3, LenProperties DEF Before
<1>5. map.links = L /\ map.rules = RulesOf(options)
  BY <1>1
<1> HIDE DEF L, p
<1>6. L[Len(L)] = p[Len(p)] /\ Len(L) > 0
  BY <1>3, <1>4
<1>7. QED
  BY <1>3, <1>5, <1>6 DEF L

(* A link's report keeps the invariant.                                      *)
LEMMA SaysKeeps ==
    ASSUME Inv, pc = "asking", NEW r \in Answers,
           Reported([kind |-> rest[1].kind, said |-> r, seen |-> settings], rest[1]), Says(r)
    PROVE  Inv'
<1> DEFINE c == [kind |-> rest[1].kind, said |-> r, seen |-> settings]
           n == Len(consulted)
<1>1. /\ consulted' = Append(consulted, c)
      /\ IF r = NoOpinion /\ Len(rest) > 1
           THEN rest' = Tail(rest) /\ UNCHANGED <<pc, answer>>
           ELSE rest' = << >> /\ pc' = "returned" /\ answer' = r
      /\ UNCHANGED <<environ, settings, options, map, made, url>>
  BY DEF Says
<1>2. /\ consulted \in Seq(Report) /\ url \in Urls /\ ~Matches(map.rules, url)
      /\ \A i \in 1 .. n : Reported(consulted[i], map.links[i])
      /\ rest \in Seq(Link) /\ Len(rest) > 0 /\ n + Len(rest) = Len(map.links)
      /\ \A i \in 1 .. Len(rest) : rest[i] = map.links[n + i]
      /\ \A i \in 1 .. n : consulted[i].said = NoOpinion
  BY DEF Inv, LookupInv
<1>3. n \in Nat /\ Len(rest) \in Nat
  BY <1>2, LenProperties
<1>4. rest[1] \in Link /\ rest[1] = map.links[n + 1]
  BY <1>2, <1>3, ElementOfSeq
<1>5. c \in Report
  BY <1>4, LinkHolds DEF Report, Inv, WorldInv
<1>6. WorldInv' /\ MapInv'
  BY <1>1 DEF Inv, WorldInv, MapInv
<1>7. /\ consulted' \in Seq(Report) /\ Len(consulted') = n + 1
      /\ \A i \in 1 .. n : consulted'[i] = consulted[i]
      /\ consulted'[n + 1] = c
  <2> HIDE DEF c
  <2>1. QED
    BY <1>1, <1>2, <1>5, AppendProperties
<1>8. \A i \in 1 .. n + 1 : i \in 1 .. n \/ i = n + 1
  BY <1>3
<1>9. Reported(c, map.links[n + 1])
  BY <1>4
<1>10. ASSUME NEW i \in 1 .. n + 1 PROVE Reported(consulted'[i], map.links[i])
  <2> HIDE DEF n, c
  <2>1. QED
    BY <1>2, <1>7, <1>8, <1>9
<1>11. (\A i \in 1 .. Len(consulted) : Reported(consulted[i], map.links[i]))'
  <2> SUFFICES ASSUME NEW i \in 1 .. Len(consulted') PROVE Reported(consulted[i], map.links[i])'
    OBVIOUS
  <2>1. Reported(consulted'[i], map.links[i])
    BY <1>7, <1>10
  <2>2. QED
    BY <1>1, <2>1 DEF Reported, EnvSays, MayRaise, ManualAnswer
<1>12. CASE r = NoOpinion /\ Len(rest) > 1
  <2>1. rest' = Tail(rest) /\ pc' = "asking"
    BY <1>1, <1>12
  <2>2. rest' \in Seq(Link) /\ Len(rest') = Len(rest) - 1 /\ \A i \in 1 .. Len(rest') : rest'[i] = rest[i + 1]
    BY <1>2, <1>12, <2>1, HeadTailProperties, EmptySeq
  <2>3. ASSUME NEW i \in 1 .. Len(rest') PROVE rest'[i] = map.links[(n + 1) + i]
    <3>1. rest'[i] = rest[i + 1] /\ i + 1 \in 1 .. Len(rest) /\ (n + 1) + i = n + (i + 1)
      BY <1>3, <2>2
    <3>2. QED
      BY <1>2, <3>1
  <2>4. \A i \in 1 .. n + 1 : consulted'[i].said = NoOpinion
    <3>1. c.said = NoOpinion
      BY <1>12
    <3> HIDE DEF n, c
    <3>2. QED
      BY <1>2, <1>7, <1>8, <3>1
  <2> HIDE DEF n, c
  <2>5. Len(rest') > 0 /\ (n + 1) + Len(rest') = Len(map.links) /\ n + 1 <= Len(map.links)
    BY <1>2, <1>3, <1>12, <2>2
  <2>6. LookupInv'
    BY <1>1, <1>2, <1>7, <1>11, <2>1, <2>2, <2>3, <2>4, <2>5 DEF LookupInv
  <2>7. QED
    BY <1>6, <2>6 DEF Inv
<1>13. CASE ~(r = NoOpinion /\ Len(rest) > 1)
  <2>1. pc' = "returned" /\ answer' = r
    BY <1>1, <1>13
  <2>2. r # NoOpinion
    <3> SUFFICES ASSUME r = NoOpinion PROVE FALSE
      OBVIOUS
    <3>1. Len(rest) = 1
      <4>1. ~(Len(rest) > 1)
        BY <1>13
      <4>2. Len(rest) \in Nat /\ Len(rest) > 0
        BY <1>2, <1>3
      <4> DEFINE m == Len(rest)
      <4> HIDE DEF m
      <4>3. m \in Nat /\ m > 0 /\ ~(m > 1)
        BY <4>1, <4>2, Zenon DEF m
      <4>4. m = 1
        BY <4>3
      <4>5. QED
        BY <4>4, Zenon DEF m
    <3>2. rest[1] = map.links[Len(map.links)]
      BY <1>2, <1>4, <3>1
    <3>3. rest[1].kind \in {"direct", "manual"}
      BY <3>2, LinksMade
    <3>4. QED
      BY <3>3 DEF Reported
  <2>3. \A i \in 1 .. n : consulted'[i].said = NoOpinion
    BY <1>2, <1>7
  <2>4. n + 1 <= Len(map.links) /\ (n + 1) - 1 = n
    BY <1>2, <1>3
  <2>5. consulted'[n + 1].said = r /\ consulted' # << >>
    BY <1>3, <1>7
  <2> HIDE DEF n, c
  <2>6. LookupInv'
    BY <1>1, <1>2, <1>7, <1>11, <2>1, <2>2, <2>3, <2>4, <2>5 DEF LookupInv
  <2>7. QED
    BY <1>6, <2>6 DEF Inv
<1>14. QED
  BY <1>12, <1>13

(* Every link's answer is a report of it.                                    *)
LEMMA Asking ==
    ASSUME Inv, pc = "asking"
    PROVE  rest[1] \in Link /\ options \in Options /\ settings \in AnySettings
<1>1. rest \in Seq(Link) /\ Len(rest) > 0
  BY DEF Inv, LookupInv
<1>2. 1 \in 1 .. Len(rest)
  BY <1>1, LenProperties
<1>3. QED
  BY <1>1, <1>2, ElementOfSeq DEF Inv, WorldInv

(* Reports of the links whose answers are anything.                          *)
LEMMA PlainReport ==
    ASSUME NEW l, NEW r, NEW s, l.kind \in {"dict", "deferred", "resolver"}, r = Error => MayRaise(l)
    PROVE  Reported([kind |-> l.kind, said |-> r, seen |-> s], l)
  BY DEF Reported

(* The dict of overrides answers or passes.                                  *)
LEMMA AskDictKeeps == Inv /\ AskDict => Inv'
<1> SUFFICES ASSUME Inv, AskDict PROVE Inv'
  OBVIOUS
<1> DEFINE key(scheme, host) == [scheme |-> scheme, host |-> host]
           found == Under(rest[1].proxies,
                      <<url, key(url.scheme, url.host.text), key(url.scheme, << >>),
                        key("all", url.host.text), key("all", << >>)>>)
<1>1. pc = "asking" /\ rest[1].kind = "dict"
  BY DEF AskDict, Asked
<1>2. Says(NoOpinion) \/ \E p \in found : Says(Answered(p))
  BY DEF AskDict
<1>3. \A p \in found : p \in Seq(Proxy)
  <2>1. \A e \in rest[1].proxies : e.proxy \in Seq(Proxy)
    BY <1>1, Asking, LinkHolds
  <2>2. QED
    BY <2>1 DEF Under
<1> HIDE DEF found
<1>4. CASE Says(NoOpinion)
  <2>1. NoOpinion \in Answers /\ NoOpinion # Error
    BY GoodAnswers
  <2>2. Reported([kind |-> rest[1].kind, said |-> NoOpinion, seen |-> settings], rest[1])
    BY <1>1, <2>1, PlainReport
  <2>3. QED
    BY <1>1, <1>4, <2>1, <2>2, SaysKeeps
<1>5. ASSUME NEW p \in found, Says(Answered(p)) PROVE Inv'
  <2>1. p \in Seq(Proxy \cup {"DIRECT"})
    BY <1>3, SeqMonotonic
  <2>2. Answered(p) \in Answers /\ Answered(p) # Error
    BY <2>1, GoodAnswers
  <2>3. Reported([kind |-> rest[1].kind, said |-> Answered(p), seen |-> settings], rest[1])
    BY <1>1, <2>2, PlainReport
  <2>4. QED
    BY <1>1, <1>5, <2>2, <2>3, SaysKeeps
<1>6. QED
  BY <1>2, <1>4, <1>5

(* The environment's link answers, passes or raises.                         *)
LEMMA AskEnvKeeps == Inv /\ AskEnv => Inv'
<1> SUFFICES ASSUME Inv, AskEnv PROVE Inv'
  OBVIOUS
<1> DEFINE l == rest[1]
           values == Under(l.proxies, <<url.scheme, Fallback(url.scheme), "all">>)
<1>1. pc = "asking" /\ l.kind = "env"
  BY DEF AskEnv, Asked
<1>2. \A v \in values : v \in Proxy \cup {"pac"} /\ \E e \in l.proxies : e.proxy = v
  <2>1. \A e \in l.proxies : e.proxy \in Proxy \cup {"pac"}
    BY <1>1, Asking, LinkHolds
  <2>2. QED
    BY <2>1 DEF Under
<1>3. IF url.host = NoHost THEN Says(Error)
      ELSE IF Matches(l.rules, url) THEN Says(Direct)
      ELSE IF values = {} THEN Says(NoOpinion)
      ELSE \E v \in values :
             IF v = "pac" THEN \E r \in PacResults : Says(IF r = Error THEN r ELSE ParsePacResult(r))
                          ELSE Says(<<v>>)
  BY DEF AskEnv
<1>4. ASSUME NEW r \in Answers, r \in EnvSays(l), r = Error => MayRaise(l), Says(r) PROVE Inv'
  <2>1. Reported([kind |-> l.kind, said |-> r, seen |-> settings], l)
    BY <1>1, <1>4 DEF Reported
  <2>2. QED
    BY <1>1, <1>4, <2>1, SaysKeeps
<1>5. CASE url.host = NoHost
  <2>1. Error \in Answers /\ Error \in EnvSays(l) /\ MayRaise(l)
    BY <1>1, <1>5, GoodAnswers DEF EnvSays, MayRaise
  <2>2. QED
    BY <1>3, <1>4, <1>5, <2>1
<1>6. CASE url.host # NoHost /\ Matches(l.rules, url)
  <2>1. Direct \in Answers /\ Direct \in EnvSays(l) /\ Direct # Error
    BY <1>6, GoodAnswers DEF EnvSays
  <2>2. QED
    BY <1>3, <1>4, <1>6, <2>1
<1>7. CASE url.host # NoHost /\ ~Matches(l.rules, url) /\ values = {}
  <2>1. NoOpinion \in Answers /\ NoOpinion \in EnvSays(l) /\ NoOpinion # Error
    BY <1>7, GoodAnswers DEF EnvSays
  <2>2. QED
    BY <1>3, <1>4, <1>7, <2>1
<1>8. CASE url.host # NoHost /\ ~Matches(l.rules, url) /\ values # {}
  <2>1. EnvSays(l) = UNION {IF v = "pac" THEN {IF r = Error THEN r ELSE ParsePacResult(r) : r \in PacResults}
                            ELSE {<<v>>} : v \in values}
    BY <1>8 DEF EnvSays
  <2>2. PICK v \in values :
           IF v = "pac" THEN \E r \in PacResults : Says(IF r = Error THEN r ELSE ParsePacResult(r))
                        ELSE Says(<<v>>)
    BY <1>3, <1>8
  <2> HIDE DEF l
  <2>3. CASE v = "pac"
    <3>1. PICK r \in PacResults : Says(IF r = Error THEN r ELSE ParsePacResult(r))
      BY <2>2, <2>3
    <3> DEFINE a == IF r = Error THEN r ELSE ParsePacResult(r)
    <3>2. a \in Answers
      BY ParsedIsGood, GoodAnswers
    <3>3. a \in EnvSays(l)
      BY <2>1, <2>2, <2>3
    <3>4. MayRaise(l)
      BY <1>1, <1>2, <2>2, <2>3 DEF MayRaise
    <3>5. QED
      BY <1>4, <3>1, <3>2, <3>3, <3>4
  <2>4. CASE v # "pac"
    <3>1. v \in Proxy
      BY <1>2, <2>2, <2>4
    <3>2. <<v>> \in Answers /\ <<v>> # Error
      BY <3>1, GoodAnswers
    <3>3. <<v>> \in EnvSays(l)
      BY <2>1, <2>2, <2>4
    <3>4. QED
      BY <1>4, <2>2, <2>4, <3>2, <3>3
  <2>5. QED
    BY <2>3, <2>4
<1>9. QED
  BY <1>5, <1>6, <1>7, <1>8

(* The link that goes direct answers.                                        *)
LEMMA AskDirectKeeps == Inv /\ AskDirect => Inv'
<1> SUFFICES ASSUME Inv, AskDirect PROVE Inv'
  OBVIOUS
<1>1. pc = "asking" /\ rest[1].kind = "direct" /\ Says(Direct)
  BY DEF AskDirect, Asked
<1>2. Direct \in Answers /\ Direct # NoOpinion /\ Direct # Error
  BY GoodAnswers
<1>3. Reported([kind |-> rest[1].kind, said |-> Direct, seen |-> settings], rest[1])
  BY <1>1, <1>2 DEF Reported
<1>4. QED
  BY <1>1, <1>2, <1>3, SaysKeeps

(* A deferred source answers, passes, or raises without an engine.           *)
LEMMA AskDeferredKeeps == Inv /\ AskDeferred => Inv'
<1> SUFFICES ASSUME Inv, AskDeferred PROVE Inv'
  OBVIOUS
<1>1. pc = "asking" /\ rest[1].kind = "deferred"
  BY DEF AskDeferred, Asked
<1>2. PICK r \in PacResults :
         Says(IF r = Error THEN NoOpinion ELSE IF options.engine THEN ParsePacResult(r) ELSE Error)
  BY DEF AskDeferred
<1>3. ASSUME NEW a \in Answers, a = Error => ~options.engine, Says(a) PROVE Inv'
  <2>1. Reported([kind |-> rest[1].kind, said |-> a, seen |-> settings], rest[1])
    BY <1>1, <1>3, PlainReport DEF MayRaise
  <2>2. QED
    BY <1>1, <1>3, <2>1, SaysKeeps
<1>4. CASE r = Error
  BY <1>2, <1>3, <1>4, GoodAnswers
<1>5. CASE r # Error /\ options.engine
  <2>1. ParsePacResult(r) \in Answers /\ ParsePacResult(r) # Error
    BY <1>5, ParsedIsGood, GoodAnswers
  <2>2. QED
    BY <1>2, <1>3, <1>5, <2>1
<1>6. CASE r # Error /\ ~options.engine
  BY <1>2, <1>3, <1>6, GoodAnswers
<1>7. QED
  BY <1>4, <1>5, <1>6

(* The manual map answers.                                                   *)
LEMMA AskManualKeeps == Inv /\ AskManual => Inv'
<1> SUFFICES ASSUME Inv, AskManual PROVE Inv'
  OBVIOUS
<1>1. pc = "asking" /\ rest[1].kind = "manual" /\ Says(ManualAnswer(rest[1].proxies, rest[1].rules))
  BY DEF AskManual, Asked
<1>2. ManualAnswer(rest[1].proxies, rest[1].rules) \in Good
  <2>1. \A e \in rest[1].proxies : e.proxy \in Proxy
    BY <1>1, Asking, LinkHolds
  <2>2. QED
    BY <2>1, ManualIsGood
<1>3. PICK r : r = ManualAnswer(rest[1].proxies, rest[1].rules) /\ Says(r)
  BY <1>1, Zenon
<1>4. r \in Answers /\ r # NoOpinion /\ r # Error
  BY <1>2, <1>3, GoodAnswers
<1>5. Reported([kind |-> rest[1].kind, said |-> r, seen |-> settings], rest[1])
  BY <1>1, <1>3, <1>4 DEF Reported
<1>6. QED
  BY <1>1, <1>3, <1>4, <1>5, SaysKeeps

(* The OS's resolver answers, passes or raises.                              *)
LEMMA AskResolverKeeps == Inv /\ AskResolver => Inv'
<1> SUFFICES ASSUME Inv, AskResolver PROVE Inv'
  OBVIOUS
<1>1. pc = "asking" /\ rest[1].kind = "resolver"
  BY DEF AskResolver, Asked
<1>2. PICK r \in {NoOpinion, <<"r">>, Direct, Error} : Says(r)
  BY DEF AskResolver
<1>3. r \in Answers
  BY GoodAnswers
<1>4. Reported([kind |-> rest[1].kind, said |-> r, seen |-> settings], rest[1])
  BY <1>1, PlainReport DEF MayRaise
<1>5. QED
  BY <1>1, <1>2, <1>3, <1>4, SaysKeeps

(* WinHTTP reads the settings anew and answers, passes or raises.            *)
LEMMA AskWinHttpKeeps == Inv /\ AskWinHttp => Inv'
<1> SUFFICES ASSUME Inv, AskWinHttp PROVE Inv'
  OBVIOUS
<1> DEFINE config == SystemConfig(settings)
           manual == ManualAnswer(config.proxies, config.rules)
<1>1. pc = "asking" /\ rest[1].kind = "winhttp"
  BY DEF AskWinHttp, Asked
<1>2. IF ~options.session THEN Says(NoOpinion)
      ELSE \/ /\ config.detect \/ config.pac
              /\ \E list \in WinHttpLists : Says(ResolveForScheme(list))
           \/ Says(manual)
  BY DEF AskWinHttp
<1>3. manual \in Good
  <2> DEFINE link == ManualLink(config)
  <2>1. link \in Link
    BY Asking, <1>1 DEF Link
  <2>2. CASE config.proxies = {}
    BY <2>2, ManualIsGood
  <2>3. CASE config.proxies # {}
    <3>1. link.kind = "manual" /\ link.proxies = config.proxies
      BY <2>3 DEF ManualLink
    <3>2. \A e \in config.proxies : e.proxy \in Proxy
      BY <2>1, <3>1, LinkHolds
    <3>3. QED
      BY <3>2, ManualIsGood
  <2>4. QED
    BY <2>2, <2>3
<1> HIDE DEF manual
<1>4. ASSUME NEW r \in Answers, Says(r),
             options.session /\ ~(config.detect \/ config.pac) => r = manual
      PROVE  Inv'
  <2>1. Reported([kind |-> rest[1].kind, said |-> r, seen |-> settings], rest[1])
    BY <1>1, <1>4 DEF Reported, MayRaise, manual
  <2>2. QED
    BY <1>1, <1>4, <2>1, SaysKeeps
<1>5. CASE ~options.session
  BY <1>2, <1>4, <1>5, GoodAnswers
<1>6. CASE options.session /\ Says(manual)
  <2>1. PICK r : r = manual /\ Says(r)
    BY <1>6, Zenon
  <2>2. r \in Answers
    BY <1>3, <2>1, GoodAnswers
  <2>3. QED
    BY <1>4, <2>1, <2>2
<1>7. ASSUME config.detect \/ config.pac, NEW list \in WinHttpLists, Says(ResolveForScheme(list))
      PROVE  Inv'
  <2>1. PICK r : r = ResolveForScheme(list) /\ Says(r)
    BY <1>7, Zenon
  <2>2. r \in Answers
    BY <2>1, ResolvedIsAnswer
  <2>3. QED
    BY <1>4, <1>7, <2>1, <2>2
<1>8. QED
  BY <1>2, <1>5, <1>6, <1>7

-----------------------------------------------------------------------------
(* Nothing is made or asked at first.                                        *)
LEMMA InitInv == Init => Inv
<1> SUFFICES ASSUME Init PROVE Inv
  OBVIOUS
<1>1. WorldInv
  BY DEF Init, WorldInv, AnyEnviron, AnySettings
<1>2. MapInv
  BY DEF Init, MapInv
<1>3. LookupInv
  BY DEF Init, LookupInv
<1>4. QED
  BY <1>1, <1>2, <1>3 DEF Inv

(* What was decided is remembered.                                           *)
LEMMA DecideKeeps == Inv /\ Decide => Inv'
<1> SUFFICES ASSUME Inv, Decide PROVE Inv'
  OBVIOUS
<1>1. WorldInv'
  BY DEF Decide, Inv, WorldInv
<1>2. MapInv'
  BY DEF Decide, Inv, MapInv
<1>3. LookupInv'
  BY DEF Decide, Inv, LookupInv
<1>4. QED
  BY <1>1, <1>2, <1>3 DEF Inv

(* The map is made of what it was read from.                                 *)
LEMMA MakeKeeps == Inv /\ Make => Inv'
<1> SUFFICES ASSUME Inv, Make PROVE Inv'
  OBVIOUS
<1>1. /\ pc \in {"environment", "system"} /\ pc' = "idle"
      /\ made' = [made EXCEPT !.environ = environ, !.settings = settings]
      /\ UNCHANGED <<environ, settings, options, url, rest, consulted, answer>>
  BY DEF Make
<1>2. made' = [decided |-> made.decided, environ |-> environ, settings |-> settings]
  BY <1>1 DEF Inv, WorldInv
<1>3. WorldInv'
  BY <1>1, <1>2 DEF Inv, WorldInv
<1>4. Links = OthersOf(options, made')
  <2>1. CASE pc = "environment"
    BY <1>2, <2>1 DEF Links, OthersOf, EnvPart, Inv, MapInv
  <2>2. CASE pc = "system"
    BY <1>2, <2>2 DEF Links, OthersOf, SystemLinks, SystemPart, OsPart, Inv, MapInv
  <2>3. QED
    BY <1>1, <2>1, <2>2
<1>5. map' = [rules |-> RulesOf(options), links |-> DictPart(options) \o Links]
  BY DEF Make, RulesOf, DictPart
<1>6. LinksOf(options, made') = DictPart(options) \o Links
  BY <1>4 DEF LinksOf, OthersOf
<1>7. MapInv'
  BY <1>1, <1>5, <1>6 DEF MapInv, LinksOf, RulesOf, DictPart
<1>8. LookupInv'
  BY <1>1 DEF Inv, LookupInv
<1>9. QED
  BY <1>3, <1>7, <1>8 DEF Inv

(* A lookup begins with every link, or ends at once.                         *)
LEMMA BeginKeeps == Inv /\ Begin => Inv'
<1> SUFFICES ASSUME Inv, Begin PROVE Inv'
  OBVIOUS
<1>1. /\ pc = "idle" /\ url' \in Urls
      /\ UNCHANGED <<environ, settings, options, map, made, consulted>>
  BY DEF Begin
<1>2. consulted = << >> /\ consulted \in Seq(Report)
  BY <1>1 DEF Inv, LookupInv
<1>3. map.links \in Seq(Link) /\ Len(map.links) > 0
  BY <1>1, LinksMade
<1>4. Len(map.links) \in Nat
  BY <1>3, LenProperties
<1>5. CASE Matches(map.rules, url')
  <2>1. pc' = "returned" /\ answer' = Direct
    BY <1>5 DEF Begin
  <2>2. WorldInv' /\ MapInv'
    BY <1>1, <2>1 DEF Inv, WorldInv, MapInv
  <2>3. LookupInv'
    BY <1>1, <1>2, <1>3, <1>4, <1>5, <2>1 DEF LookupInv
  <2>4. QED
    BY <2>2, <2>3 DEF Inv
<1>6. CASE ~Matches(map.rules, url')
  <2>1. pc' = "asking" /\ rest' = map.links
    BY <1>6 DEF Begin
  <2>2. WorldInv' /\ MapInv'
    BY <1>1, <2>1 DEF Inv, WorldInv, MapInv
  <2>3. Len(consulted) = 0
    BY <1>2
  <2>4. LookupInv'
    BY <1>1, <1>2, <1>3, <1>4, <1>6, <2>1, <2>3 DEF LookupInv
  <2>5. QED
    BY <2>2, <2>4 DEF Inv
<1>7. QED
  BY <1>5, <1>6

(* Nothing is left of a lookup.                                              *)
LEMMA ReturnKeeps == Inv /\ Return => Inv'
<1> SUFFICES ASSUME Inv, Return PROVE Inv'
  OBVIOUS
<1>1. WorldInv' /\ MapInv'
  BY DEF Return, Inv, WorldInv, MapInv
<1>2. LookupInv'
  BY DEF Return, LookupInv
<1>3. QED
  BY <1>1, <1>2 DEF Inv

(* The world changes beside the map, and a lookup goes on as it was.         *)
LEMMA WorldKeeps ==
    ASSUME Inv, environ' \in AnyEnviron, settings' \in AnySettings,
           environ' = environ \/ pc # "unmade",
           UNCHANGED <<options, url, map, made, rest, consulted, pc, answer>>
    PROVE  Inv'
<1>1. WorldInv' /\ MapInv'
  BY DEF Inv, WorldInv, MapInv
<1>2. ASSUME NEW i, Reported(consulted[i], map.links[i]) PROVE Reported(consulted[i], map.links[i])'
  BY <1>2 DEF Reported, EnvSays, MayRaise, ManualAnswer
<1>3. LookupInv'
  BY <1>2 DEF Inv, LookupInv
<1>4. QED
  BY <1>1, <1>3 DEF Inv

(* Every step keeps the invariant.                                           *)
LEMMA NextKeeps == Inv /\ [Next]_vars => Inv'
<1> SUFFICES ASSUME Inv, [Next]_vars PROVE Inv'
  OBVIOUS
<1>1. environ \in AnyEnviron /\ settings \in AnySettings
  BY DEF Inv, WorldInv
<1>2. CASE Decide \/ Make \/ Begin \/ Return
  BY <1>2, DecideKeeps, MakeKeeps, BeginKeeps, ReturnKeeps
<1>3. CASE AskDict \/ AskEnv \/ AskDirect \/ AskDeferred \/ AskManual \/ AskWinHttp \/ AskResolver
  BY <1>3, AskDictKeeps, AskEnvKeeps, AskDirectKeeps, AskDeferredKeeps, AskManualKeeps,
     AskWinHttpKeeps, AskResolverKeeps
<1>4. CASE EnvironmentChanges
  BY <1>1, <1>4, WorldKeeps DEF EnvironmentChanges, AnyEnviron
<1>5. CASE SettingsChange
  BY <1>1, <1>5, WorldKeeps DEF SettingsChange, AnySettings
<1>6. CASE UNCHANGED vars
  BY <1>1, <1>6, WorldKeeps DEF vars
<1>7. QED
  BY <1>2, <1>3, <1>4, <1>5, <1>6 DEF Next

(* The invariant of auto_proxy: the map's links are those of the sources     *)
(* chosen when it was made, and a lookup has asked the first of them, in     *)
(* order, each of which passed but the last; each said what its own state    *)
(* lets it say.                                                              *)
THEOREM AutoProxyInvariant == Spec => []Inv
  BY InitInv, NextKeeps, PTL DEF Spec

-----------------------------------------------------------------------------
(* No lookup ends with KeyError or with no entry, and it raises only where   *)
(* the code lets it: the chain ends with a link that always answers.         *)
THEOREM AnswersAll == Spec => []AnswersEveryUrl
<1>1. Inv => AnswersEveryUrl
  <2> SUFFICES ASSUME Inv, pc = "returned"
               PROVE  /\ answer # NoOpinion /\ answer # << >> /\ "unknown" \notin Range(answer)
                      /\ answer = Error =>
                           \/ Last(consulted).kind = "env"
                                /\ (url.host = NoHost \/ \E e \in map.links[Len(consulted)].proxies : e.proxy = "pac")
                           \/ Last(consulted).kind \in {"winhttp", "resolver"}
                           \/ ~options.engine
    BY DEF AnswersEveryUrl
  <2>1. answer \in Answers => answer # << >> /\ "unknown" \notin Range(answer)
    <3> SUFFICES ASSUME answer \in Answers PROVE answer # << >> /\ "unknown" \notin Range(answer)
      OBVIOUS
    <3> DEFINE Q == Proxy \cup {"DIRECT", "r", "KeyError", "error"}
    <3>1. answer \in Seq(Q) /\ answer # << >>
      BY DEF Answers
    <3>2. "unknown" \notin Q
      BY NamesAssumption
    <3> HIDE DEF Q
    <3>3. \A i \in DOMAIN answer : answer[i] \in Q
      BY <3>1, LenProperties, ElementOfSeq
    <3>4. QED
      BY <3>1, <3>2, <3>3 DEF Range
  <2>2. CASE consulted = << >>
    <3>1. answer = Direct
      BY <2>2 DEF Inv, LookupInv
    <3>2. QED
      BY <2>1, <3>1, GoodAnswers
  <2>3. CASE consulted # << >>
    <3> DEFINE n == Len(consulted)
               c == consulted[n]
    <3>1. /\ consulted \in Seq(Report) /\ answer = c.said /\ answer # NoOpinion
          /\ \A i \in 1 .. n : Reported(consulted[i], map.links[i])
      BY <2>3 DEF Inv, LookupInv
    <3>2. n \in 1 .. n
      BY <2>3, <3>1, EmptySeq
    <3>3. c \in Report /\ Last(consulted) = c
      BY <3>1, <3>2, ElementOfSeq DEF Last
    <3>4. answer \in Answers
      BY <3>1, <3>3 DEF Report
    <3>5. Reported(c, map.links[n])
      BY <3>1, <3>2
    <3> HIDE DEF n, c
    <3>6. answer = Error => MayRaise(map.links[n]) /\ c.kind = map.links[n].kind
      BY <3>1, <3>5 DEF Reported
    <3>7. QED
      BY <2>1, <3>1, <3>3, <3>4, <3>6 DEF MayRaise, n
  <2>4. QED
    BY <2>2, <2>3
<1>2. QED
  BY <1>1, AutoProxyInvariant, PTL

-----------------------------------------------------------------------------
(* What the environment's link says of a URL is what its variables mean.     *)
(* The lists of the program, of the environment and of the settings are read. *)
LEMMA ListsAreRead ==
    ASSUME NEW u \in Urls
    PROVE  /\ \A env \in AnyEnviron :
                LET list == EnvValue(env, "no_proxy", << >>)
                IN Matches(Parse(list, "no_proxy", FALSE), u) <=> Listed(list, "no_proxy", FALSE, u)
           /\ \A s \in AnySettings :
                Matches(Parse(s.bypass, s.dialect, s.reversed), u)
                  <=> Listed(s.bypass, s.dialect, s.reversed, u)
           /\ \A o \in Options : \A l \in o.noProxy :
                Matches(Parse(l, "no_proxy", FALSE), u) <=> Listed(l, "no_proxy", FALSE, u)
<1>1. u.host.text \in Texts /\ u.host.address \in Seq(Nat)
  BY ListsAssumption DEF Texts
<1>2. ASSUME NEW env \in AnyEnviron PROVE EnvValue(env, "no_proxy", << >>) \in Seq(Entries)
  <2>1. /\ Len(env.vars) \in Nat /\ DOMAIN env.vars = 1 .. Len(env.vars)
        /\ \A i \in 1 .. Len(env.vars) : env.vars[i].key = "no_proxy" => env.vars[i].value \in Seq(Entries)
    BY WorldAssumption, ListsAssumption DEF AnyEnviron
  <2> DEFINE n == Len(env.vars)
             named == {i \in 1 .. n : /\ env.vars[i].key = "no_proxy"
                                      /\ env.vars[i].lower \/ ~(env.cgi /\ "no_proxy" = "http")}
             lower == {i \in named : env.vars[i].lower}
             chosen == IF lower # {} THEN lower ELSE named
  <2>2. EnvValue(env, "no_proxy", << >>) = IF named = {} THEN << >> ELSE env.vars[Max(chosen)].value
    BY <2>1 DEF EnvValue
  <2>3. << >> \in Seq(Entries)
    BY EmptySeq
  <2>4. ASSUME named # {} PROVE env.vars[Max(chosen)].value \in Seq(Entries)
    <3>1. chosen \in SUBSET (1 .. n) /\ chosen # {} /\ chosen \subseteq named
      BY <2>4
    <3> HIDE DEF chosen
    <3>2. Max(chosen) \in chosen
      BY <2>1, <3>1, Extremes
    <3>3. QED
      BY <2>1, <3>1, <3>2
  <2> HIDE DEF named, chosen
  <2>5. QED
    BY <2>2, <2>3, <2>4
<1>3. \A env \in AnyEnviron :
        LET list == EnvValue(env, "no_proxy", << >>)
        IN Matches(Parse(list, "no_proxy", FALSE), u) <=> Listed(list, "no_proxy", FALSE, u)
  BY <1>1, <1>2, ListsMeanWhatTheySay
<1>4. \A s \in AnySettings :
        Matches(Parse(s.bypass, s.dialect, s.reversed), u)
          <=> Listed(s.bypass, s.dialect, s.reversed, u)
  BY <1>1, ListsMeanWhatTheySay, ListsAssumption DEF AnySettings
<1>5. \A o \in Options : \A l \in o.noProxy :
        Matches(Parse(l, "no_proxy", FALSE), u) <=> Listed(l, "no_proxy", FALSE, u)
  BY <1>1, ListsMeanWhatTheySay, ListsAssumption
<1>6. QED
  BY <1>3, <1>4, <1>5

(* What the names and the values of an environment are.                      *)
LEMMA EnvAssumed ==
    ASSUME NEW env \in AnyEnviron
    PROVE  /\ Len(env.vars) \in Nat /\ DOMAIN env.vars = 1 .. Len(env.vars)
           /\ \A i \in 1 .. Len(env.vars) : env.vars[i].lower \in BOOLEAN
  BY WorldAssumption DEF AnyEnviron

(* The latest turn that reads a key reads its value, and a variable that     *)
(* counts has its turn.                                                      *)
NamedVars(env, key) ==
    {i \in DOMAIN env.vars :
        env.vars[i].key = key /\ (env.vars[i].lower \/ ~(env.cgi /\ key = "http"))}

(* A variable's value by the places that name it.                            *)
LEMMA EnvValueIs ==
    ASSUME NEW env, NEW key, NEW default
    PROVE  EnvValue(env, key, default) =
             LET named == NamedVars(env, key)
                 lower == {i \in named : env.vars[i].lower}
             IN IF named = {} THEN default ELSE env.vars[Max(IF lower # {} THEN lower ELSE named)].value
  BY DEF EnvValue, NamedVars

(* A variable that counts has its turn.                                      *)
LEMMA TurnOf ==
    ASSUME NEW env \in AnyEnviron, NEW key, NEW i \in NamedVars(env, key)
    PROVE  LET n == IF env.vars[i].lower THEN i + Len(env.vars) ELSE i
           IN n \in Turns(env, key, 2 * Len(env.vars)) /\ Seen(env, n) = env.vars[i]
<1> DEFINE L == Len(env.vars)
           n == IF env.vars[i].lower THEN i + L ELSE i
<1>1. L \in Nat /\ i \in 1 .. L /\ env.vars[i].lower \in BOOLEAN
  BY EnvAssumed DEF NamedVars
<1>2. env.vars[i].key = key /\ (env.vars[i].lower \/ ~(env.cgi /\ key = "http"))
  BY DEF NamedVars
<1>3. n \in 1 .. 2 * L /\ (n > L <=> env.vars[i].lower) /\ (IF n <= L THEN n ELSE n - L) = i
  <2> HIDE DEF L
  <2>1. QED
    BY <1>1
<1>4. Seen(env, n) = env.vars[i]
  BY <1>3 DEF Seen
<1> HIDE DEF n, L
<1>5. env.vars[i].lower = (n > L)
  BY <1>1, <1>3
<1>6. Counts(env, n)
  BY <1>2, <1>4, <1>5 DEF Counts, L
<1>7. QED
  BY <1>2, <1>3, <1>4, <1>6 DEF Turns, n, L

(* A turn that counts is a variable that does.                               *)
LEMMA OfTurn ==
    ASSUME NEW env \in AnyEnviron, NEW key, NEW n \in Turns(env, key, 2 * Len(env.vars))
    PROVE  LET i == IF n <= Len(env.vars) THEN n ELSE n - Len(env.vars)
           IN /\ i \in NamedVars(env, key) /\ Seen(env, n) = env.vars[i]
              /\ (env.vars[i].lower <=> n > Len(env.vars))
<1> DEFINE L == Len(env.vars)
           i == IF n <= L THEN n ELSE n - L
<1>1. n \in 1 .. 2 * L /\ Counts(env, n) /\ Seen(env, n).key = key
  BY DEF Turns
<1>2. i \in 1 .. L /\ i \in DOMAIN env.vars
  <2>1. L \in Nat /\ DOMAIN env.vars = 1 .. L
    BY EnvAssumed
  <2> HIDE DEF L
  <2>2. i \in 1 .. L
    BY <1>1, <2>1
  <2>3. QED
    BY <2>1, <2>2
<1>3. Seen(env, n) = env.vars[i]
  BY DEF Seen
<1> HIDE DEF i, L
<1>4. env.vars[i].lower = (n > L) /\ (env.vars[i].lower \/ ~(env.cgi /\ key = "http")) /\ env.vars[i].key = key
  BY <1>1, <1>3 DEF Counts, L
<1>5. i \in NamedVars(env, key)
  BY <1>2, <1>4 DEF NamedVars
<1>6. QED
  BY <1>3, <1>4, <1>5 DEF i, L

(* The latest turn that reads a key reads its value.                         *)
LEMMA LatestIsValue ==
    ASSUME NEW env \in AnyEnviron, NEW key, NEW default, NEW n,
           Latest(env, key, 2 * Len(env.vars), n)
    PROVE  EnvValue(env, key, default) = Seen(env, n).value /\ NamedVars(env, key) # {}
<1> DEFINE L == Len(env.vars)
           named == NamedVars(env, key)
           lower == {j \in named : env.vars[j].lower}
           i == IF n <= L THEN n ELSE n - L
           S == IF lower # {} THEN lower ELSE named
<1>1. n \in Turns(env, key, 2 * L) /\ \A k \in Turns(env, key, 2 * L) : k <= n
  BY DEF Latest
<1>2. n \in 1 .. 2 * L /\ L \in Nat /\ named \subseteq 1 .. L
  BY <1>1, EnvAssumed DEF Turns, NamedVars
<1>3. i \in named /\ Seen(env, n) = env.vars[i] /\ (env.vars[i].lower <=> n > L)
  BY <1>1, OfTurn
<1>4. ASSUME NEW j \in named PROVE (IF env.vars[j].lower THEN j + L ELSE j) <= n
  BY <1>1, TurnOf
<1> HIDE DEF L, named
<1>5. CASE n > L
  <2>1. i = n - L /\ i \in lower
    BY <1>2, <1>3, <1>5
  <2>2. \A j \in lower : j <= i
    BY <1>2, <1>4, <2>1
  <2>3. lower \subseteq Int /\ S = lower
    <3>1. lower # {} /\ lower \subseteq named
      BY <2>1
    <3>2. \A j \in 1 .. L : j \in Int
      BY <1>2
    <3> HIDE DEF lower
    <3>3. QED
      BY <1>2, <3>1, <3>2
  <2> HIDE DEF i, lower, S
  <2>4. Max(S) = i
    BY <2>1, <2>2, <2>3, MaxIs
  <2>5. QED
    BY <1>3, <2>4, EnvValueIs DEF S, lower, named
<1>6. CASE ~(n > L)
  <2>1. i = n /\ ~env.vars[i].lower
    BY <1>2, <1>3, <1>6
  <2>2. lower = {}
    <3> SUFFICES ASSUME NEW j \in named, env.vars[j].lower PROVE FALSE
      OBVIOUS
    <3>1. j + L <= n /\ j \in 1 .. L
      BY <1>2, <1>4
    <3>2. QED
      BY <1>2, <1>6, <3>1
  <2>3. \A j \in named : j <= i
    BY <1>4, <2>1, <2>2
  <2>4. named \subseteq Int /\ S = named
    BY <1>2, <2>2
  <2> HIDE DEF i, lower, S
  <2>5. Max(S) = i
    BY <1>3, <2>3, <2>4, MaxIs
  <2>6. QED
    BY <1>3, <2>5, EnvValueIs DEF S, lower, named
<1>7. QED
  BY <1>5, <1>6

(* A key that no turn reads has no value.                                    *)
LEMMA NoTurnNoValue ==
    ASSUME NEW env \in AnyEnviron, NEW key, NEW default, Turns(env, key, 2 * Len(env.vars)) = {}
    PROVE  EnvValue(env, key, default) = default
<1>1. NamedVars(env, key) = {}
  BY TurnOf
<1>2. QED
  BY <1>1, EnvValueIs

(* The environment's link holds the variables' values, and reads its list.   *)
LEMMA EnvLinkMeans ==
    ASSUME NEW env \in AnyEnviron
    PROVE  /\ \A e \in EnvLink(env).proxies :
                /\ e.key # "no_proxy" /\ e.proxy = EnvValue(env, e.key, "") /\ e.proxy # ""
                /\ NamedVars(env, e.key) # {}
           /\ \A key : key # "no_proxy" /\ EnvValue(env, key, "") # "" => HasKey(EnvLink(env).proxies, key)
           /\ EnvLink(env).rules = Parse(EnvValue(env, "no_proxy", << >>), "no_proxy", FALSE)
<1> DEFINE seen == ReadEnv(env)
           m == 2 * Len(env.vars)
<1>1. SaysTheLatest(env, seen, m)
  BY EnvAssumed, ReadEnvSays
<1>2. EnvLink(env).proxies = {e \in seen.proxies : e.proxy # ""}
      /\ EnvLink(env).rules = Parse(seen.noProxy, "no_proxy", FALSE)
  BY DEF EnvLink, Configured
<1> HIDE DEF seen, m
<1>3. ASSUME NEW e \in seen.proxies
      PROVE  e.key # "no_proxy" /\ e.proxy = EnvValue(env, e.key, "") /\ NamedVars(env, e.key) # {}
  <2>1. PICK n \in 1 .. m : Latest(env, e.key, m, n) /\ e.proxy = Seen(env, n).value
    BY <1>1 DEF SaysTheLatest
  <2>2. e.key # "no_proxy"
    BY <1>1 DEF SaysTheLatest
  <2>3. QED
    BY <2>1, <2>2, LatestIsValue DEF m
<1>4. ASSUME NEW key, key # "no_proxy", EnvValue(env, key, "") # ""
      PROVE  HasKey(EnvLink(env).proxies, key)
  <2>1. PICK n : n \in Turns(env, key, m)
    BY <1>4, NoTurnNoValue DEF m
  <2>2. n \in 1 .. m /\ Counts(env, n) /\ Seen(env, n).key = key
    BY <2>1 DEF Turns
  <2>3. HasKey(seen.proxies, key)
    BY <1>1, <1>4, <2>2 DEF SaysTheLatest
  <2>4. PICK e \in seen.proxies : e.key = key
    BY <2>3 DEF HasKey
  <2>5. e.proxy # ""
    BY <1>3, <1>4, <2>4
  <2>6. QED
    BY <1>2, <2>4, <2>5 DEF HasKey
<1>5. seen.noProxy = EnvValue(env, "no_proxy", << >>)
  <2>1. CASE Turns(env, "no_proxy", m) = {}
    BY <1>1, <2>1, NoTurnNoValue DEF SaysTheLatest, m
  <2>2. CASE Turns(env, "no_proxy", m) # {}
    <3>1. PICK n \in 1 .. m : Latest(env, "no_proxy", m, n) /\ seen.noProxy = Seen(env, n).value
      BY <1>1, <2>2 DEF SaysTheLatest
    <3>2. QED
      BY <3>1, LatestIsValue DEF m
  <2>3. QED
    BY <2>1, <2>2
<1>6. QED
  BY <1>2, <1>3, <1>4, <1>5

(* What a mapping holds under three keys.                                    *)
Holds(proxies, k, v) ==
    (\A e \in proxies : e.key = k => e.proxy = v) /\ (HasKey(proxies, k) <=> v # "")
FirstSet(a, b, c) == IF a # "" THEN a ELSE IF b # "" THEN b ELSE c

UnderIs(proxies, k1, k2, k3, v1, v2, v3) ==
    Under(proxies, <<k1, k2, k3>>) =
      IF FirstSet(v1, v2, v3) = "" THEN {} ELSE {FirstSet(v1, v2, v3)}

(* The first of three keys that has a value.                                 *)
LEMMA UnderThree ==
    ASSUME NEW proxies, NEW k1, NEW k2, NEW k3, NEW v1, NEW v2, NEW v3,
           Holds(proxies, k1, v1), Holds(proxies, k2, v2), Holds(proxies, k3, v3)
    PROVE  UnderIs(proxies, k1, k2, k3, v1, v2, v3)
<1> DEFINE keys == <<k1, k2, k3>>
           found == {f \in proxies : \E i \in DOMAIN keys :
                       f.key = keys[i] /\ \A j \in 1 .. i - 1 : ~HasKey(proxies, keys[j])}
<1>1. Under(proxies, keys) = {e.proxy : e \in found}
  BY DEF Under
<1>2. \A f \in proxies : f \in found <=>
        \/ f.key = k1
        \/ f.key = k2 /\ ~HasKey(proxies, k1)
        \/ f.key = k3 /\ ~HasKey(proxies, k1) /\ ~HasKey(proxies, k2)
  <2> TAKE f \in proxies
  <2>1. DOMAIN keys = 1 .. 3 /\ keys[1] = k1 /\ keys[2] = k2 /\ keys[3] = k3
    OBVIOUS
  <2>2. (\A i \in 1 .. 3 : i = 1 \/ i = 2 \/ i = 3) /\ 1 \in 1 .. 3 /\ 2 \in 1 .. 3 /\ 3 \in 1 .. 3
    OBVIOUS
  <2>3. /\ \A j \in 1 .. 1 - 1 : FALSE
        /\ \A j \in 1 .. 2 - 1 : j = 1
        /\ \A j \in 1 .. 3 - 1 : j = 1 \/ j = 2
        /\ 1 \in 1 .. 2 - 1 /\ 1 \in 1 .. 3 - 1 /\ 2 \in 1 .. 3 - 1
    OBVIOUS
  <2> HIDE DEF keys
  <2> DEFINE P(i) == f.key = keys[i] /\ \A j \in 1 .. i - 1 : ~HasKey(proxies, keys[j])
  <2>4. f \in found <=> \E i \in 1 .. 3 : P(i)
    BY <2>1
  <2>5. /\ P(1) <=> f.key = k1
        /\ P(2) <=> f.key = k2 /\ ~HasKey(proxies, k1)
        /\ P(3) <=> f.key = k3 /\ ~HasKey(proxies, k1) /\ ~HasKey(proxies, k2)
    BY <2>1, <2>3
  <2> HIDE DEF P
  <2>6. f \in found <=> P(1) \/ P(2) \/ P(3)
    BY <2>2, <2>4
  <2>7. QED
    BY <2>5, <2>6
<1> HIDE DEF found
<1>3. found \subseteq proxies
  BY DEF found
<1>4. \A k : HasKey(proxies, k) <=> \E e \in proxies : e.key = k
  BY DEF HasKey
<1>5. ASSUME NEW k, NEW v, v # "", Holds(proxies, k, v), \A f \in proxies : f \in found <=> f.key = k
      PROVE  Under(proxies, keys) = {v}
  <2>1. PICK e \in proxies : e.key = k
    BY <1>4, <1>5 DEF Holds
  <2>2. e \in found /\ e.proxy = v
    BY <1>5, <2>1 DEF Holds
  <2>3. \A f \in found : f.proxy = v
    BY <1>3, <1>5 DEF Holds
  <2>4. QED
    BY <1>1, <2>2, <2>3
<1> HIDE DEF keys
<1>6. CASE v1 # ""
  <2>1. \A f \in proxies : f \in found <=> f.key = k1
    BY <1>2, <1>4, <1>6 DEF Holds
  <2>2. Under(proxies, keys) = {v1}
    BY <1>5, <1>6, <2>1
  <2>3. QED
    BY <1>6, <2>2 DEF UnderIs, FirstSet, keys
<1>7. CASE v1 = "" /\ v2 # ""
  <2>1. \A f \in proxies : f \in found <=> f.key = k2
    BY <1>2, <1>4, <1>7 DEF Holds
  <2>2. Under(proxies, keys) = {v2}
    BY <1>5, <1>7, <2>1
  <2>3. QED
    BY <1>7, <2>2 DEF UnderIs, FirstSet, keys
<1>8. CASE v1 = "" /\ v2 = "" /\ v3 # ""
  <2>1. \A f \in proxies : f \in found <=> f.key = k3
    BY <1>2, <1>4, <1>8 DEF Holds
  <2>2. Under(proxies, keys) = {v3}
    BY <1>5, <1>8, <2>1
  <2>3. QED
    BY <1>8, <2>2 DEF UnderIs, FirstSet, keys
<1>9. CASE v1 = "" /\ v2 = "" /\ v3 = ""
  <2>1. found = {}
    BY <1>2, <1>3, <1>4, <1>9 DEF Holds
  <2>2. Under(proxies, keys) = {}
    BY <1>1, <2>1
  <2>3. QED
    BY <1>9, <2>2 DEF UnderIs, FirstSet, keys
<1>10. QED
  BY <1>6, <1>7, <1>8, <1>9

-----------------------------------------------------------------------------
(* The links asked after the dict, when a lookup has returned.               *)
LEMMA AsksAre ==
    ASSUME Inv, pc = "returned", Asks # << >>
    PROVE  LET p == OthersOf(options, made)
           IN /\ Len(Asks) \in Nat /\ DOMAIN Asks = 1 .. Len(Asks) /\ Len(Asks) > 0
              /\ Len(Asks) <= Len(p)
              /\ \A i \in 1 .. Len(Asks) : Reported(Asks[i], p[i]) /\ Asks[i] \in Report
              /\ \A i \in 1 .. Len(Asks) - 1 : Asks[i].said = NoOpinion
              /\ answer = Asks[Len(Asks)].said /\ answer # NoOpinion
              /\ url \in Urls /\ ~Matches(map.rules, url)
<1> DEFINE p == OthersOf(options, made)
           d == Before(options)
           n == Len(consulted)
<1>1. /\ options \in Options /\ made.environ \in AnyEnviron /\ made.settings \in AnySettings
      /\ consulted \in Seq(Report) /\ url \in Urls /\ n <= Len(map.links)
      /\ \A i \in 1 .. n : Reported(consulted[i], map.links[i])
  BY DEF Inv, WorldInv, LookupInv
<1>2. /\ p \in Seq(Link) /\ Len(map.links) = d + Len(p) /\ Len(p) > 0
      /\ \A i \in 1 .. Len(p) : map.links[d + i] = p[i] /\ p[i].kind # "dict"
      /\ d = 1 => map.links[1].kind = "dict"
  BY <1>1, LinksOfSay, LinksMade
<1>3. consulted # << >>
  BY <1>1 DEF Asks
<1>4. /\ answer = consulted[n].said /\ answer # NoOpinion /\ ~Matches(map.rules, url)
      /\ \A i \in 1 .. n - 1 : consulted[i].said = NoOpinion
  BY <1>3 DEF Inv, LookupInv
<1>5. n \in Nat /\ n > 0 /\ Len(p) \in Nat /\ d \in {0, 1} /\ 1 \in 1 .. n
  BY <1>1, <1>2, <1>3, LenProperties, EmptySeq DEF Before
<1>6. consulted[1].kind = map.links[1].kind
  BY <1>1, <1>5 DEF Reported
<1>7. d = 0 => consulted[1].kind # "dict"
  <2> SUFFICES ASSUME d = 0 PROVE consulted[1].kind # "dict"
    OBVIOUS
  <2> HIDE DEF d, p, n
  <2>1. 1 \in 1 .. Len(p) /\ d + 1 = 1
    BY <1>2, <1>5
  <2>2. QED
    BY <1>2, <1>6, <2>1
<1>8. Asks = IF d = 1 THEN Tail(consulted) ELSE consulted
  <2> HIDE DEF d
  <2>1. QED
    BY <1>2, <1>3, <1>5, <1>6, <1>7 DEF Asks
<1>9. /\ Asks \in Seq(Report) /\ Len(Asks) = n - d
      /\ \A i \in 1 .. n - d : Asks[i] = consulted[d + i]
  <2> HIDE DEF d
  <2>1. CASE d = 1
    <3>1. /\ Tail(consulted) \in Seq(Report) /\ Len(Tail(consulted)) = n - 1
          /\ \A i \in 1 .. Len(Tail(consulted)) : Tail(consulted)[i] = consulted[i + 1]
      BY <1>1, <1>3, HeadTailProperties
    <3>2. \A i \in 1 .. n - 1 : i + 1 = 1 + i
      BY <1>5
    <3>3. QED
      BY <1>8, <2>1, <3>1, <3>2
  <2>2. CASE d = 0
    <3>1. n - 0 = n /\ \A i \in 1 .. n : 0 + i = i
      BY <1>5
    <3>2. QED
      BY <1>1, <1>8, <2>2, <3>1
  <2>3. QED
    BY <1>5, <2>1, <2>2
<1>10. DOMAIN Asks = 1 .. Len(Asks) /\ Len(Asks) \in Nat /\ Len(Asks) > 0
  BY <1>9, LenProperties, EmptySeq
<1> HIDE DEF p, d, n
<1>11. Len(Asks) <= Len(p)
  BY <1>1, <1>2, <1>5, <1>9
<1>12. ASSUME NEW i \in 1 .. Len(Asks) PROVE Reported(Asks[i], p[i]) /\ Asks[i] \in Report
  <2>1. d + i \in 1 .. n /\ i \in 1 .. n - d /\ i \in 1 .. Len(p)
    BY <1>5, <1>9, <1>10, <1>11
  <2>2. QED
    BY <1>1, <1>2, <1>9, <2>1, ElementOfSeq
<1>13. ASSUME NEW i \in 1 .. Len(Asks) - 1 PROVE Asks[i].said = NoOpinion
  <2>1. d + i \in 1 .. n - 1 /\ i \in 1 .. n - d
    BY <1>5, <1>9, <1>10
  <2>2. QED
    BY <1>4, <1>9, <2>1
<1>14. answer = Asks[Len(Asks)].said
  <2>1. Len(Asks) \in 1 .. n - d /\ d + Len(Asks) = n
    BY <1>5, <1>9, <1>10
  <2>2. QED
    BY <1>4, <1>9, <2>1
<1>15. QED
  BY <1>1, <1>4, <1>10, <1>11, <1>12, <1>13, <1>14 DEF p

(* Whether the environment counts, by what its variables mean.               *)
LEMMA UsesIt ==
    ASSUME Inv
    PROVE  UsesEnvironment <=> HasProxyVariable(made.decided)
<1> DEFINE env == made.decided
<1>1. env \in AnyEnviron
  BY DEF Inv, WorldInv
<1>2. HasProxyVariable(env) <=> EnvLink(env).proxies # {}
  BY DEF HasProxyVariable, EnvLink
<1>3. /\ \A e \in EnvLink(env).proxies :
           /\ e.key # "no_proxy" /\ e.proxy = EnvValue(env, e.key, "") /\ e.proxy # ""
           /\ NamedVars(env, e.key) # {}
      /\ \A key : key # "no_proxy" /\ EnvValue(env, key, "") # "" => HasKey(EnvLink(env).proxies, key)
  BY <1>1, EnvLinkMeans
<1>4. ASSUME NEW i \in DOMAIN env.vars, env.vars[i].key # "no_proxy", EnvValue(env, env.vars[i].key, "") # ""
      PROVE  HasProxyVariable(env)
  BY <1>2, <1>3, <1>4 DEF HasKey
<1>5. ASSUME NEW e \in EnvLink(env).proxies PROVE UsesEnvironment
  <2>1. PICK i : i \in NamedVars(env, e.key)
    BY <1>3
  <2>2. i \in DOMAIN env.vars /\ env.vars[i].key = e.key
    BY <2>1 DEF NamedVars
  <2>3. e.key # "no_proxy" /\ EnvValue(env, e.key, "") # ""
    BY <1>3
  <2>4. QED
    BY <2>2, <2>3 DEF UsesEnvironment
<1>6. UsesEnvironment => HasProxyVariable(env)
  BY <1>4 DEF UsesEnvironment
<1>7. QED
  BY <1>2, <1>5, <1>6

(* What the environment's link holds for the URL's scheme.                   *)
LEMMA EnvHolds ==
    ASSUME NEW env \in AnyEnviron, NEW u \in Urls
    PROVE  LET of(key) == EnvValue(env, key, "")
               value == FirstSet(of(u.scheme), of(Fallback(u.scheme)), of("all"))
           IN Under(EnvLink(env).proxies, <<u.scheme, Fallback(u.scheme), "all">>) =
                IF value = "" THEN {} ELSE {value}
<1>1. ASSUME NEW key, key # "no_proxy" PROVE Holds(EnvLink(env).proxies, key, EnvValue(env, key, ""))
  <2>1. \A e \in EnvLink(env).proxies : e.proxy = EnvValue(env, e.key, "") /\ e.proxy # ""
    BY EnvLinkMeans
  <2>2. EnvValue(env, key, "") # "" => HasKey(EnvLink(env).proxies, key)
    BY <1>1, EnvLinkMeans
  <2>3. QED
    BY <2>1, <2>2 DEF Holds, HasKey
<1>2. u.scheme # "no_proxy" /\ Fallback(u.scheme) # "no_proxy" /\ "all" # "no_proxy"
  BY WorldAssumption DEF Fallback
<1> DEFINE P == EnvLink(env).proxies
           k1 == u.scheme
           k2 == Fallback(u.scheme)
           k3 == "all"
           v1 == EnvValue(env, k1, "")
           v2 == EnvValue(env, k2, "")
           v3 == EnvValue(env, k3, "")
<1>3. Holds(P, k1, v1) /\ Holds(P, k2, v2) /\ Holds(P, k3, v3)
  BY <1>1, <1>2
<1> HIDE DEF P, k1, k2, k3, v1, v2, v3
<1>4. UnderIs(P, k1, k2, k3, v1, v2, v3)
  BY <1>3, UnderThree
<1>5. QED
  BY <1>4 DEF UnderIs, P, k1, k2, k3, v1, v2, v3

(* While a proxy variable counts, the environment decides alone: no system   *)
(* source is asked, and the answer is what the variable for the URL's        *)
(* scheme, its fallback's or all_proxy's says, DIRECT for what no_proxy      *)
(* lists (env.py).                                                           *)
THEOREM EnvironmentDecides == Spec => []EnvironmentAlone
<1>1. Inv => EnvironmentAlone
  <2> SUFFICES ASSUME Inv, pc = "returned", UsesEnvironment, Asks # << >>
               PROVE  EnvironmentAlone
    BY DEF EnvironmentAlone
  <2> DEFINE env == made.environ
             l == EnvLink(env)
             of(key) == EnvValue(env, key, "")
             value == FirstSet(of(url.scheme), of(Fallback(url.scheme)), of("all"))
             listed == Listed(EnvValue(env, "no_proxy", << >>), "no_proxy", FALSE, url)
             values == Under(l.proxies, <<url.scheme, Fallback(url.scheme), "all">>)
  <2>1. env \in AnyEnviron
    BY DEF Inv, WorldInv
  <2>2. OthersOf(options, made) = <<l, DirectLink>>
    BY UsesIt DEF OthersOf, EnvPart
  <2>3. l.kind = "env" /\ DirectLink.kind = "direct" /\ l \in Link
    BY <2>1 DEF EnvLink, DirectLink, Link
  <2>4. /\ Len(Asks) \in {1, 2} /\ DOMAIN Asks = 1 .. Len(Asks) /\ url \in Urls
        /\ answer = Asks[Len(Asks)].said /\ answer # NoOpinion
        /\ Reported(Asks[1], l)
        /\ Len(Asks) = 2 => Asks[1].said = NoOpinion /\ Reported(Asks[2], DirectLink)
    <3> DEFINE p == OthersOf(options, made)
               m == Len(Asks)
    <3>1. /\ m \in Nat /\ DOMAIN Asks = 1 .. m /\ m > 0 /\ m <= Len(p)
          /\ \A i \in 1 .. m : Reported(Asks[i], p[i])
          /\ \A i \in 1 .. m - 1 : Asks[i].said = NoOpinion
          /\ answer = Asks[m].said /\ answer # NoOpinion /\ url \in Urls
      BY AsksAre
    <3>2. Len(p) = 2 /\ p[1] = l /\ p[2] = DirectLink
      BY <2>2
    <3> HIDE DEF p, m, l
    <3>3. m \in {1, 2} /\ 1 \in 1 .. m /\ (m = 2 => 2 \in 1 .. m /\ 1 \in 1 .. m - 1)
      BY <3>1, <3>2
    <3>4. QED
      BY <3>1, <3>2, <3>3 DEF m
  <2>5. \A i \in DOMAIN Asks : Asks[i].kind \in {"env", "direct"}
    <3>1. \A i \in DOMAIN Asks : i = 1 \/ (i = 2 /\ Len(Asks) = 2)
      <4> DEFINE m == Len(Asks)
      <4> HIDE DEF m
      <4>1. m \in {1, 2} /\ DOMAIN Asks = 1 .. m
        BY <2>4 DEF m
      <4>2. \A i \in 1 .. m : i = 1 \/ (i = 2 /\ m = 2)
        BY <4>1
      <4>3. QED
        BY <4>1, <4>2 DEF m
    <3>2. QED
      BY <2>3, <2>4, <3>1 DEF Reported
  <2>6. Asks[1].said \in EnvSays(l)
    BY <2>3, <2>4 DEF Reported
  <2>7. values = IF value = "" THEN {} ELSE {value}
    BY <2>1, <2>4, EnvHolds
  <2>8. Matches(l.rules, url) <=> listed
    <3>1. l.rules = Parse(EnvValue(env, "no_proxy", << >>), "no_proxy", FALSE)
      BY <2>1, EnvLinkMeans
    <3>2. QED
      BY <2>1, <2>4, <3>1, ListsAreRead
  <2>9. Len(Asks) = 2 => answer = Direct
    BY <2>3, <2>4 DEF Reported
  <2> HIDE DEF value, values, listed, l, env
  <2>10. IF url.host = NoHost THEN answer = Error
         ELSE IF listed \/ value = "" THEN answer = Direct
         ELSE IF value = "pac"
           THEN answer \in {Error} \cup {ParsePacResult(r) : r \in PacResults \ {Error}}
         ELSE answer = <<value>>
    <3>1. CASE url.host = NoHost
      <4>1. Asks[1].said = Error
        BY <2>6, <3>1 DEF EnvSays
      <4>2. Len(Asks) = 1
        BY <2>4, <4>1, GoodAnswers
      <4>3. QED
        BY <2>4, <3>1, <4>1, <4>2
    <3>2. CASE url.host # NoHost /\ listed
      <4>1. Asks[1].said = Direct
        BY <2>6, <2>8, <3>2 DEF EnvSays
      <4>2. answer = Direct
        BY <2>4, <2>9, <4>1
      <4>3. QED
        BY <3>2, <4>2
    <3>3. CASE url.host # NoHost /\ ~listed /\ value = ""
      <4>1. Asks[1].said = NoOpinion
        BY <2>6, <2>7, <2>8, <3>3 DEF EnvSays, values
      <4>2. answer = Direct
        BY <2>4, <2>9, <4>1
      <4>3. QED
        BY <3>3, <4>2
    <3>4. CASE url.host # NoHost /\ ~listed /\ value # ""
      <4>1. Asks[1].said \in IF value = "pac" THEN {IF r = Error THEN r ELSE ParsePacResult(r) : r \in PacResults}
                             ELSE {<<value>>}
        BY <2>6, <2>7, <2>8, <3>4 DEF EnvSays, values
      <4>2. value # "pac" => value \in Proxy
        <5>1. \E e \in l.proxies : e.proxy = value
          BY <2>7, <3>4 DEF values, Under
        <5>2. QED
          BY <2>3, <5>1, LinkHolds
      <4>3. Asks[1].said # NoOpinion
        BY <4>1, <4>2, ParsedIsGood, GoodAnswers
      <4>4. answer = Asks[1].said
        BY <2>4, <4>3
      <4>5. QED
        BY <3>4, <4>1, <4>4
    <3>5. QED
      BY <3>1, <3>2, <3>3, <3>4
  <2>11. QED
    BY <2>5, <2>10 DEF EnvironmentAlone, FirstSet, value, listed, env
<1>2. QED
  BY <1>1, AutoProxyInvariant, PTL

-----------------------------------------------------------------------------
(* What the manual proxies hold for a scheme.                                *)
ListValue(list, k) ==
    LET named == NamedIn(list, k, Len(list))
        all == NamedIn(list, "", Len(list))
    IN IF named # {} THEN list[Max(named)].server
       ELSE IF k \in Schemes /\ all # {} THEN list[Min(all)].server ELSE ""

(* A list of servers holds for a scheme what its entries say: the scheme's   *)
(* last, or the first for all.                                               *)
LEMMA ListHolds ==
    ASSUME NEW list \in Seq(Server), NEW k \in Schemes \cup {"socks"}
    PROVE  Holds(ParseProxyList(list), k, ListValue(list, k))
<1> DEFINE ps == ParseProxyList(list)
           N == Len(list)
           named == NamedIn(list, k, N)
           all == NamedIn(list, "", N)
           v == ListValue(list, k)
<1>1. SaysAsListed(list, ps, N)
  BY ParseProxyListSays
<1>2. N \in Nat /\ named \subseteq 1 .. N /\ all \subseteq 1 .. N /\ named \subseteq Int /\ all \subseteq Int
  <2>1. N \in Nat /\ named \subseteq 1 .. N /\ all \subseteq 1 .. N
    BY LenProperties DEF NamedIn
  <2>2. \A i \in 1 .. N : i \in Int
    OBVIOUS
  <2>3. QED
    BY <2>1, <2>2
<1>3. \A i \in 1 .. N : list[i].server # ""
  <2> SUFFICES ASSUME NEW i \in 1 .. N PROVE list[i].server # ""
    OBVIOUS
  <2>1. list[i] \in Server
    BY ElementOfSeq
  <2>2. QED
    BY <2>1, NamesAssumption DEF Server
<1>4. k # "" /\ (k = "socks" <=> k \notin Schemes)
  BY DEF Schemes
<1>5. v = IF named # {} THEN list[Max(named)].server
          ELSE IF k \in Schemes /\ all # {} THEN list[Min(all)].server ELSE ""
  BY DEF ListValue
<1> HIDE DEF ps, N, named, all, v
<1>6. ASSUME NEW e \in ps, e.key = k PROVE e.proxy = v /\ v # ""
  <2>1. PICK i \in 1 .. N :
           /\ e.proxy = list[i].server
           /\ \/ LastOf(named, i)
              \/ named = {} /\ k # "socks" /\ FirstOf(all, i)
    BY <1>1, <1>6 DEF SaysAsListed, named, all
  <2>2. CASE LastOf(named, i)
    <3>1. i \in named /\ \A j \in named : j <= i
      BY <2>2 DEF LastOf
    <3>2. Max(named) = i
      BY <1>2, <3>1, MaxIs
    <3>3. QED
      BY <1>3, <1>5, <2>1, <3>1, <3>2
  <2>3. CASE named = {} /\ k # "socks" /\ FirstOf(all, i)
    <3>1. i \in all /\ \A j \in all : i <= j
      BY <2>3 DEF FirstOf
    <3>2. Min(all) = i
      BY <1>2, <3>1, MinIs
    <3>3. QED
      BY <1>3, <1>4, <1>5, <2>1, <2>3, <3>1, <3>2
  <2>4. QED
    BY <2>1, <2>2, <2>3
<1>7. ASSUME v # "" PROVE HasKey(ps, k)
  <2>1. CASE named # {}
    <3>1. PICK i : i \in named
      BY <2>1
    <3>2. i \in 1 .. N /\ list[i].protocol = k /\ list[i].server # "bad"
      BY <3>1 DEF named, NamedIn
    <3>3. QED
      BY <1>1, <3>2 DEF SaysAsListed
  <2>2. CASE named = {}
    <3>1. k \in Schemes /\ all # {}
      BY <1>5, <1>7, <2>2
    <3>2. PICK i : i \in all
      BY <3>1
    <3>3. i \in 1 .. N /\ list[i].protocol = "" /\ list[i].server # "bad"
      BY <3>2 DEF all, NamedIn
    <3>4. QED
      BY <1>1, <3>1, <3>3 DEF SaysAsListed
  <2>3. QED
    BY <2>1, <2>2
<1>8. HasKey(ps, k) => v # ""
  BY <1>6 DEF HasKey
<1>9. QED
  BY <1>6, <1>7, <1>8 DEF Holds, ps, v

(* It holds nothing for other schemes.                                       *)
LEMMA ListHoldsNot ==
    ASSUME NEW list \in Seq(Server), NEW k, k \notin Schemes \cup {"socks"}
    PROVE  Holds(ParseProxyList(list), k, "")
<1>1. SaysAsListed(list, ParseProxyList(list), Len(list))
  BY ParseProxyListSays
<1>2. \A e \in ParseProxyList(list) : e.key # k
  BY <1>1 DEF SaysAsListed
<1>3. QED
  BY <1>2 DEF Holds, HasKey

(* The manual proxy for a scheme: its own, else that of SOCKS.               *)
LEMMA ManualHolds ==
    ASSUME NEW list \in Seq(Server), NEW scheme
    PROVE  LET k == Fallback(scheme)
               own == IF k \in Schemes \cup {"socks"} THEN ListValue(list, k) ELSE ""
               value == IF own # "" THEN own ELSE ListValue(list, "socks")
           IN Under(ParseProxyList(list), <<scheme, k, "socks">>) = IF value = "" THEN {} ELSE {value}
<1> DEFINE ps == ParseProxyList(list)
           k == Fallback(scheme)
           K == Schemes \cup {"socks"}
           own == IF k \in K THEN ListValue(list, k) ELSE ""
           first == IF scheme \in K THEN ListValue(list, scheme) ELSE ""
           socks == ListValue(list, "socks")
           key == "socks"
<1>1. Holds(ps, scheme, first)
  BY ListHolds, ListHoldsNot
<1>2. Holds(ps, k, own)
  BY ListHolds, ListHoldsNot
<1>3. Holds(ps, key, socks)
  BY ListHolds
<1>4. first = own \/ first = ""
  <2>1. CASE scheme \in {"ws", "wss"}
    BY <2>1 DEF Schemes
  <2>2. CASE scheme \notin {"ws", "wss"}
    <3>1. k = scheme
      BY <2>2 DEF Fallback
    <3>2. QED
      BY <3>1
  <2>3. QED
    BY <2>1, <2>2
<1> HIDE DEF ps, k, K, own, first, socks, key
<1>5. UnderIs(ps, scheme, k, key, first, own, socks)
  BY <1>1, <1>2, <1>3, UnderThree
<1>6. FirstSet(first, own, socks) = IF own # "" THEN own ELSE socks
  BY <1>4 DEF FirstSet
<1>7. QED
  BY <1>5, <1>6 DEF UnderIs, ps, k, K, own, socks, key

(* The manual proxies answer what the settings mean.                         *)
LEMMA ManualSays ==
    ASSUME NEW s \in AnySettings, url \in Urls
    PROVE  ManualAnswer(SystemConfig(s).proxies, SystemConfig(s).rules) = ManualMeans(s)
<1> DEFINE c == SystemConfig(s)
           ps == ParseProxyList(s.list)
           N == Len(s.list)
           scheme == Fallback(url.scheme)
           found == Under(ps, <<url.scheme, scheme, "socks">>)
           named(p) == NamedIn(s.list, p, N)
           own == IF scheme \in Schemes \cup {"socks"} THEN ListValue(s.list, scheme) ELSE ""
           value == IF own # "" THEN own ELSE ListValue(s.list, "socks")
           entry == IF scheme \in Schemes \cup {"socks"} /\ named(scheme) # {} THEN Max(named(scheme))
                    ELSE IF scheme \in Schemes /\ named("") # {} THEN Min(named(""))
                    ELSE IF named("socks") # {} THEN Max(named("socks")) ELSE 0
           listed == Listed(s.bypass, s.dialect, s.reversed, url)
<1>1. s.list \in Seq(Server)
  BY WorldAssumption DEF AnySettings
<1>2. N \in Nat /\ DOMAIN s.list = 1 .. N
  BY <1>1, LenProperties
<1>3. found = IF value = "" THEN {} ELSE {value}
  BY <1>1, ManualHolds
<1>4. ManualMeans(s) = IF ~s.read \/ entry = 0 \/ listed THEN Direct ELSE <<s.list[entry].server>>
  <2> DEFINE at(p) == {i \in DOMAIN s.list : s.list[i].protocol = p /\ s.list[i].server # "bad"}
             entry1 == IF scheme \in Schemes \cup {"socks"} /\ at(scheme) # {} THEN Max(at(scheme))
                       ELSE IF scheme \in Schemes /\ at("") # {} THEN Min(at(""))
                       ELSE IF at("socks") # {} THEN Max(at("socks")) ELSE 0
  <2>1. ManualMeans(s) = IF ~s.read \/ entry1 = 0 \/ listed THEN Direct ELSE <<s.list[entry1].server>>
    BY DEF ManualMeans, Schemes
  <2>2. at(scheme) = named(scheme) /\ at("") = named("") /\ at("socks") = named("socks")
    BY <1>2 DEF NamedIn
  <2> HIDE DEF at, named, scheme
  <2>3. entry1 = entry
    BY <2>2, Zenon
  <2> HIDE DEF entry1, entry
  <2>4. QED
    BY <2>1, <2>3
<1>5. Matches(Parse(s.bypass, s.dialect, s.reversed), url) <=> listed
  BY ListsAreRead
<1>6. ASSUME NEW p PROVE named(p) \in SUBSET (1 .. N)
  BY DEF NamedIn
<1>7. ASSUME NEW i \in 1 .. N PROVE s.list[i].server # "" /\ i # 0
  <2>1. s.list[i] \in Server
    BY <1>1, ElementOfSeq
  <2>2. s.list[i].server # ""
    BY <2>1, NamesAssumption DEF Server
  <2>3. \A j \in 1 .. N : j # 0
    BY <1>2
  <2>4. QED
    BY <2>2, <2>3, Zenon
<1>8. \A p : named(p) # {} => Max(named(p)) \in 1 .. N /\ Min(named(p)) \in 1 .. N
  <2> SUFFICES ASSUME NEW p, named(p) # {} PROVE Max(named(p)) \in 1 .. N /\ Min(named(p)) \in 1 .. N
    OBVIOUS
  <2> DEFINE S == named(p)
  <2>1. S \in SUBSET (1 .. N) /\ S # {}
    BY <1>6
  <2> HIDE DEF S
  <2>2. Max(S) \in S /\ Min(S) \in S
    BY <1>2, <2>1, Extremes
  <2>3. QED
    BY <2>1, <2>2 DEF S
<1>9. \A k : ListValue(s.list, k) = IF named(k) # {} THEN s.list[Max(named(k))].server
                                   ELSE IF k \in Schemes /\ named("") # {} THEN s.list[Min(named(""))].server ELSE ""
  BY DEF ListValue
<1>10. "socks" \notin Schemes
  BY DEF Schemes
<1> HIDE DEF named, N, listed, found, scheme
<1>11. value = IF entry = 0 THEN "" ELSE s.list[entry].server
  <2>1. CASE scheme \in Schemes \cup {"socks"} /\ named(scheme) # {}
    <3>1. entry = Max(named(scheme)) /\ ListValue(s.list, scheme) = s.list[entry].server
      BY <1>9, <2>1
    <3>2. entry # 0 /\ s.list[entry].server # ""
      BY <1>7, <1>8, <2>1, <3>1
    <3>3. QED
      BY <2>1, <3>1, <3>2
  <2>2. CASE scheme \in Schemes /\ named(scheme) = {} /\ named("") # {}
    <3>1. entry = Min(named("")) /\ ListValue(s.list, scheme) = s.list[entry].server
      BY <1>9, <2>2
    <3>2. entry # 0 /\ s.list[entry].server # ""
      BY <1>7, <1>8, <2>2, <3>1
    <3>3. QED
      BY <2>2, <3>1, <3>2
  <2>3. CASE /\ scheme \notin Schemes \cup {"socks"} \/ named(scheme) = {}
             /\ scheme \notin Schemes \/ named("") = {}
    <3>1. own = ""
      BY <1>9, <1>10, <2>3
    <3>2. entry = IF named("socks") # {} THEN Max(named("socks")) ELSE 0
      <4>1. ~(scheme \in Schemes \cup {"socks"} /\ named(scheme) # {})
        BY <2>3
      <4>2. ~(scheme \in Schemes /\ named("") # {})
        BY <2>3
      <4>3. QED
        BY <4>1, <4>2, Zenon
    <3>3. ListValue(s.list, "socks") = IF named("socks") # {} THEN s.list[Max(named("socks"))].server ELSE ""
      BY <1>9, <1>10
    <3>4. named("socks") # {} => Max(named("socks")) # 0
      BY <1>7, <1>8
    <3> HIDE DEF own, entry
    <3>5. QED
      BY <3>1, <3>2, <3>3, <3>4
  <2>4. QED
    BY <2>1, <2>2, <2>3
<1>12. entry # 0 => value # ""
  <2>1. entry = 0 \/ entry \in 1 .. N
    BY <1>8
  <2> HIDE DEF entry, value
  <2>2. QED
    BY <1>7, <1>11, <2>1
<1> HIDE DEF entry, value, own
<1>13. CASE ~s.read
  <2>1. c.proxies = {}
    BY <1>13 DEF SystemConfig
  <2>2. ManualAnswer(c.proxies, c.rules) = Direct
    BY <2>1 DEF ManualAnswer
  <2>3. QED
    BY <1>4, <1>13, <2>2
<1>14. CASE s.read
  <2>1. c.proxies = ps /\ c.rules = Parse(s.bypass, s.dialect, s.reversed)
    BY <1>14 DEF SystemConfig
  <2>2. ManualAnswer(c.proxies, c.rules) =
          IF ps = {} \/ listed \/ found = {} THEN Direct ELSE <<CHOOSE p \in found : TRUE>>
    BY <1>5, <2>1 DEF ManualAnswer, found, scheme
  <2>3. ps = {} => found = {}
    BY DEF found, Under
  <2>4. value # "" => (CHOOSE p \in found : TRUE) = value
    BY <1>3
  <2> HIDE DEF c, ps
  <2>5. CASE listed
    BY <1>4, <2>2, <2>5, Zenon DEF c
  <2>6. CASE ~listed /\ entry = 0
    <3>1. found = {} /\ ManualMeans(s) = Direct
      BY <1>3, <1>4, <1>11, <2>6, Zenon
    <3>2. QED
      BY <2>2, <3>1, Zenon DEF c
  <2>7. CASE ~listed /\ entry # 0
    <3>1. value # "" /\ value = s.list[entry].server
      BY <1>11, <1>12, <2>7, Zenon
    <3>2. found # {} /\ (CHOOSE p \in found : TRUE) = value
      BY <1>3, <2>4, <3>1, Zenon
    <3>3. ManualMeans(s) = <<value>>
      BY <1>4, <1>14, <2>7, <3>1, Zenon
    <3>4. ps # {}
      BY <2>3, <3>2, Zenon
    <3>5. ManualAnswer(c.proxies, c.rules) = <<value>>
      BY <2>2, <2>7, <3>2, <3>4, Zenon
    <3>6. QED
      BY <3>3, <3>5, Zenon DEF c
  <2>8. QED
    BY <2>5, <2>6, <2>7
<1>15. QED
  BY <1>13, <1>14

(* Without a proxy variable the OS decides: the links asked are its          *)
(* sources in order, and the last word is the manual settings', as their     *)
(* list and their bypass list mean it; WinHTTP's map says what the           *)
(* settings mean at the lookup (system/_config.py, system/_nt.py).           *)
THEOREM SettingsDecideInTurn == Spec => []SettingsDecide
<1>1. Inv => SettingsDecide
  <2> SUFFICES ASSUME Inv, pc = "returned", ~UsesEnvironment, Asks # << >>
               PROVE  SettingsDecide
    BY DEF SettingsDecide
  <2> DEFINE s == made.settings
             p == OthersOf(options, made)
             sources == Sources(options, s)
             last == Len(sources) + 1
             m == Len(Asks)
  <2>1. options \in Options /\ s \in AnySettings
    BY DEF Inv, WorldInv
  <2>2. p = SystemPart(options, s)
    BY UsesIt DEF OthersOf
  <2>3. /\ Len(p) = last /\ p[last] = ManualLink(SystemConfig(s))
        /\ \A i \in 1 .. Len(sources) : p[i].kind = sources[i]
        /\ \A i \in 1 .. Len(sources) : sources[i] \in {"winhttp", "resolver", "deferred"}
        /\ Len(sources) \in Nat
    BY <2>1, <2>2, SystemPartSays, LenProperties
  <2>4. /\ m \in Nat /\ DOMAIN Asks = 1 .. m /\ m > 0 /\ m <= Len(p)
        /\ \A i \in 1 .. m : Reported(Asks[i], p[i]) /\ Asks[i] \in Report
        /\ answer = Asks[m].said /\ url \in Urls
    BY AsksAre
  <2> HIDE DEF p, sources, m
  <2>5. ASSUME NEW i \in DOMAIN Asks, i # last PROVE Asks[i].kind = sources[i]
    <3>1. i \in 1 .. m /\ i \in 1 .. Len(sources)
      BY <2>3, <2>4, <2>5
    <3>2. QED
      BY <2>3, <2>4, <3>1 DEF Reported
  <2>6. m <= last
    BY <2>3, <2>4
  <2>7. ASSUME m = last PROVE answer = ManualMeans(s)
    <3>1. Reported(Asks[m], ManualLink(SystemConfig(s)))
      <4>1. m \in 1 .. m
        BY <2>4
      <4>2. QED
        BY <2>3, <2>4, <2>7, <4>1
    <3>2. ManualAnswer(SystemConfig(s).proxies, SystemConfig(s).rules) = ManualMeans(s)
      BY <2>1, <2>4, ManualSays
    <3>3. CASE SystemConfig(s).proxies = {}
      <4>1. answer = Direct
        BY <2>4, <3>1, <3>3 DEF Reported, ManualLink, DirectLink
      <4>2. ManualAnswer(SystemConfig(s).proxies, SystemConfig(s).rules) = Direct
        BY <3>3 DEF ManualAnswer
      <4>3. QED
        BY <3>2, <4>1, <4>2
    <3>4. CASE SystemConfig(s).proxies # {}
      <4>1. ManualLink(SystemConfig(s)) =
              [kind |-> "manual", proxies |-> SystemConfig(s).proxies, rules |-> SystemConfig(s).rules]
        BY <3>4 DEF ManualLink
      <4>2. answer = ManualAnswer(SystemConfig(s).proxies, SystemConfig(s).rules)
        BY <2>4, <3>1, <4>1 DEF Reported
      <4>3. QED
        BY <3>2, <4>2
    <3>5. QED
      BY <3>3, <3>4
  <2>8. ASSUME NEW i \in DOMAIN Asks, Asks[i].kind = "winhttp", options.session,
               ~(Asks[i].seen.read /\ (Asks[i].seen.detect \/ Asks[i].seen.pac))
        PROVE  Asks[i].said = ManualMeans(Asks[i].seen)
    <3> DEFINE seen == Asks[i].seen
               config == SystemConfig(seen)
    <3>1. Reported(Asks[i], p[i]) /\ seen \in AnySettings
      BY <2>4 DEF Report
    <3>2. ~(config.detect \/ config.pac)
      BY <2>8 DEF SystemConfig
    <3>3. Asks[i].said = ManualAnswer(config.proxies, config.rules)
      BY <2>8, <3>1, <3>2 DEF Reported
    <3>4. QED
      BY <2>4, <3>1, <3>3, ManualSays
  <2>9. QED
    BY <2>5, <2>6, <2>7, <2>8 DEF SettingsDecide, Sources, Detects, sources, m
<1>2. QED
  BY <1>1, AutoProxyInvariant, PTL

(* A URL that the program's own no_proxy list means goes DIRECT with no      *)
(* link asked, and every other URL is asked for (wrappers.py, Bypass).       *)
THEOREM BypassedFirst == Spec => []BypassedGoDirect
<1>1. Inv => BypassedGoDirect
  <2> SUFFICES ASSUME Inv, pc = "returned" PROVE BypassedGoDirect
    BY DEF BypassedGoDirect
  <2> DEFINE lists == {l \in options.noProxy : Listed(l, "no_proxy", FALSE, url)}
             list == CHOOSE l \in options.noProxy : TRUE
  <2>1. options \in Options /\ url \in Urls
    BY DEF Inv, WorldInv, LookupInv
  <2>2. map.rules = RulesOf(options)
    BY LinksMade
  <2>3. Matches(map.rules, url) <=> lists # {}
    <3>1. CASE options.noProxy = {}
      <4>1. ~Matches(map.rules, url)
        BY <2>2, <3>1 DEF RulesOf, NoRules, Matches
      <4>2. QED
        BY <3>1, <4>1
    <3>2. CASE options.noProxy # {}
      <4>1. list \in options.noProxy /\ \A l \in options.noProxy : l = list
        BY <2>1, <3>2, WorldAssumption
      <4>2. map.rules = Parse(list, "no_proxy", FALSE)
        BY <2>2, <3>2 DEF RulesOf
      <4>3. Matches(map.rules, url) <=> Listed(list, "no_proxy", FALSE, url)
        BY <2>1, <4>1, <4>2, ListsAreRead
      <4>4. QED
        BY <4>1, <4>3
    <3>3. QED
      BY <3>1, <3>2
  <2>4. IF consulted = << >> THEN Matches(map.rules, url) /\ answer = Direct
        ELSE ~Matches(map.rules, url)
    BY DEF Inv, LookupInv
  <2> HIDE DEF lists
  <2>5. (consulted = << >>) = (lists # {}) /\ (lists # {} => answer = Direct)
    BY <2>3, <2>4
  <2>6. QED
    BY <2>5 DEF BypassedGoDirect, lists
<1>2. QED
  BY <1>1, AutoProxyInvariant, PTL
=============================================================================
