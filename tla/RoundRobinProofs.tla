-------------------------- MODULE RoundRobinProofs --------------------------
(***************************************************************************)
(* What is proved of Cached and RoundRobin for every set of threads, URLs  *)
(* and answers, every ttl, both sizes and every bound.                     *)
(***************************************************************************)
EXTENDS RoundRobin, SequenceTheorems, TLAPS

USE CacheAssumption, RotationAssumption

-----------------------------------------------------------------------------
(* No two places of a sequence hold the same thing. *)
Distinct(s) == \A i, j \in 1 .. Len(s) : s[i] = s[j] => i = j

(* A dict that loses a key keeps the others in their order. *)
LEMMA DroppedKeeps ==
    ASSUME NEW S, NEW s \in Seq(S), NEW i \in 1 .. Len(s)
    PROVE  /\ Dropped(s, {i}) \in Seq(S) /\ Len(Dropped(s, {i})) = Len(s) - 1
           /\ \A j \in 1 .. Len(s) - 1 : Dropped(s, {i})[j] = IF j < i THEN s[j] ELSE s[j + 1]
<1> DEFINE a == SubSeq(s, 1, i - 1)
           b == SubSeq(s, i + 1, Len(s))
<1>1. Len(s) \in Nat /\ i \in Nat /\ 1 <= i /\ i <= Len(s)
  BY LenProperties
<1>2. /\ a \in Seq(S) /\ Len(a) = i - 1 /\ \A j \in 1 .. i - 1 : a[j] = s[j]
      /\ b \in Seq(S) /\ Len(b) = Len(s) - i /\ \A j \in 1 .. Len(s) - i : b[j] = s[i + j]
  <2>1. \A j \in 1 .. Len(s) : s[j] \in S
    BY ElementOfSeq
  <2>2. a \in Seq(S) /\ Len(a) = i - 1 /\ \A j \in 1 .. i - 1 : a[j] = s[j]
    BY <1>1, <2>1, SubSeqProperties
  <2>3. b \in Seq(S) /\ Len(b) = Len(s) - i /\ \A j \in 1 .. Len(s) - i : b[j] = s[i + j]
    <3>1. \A j \in i + 1 .. Len(s) : s[j] \in S
      BY <1>1, <2>1
    <3>2. /\ b \in Seq(S) /\ Len(b) = IF i + 1 <= Len(s) THEN Len(s) - (i + 1) + 1 ELSE 0
          /\ \A j \in 1 .. Len(s) - (i + 1) + 1 : b[j] = s[(i + 1) + j - 1]
      BY <1>1, <3>1, SubSeqProperties
    <3> HIDE DEF b
    <3>3. QED
      BY <1>1, <3>2
  <2>4. QED
    BY <2>2, <2>3
<1> HIDE DEF a, b
<1>3. /\ a \o b \in Seq(S) /\ Len(a \o b) = Len(a) + Len(b)
      /\ \A j \in 1 .. Len(a) + Len(b) : (a \o b)[j] = IF j <= Len(a) THEN a[j] ELSE b[j - Len(a)]
  BY <1>2, ConcatProperties, ZenonT(40)
<1>4. Dropped(s, {i}) = a \o b
  <2>1. (CHOOSE k \in {i} : TRUE) = i
    OBVIOUS
  <2>2. QED
    BY <2>1 DEF Dropped, a, b
<1>5. \A j \in 1 .. Len(s) - 1 : (a \o b)[j] = IF j < i THEN s[j] ELSE s[j + 1]
  <2> TAKE j \in 1 .. Len(s) - 1
  <2>1. CASE j < i
    BY <2>1, <1>1, <1>2, <1>3
  <2>2. CASE ~(j < i)
    <3>1. j - (i - 1) \in 1 .. Len(s) - i /\ i + (j - (i - 1)) = j + 1 /\ ~(j <= i - 1)
      BY <2>2, <1>1
    <3>2. (a \o b)[j] = b[j - (i - 1)]
      BY <3>1, <1>1, <1>2, <1>3
    <3>3. b[j - (i - 1)] = s[j + 1]
      BY <3>1, <1>2
    <3>4. QED
      BY <2>2, <3>2, <3>3
  <2>3. QED
    BY <2>1, <2>2
<1>6. Len(a \o b) = Len(s) - 1
  BY <1>1, <1>2, <1>3
<1>7. QED
  BY <1>3, <1>4, <1>5, <1>6, Zenon

(* A dict without the key has nothing to lose. *)
LEMMA DroppedNone == \A s : Dropped(s, {}) = s
BY DEF Dropped

(* What popitem(last=False) leaves is the end of the dict, no longer than n. *)
LEMMA NewestIsEnd ==
    ASSUME NEW S, NEW s \in Seq(S), NEW n \in Nat
    PROVE  /\ Newest(s, n) \in Seq(S) /\ Len(Newest(s, n)) <= n /\ Len(Newest(s, n)) <= Len(s)
           /\ Len(s) <= n => Newest(s, n) = s
           /\ Len(Newest(s, n)) \in Nat
           /\ \A j \in 1 .. Len(Newest(s, n)) :
                 Newest(s, n)[j] = s[Len(s) - Len(Newest(s, n)) + j]
<1>1. Len(s) \in Nat /\ \A j \in 1 .. Len(s) : s[j] \in S
  BY LenProperties, ElementOfSeq
<1>2. CASE Len(s) > n
  <2> DEFINE r == SubSeq(s, Len(s) - n + 1, Len(s))
  <2>1. \A j \in Len(s) - n + 1 .. Len(s) : s[j] \in S
    BY <1>1, <1>2
  <2>2. /\ r \in Seq(S)
        /\ Len(r) = IF Len(s) - n + 1 <= Len(s) THEN Len(s) - (Len(s) - n + 1) + 1 ELSE 0
        /\ \A j \in 1 .. Len(s) - (Len(s) - n + 1) + 1 : r[j] = s[(Len(s) - n + 1) + j - 1]
    BY <1>1, <2>1, SubSeqProperties
  <2>3. Newest(s, n) = r
    BY <1>2 DEF Newest
  <2> HIDE DEF r
  <2>4. Len(r) = n /\ \A j \in 1 .. n : r[j] = s[Len(s) - n + j]
    BY <1>1, <2>2
  <2>5. QED
    BY <1>1, <1>2, <2>2, <2>3, <2>4
<1>3. CASE ~(Len(s) > n)
  BY <1>1, <1>3 DEF Newest
<1>4. QED
  BY <1>2, <1>3

-----------------------------------------------------------------------------
(* An entry is dated no later than the inner map gave its answer. *)
CachedEntry ==
    {e \in [url : Url, at : 0 .. MaxTime, answer : Answers, valid : 0 .. MaxTime] : e.at <= e.valid}

(* The URLs of a dict are the last ones used, in the order of their use. *)
IsEnd(es, rs) ==
    Len(es) <= Len(rs) /\ \A i \in 1 .. Len(es) : es[i].url = rs[Len(rs) - Len(es) + i]

Moved(es, e) == Append(Dropped(es, {i \in 1 .. Len(es) : es[i].url = e.url}), e)
UsedLast(rs, u) == Append(Dropped(rs, {i \in 1 .. Len(rs) : rs[i] = u}), u)

(* Using a URL last keeps the uses distinct. *)
LEMMA UsedLastType ==
    ASSUME NEW rs \in Seq(Url), Distinct(rs), NEW u \in Url
    PROVE  UsedLast(rs, u) \in Seq(Url) /\ Distinct(UsedLast(rs, u))
<1> DEFINE at == {i \in 1 .. Len(rs) : rs[i] = u}
           d == Dropped(rs, at)
<1>1. Len(rs) \in Nat
  BY LenProperties
<1>2. d \in Seq(Url) /\ Distinct(d) /\ \A i \in 1 .. Len(d) : d[i] # u
  <2>1. CASE at = {}
    BY <2>1, DroppedNone
  <2>2. CASE at # {}
    <3>1. PICK i \in 1 .. Len(rs) : rs[i] = u
      BY <2>2
    <3>2. at = {i}
      BY <3>1 DEF Distinct
    <3>3. /\ d \in Seq(Url) /\ Len(d) = Len(rs) - 1
          /\ \A j \in 1 .. Len(rs) - 1 : d[j] = IF j < i THEN rs[j] ELSE rs[j + 1]
      BY <3>2, DroppedKeeps, ZenonT(40)
    <3> HIDE DEF d
    <3>4. \A j \in 1 .. Len(d) : d[j] # u
      BY <1>1, <3>1, <3>3 DEF Distinct
    <3>5. Distinct(d)
      BY <1>1, <3>3 DEF Distinct
    <3>6. QED
      BY <3>3, <3>4, <3>5
  <2>3. QED
    BY <2>1, <2>2
<1> HIDE DEF d
<1>3. /\ Append(d, u) \in Seq(Url) /\ Len(Append(d, u)) = Len(d) + 1 /\ Len(d) \in Nat
      /\ \A i \in 1 .. Len(d) : Append(d, u)[i] = d[i]
      /\ Append(d, u)[Len(d) + 1] = u
  BY <1>2, AppendProperties, LenProperties
<1>4. Distinct(Append(d, u))
  <2> DEFINE r == Append(d, u)
  <2> HIDE DEF r
  <2>1. SUFFICES ASSUME NEW i \in 1 .. Len(r), NEW j \in 1 .. Len(r), r[i] = r[j] PROVE i = j
    BY DEF Distinct, r
  <2>2. /\ i \in 1 .. Len(d) \/ i = Len(d) + 1
        /\ j \in 1 .. Len(d) \/ j = Len(d) + 1
    BY <1>3 DEF r
  <2>3. CASE i \in 1 .. Len(d) /\ j \in 1 .. Len(d)
    BY <2>1, <2>3, <1>2, <1>3 DEF Distinct, r
  <2>4. QED
    BY <2>1, <2>2, <2>3, <1>2, <1>3 DEF r
<1>5. QED
  BY <1>3, <1>4 DEF UsedLast, d

(* Dropping a URL from the cache and from the order of use keeps the one the *)
(* end of the other.                                                         *)
LEMMA DroppedIsEnd ==
    ASSUME NEW es \in Seq(CachedEntry), NEW rs \in Seq(Url), Distinct(rs), IsEnd(es, rs),
           NEW u \in Url
    PROVE  LET d == Dropped(es, {i \in 1 .. Len(es) : es[i].url = u})
               r == Dropped(rs, {i \in 1 .. Len(rs) : rs[i] = u})
           IN  /\ d \in Seq(CachedEntry) /\ IsEnd(d, r) /\ Len(d) <= Len(es)
               /\ (\E i \in 1 .. Len(es) : es[i].url = u) => Len(d) = Len(es) - 1
<1> DEFINE atE == {i \in 1 .. Len(es) : es[i].url = u}
           atR == {i \in 1 .. Len(rs) : rs[i] = u}
           d == Dropped(es, atE)
           r == Dropped(rs, atR)
           m == Len(rs)
           n == Len(es)
<1>1. m \in Nat /\ n \in Nat /\ n <= m
  BY LenProperties DEF IsEnd
<1>2. \A i \in 1 .. n : es[i].url = rs[m - n + i]
  BY DEF IsEnd
<1>3. ASSUME NEW i \in 1 .. n, es[i].url = u
      PROVE  /\ d \in Seq(CachedEntry) /\ IsEnd(d, r) /\ Len(d) = n - 1
  <2> DEFINE k == m - n + i
  <2>1. k \in 1 .. m /\ rs[k] = u
    BY <1>1, <1>2, <1>3
  <2>2. atR = {k}
    BY <2>1 DEF Distinct
  <2>3. atE = {i}
    <3>1. \A j \in atE : m - n + j \in 1 .. m /\ rs[m - n + j] = u
      BY <1>1, <1>2
    <3>2. \A j \in atE : m - n + j = m - n + i
      BY <2>1, <3>1 DEF Distinct
    <3>3. \A j \in atE : j = i
      BY <1>1, <3>2
    <3>4. QED
      BY <1>3, <3>3
  <2>4. /\ d \in Seq(CachedEntry) /\ Len(d) = n - 1
        /\ \A j \in 1 .. n - 1 : d[j] = IF j < i THEN es[j] ELSE es[j + 1]
    BY <2>3, DroppedKeeps, ZenonT(40)
  <2>5. /\ Len(r) = m - 1 /\ \A j \in 1 .. m - 1 : r[j] = IF j < k THEN rs[j] ELSE rs[j + 1]
    BY <2>1, <2>2, DroppedKeeps, ZenonT(40)
  <2> HIDE DEF d, r, atE, atR, m, n
  <2>6. \A j \in 1 .. n - 1 : d[j].url = r[(m - 1) - (n - 1) + j]
    <3> TAKE j \in 1 .. n - 1
    <3>1. /\ (m - 1) - (n - 1) + j = m - n + j /\ m - n + j \in 1 .. m - 1
          /\ m - n + (j + 1) = (m - n + j) + 1 /\ j \in 1 .. n /\ j + 1 \in 1 .. n
          /\ j < i <=> m - n + j < k
      BY <1>1
    <3>2. CASE j < i
      BY <3>1, <3>2, <2>4, <2>5, <1>2
    <3>3. CASE ~(j < i)
      <4>1. d[j] = es[j + 1] /\ es[j + 1].url = rs[m - n + (j + 1)]
        BY <3>1, <3>3, <2>4, <1>2
      <4>2. r[m - n + j] = rs[(m - n + j) + 1]
        BY <3>1, <3>3, <2>5
      <4>3. QED
        BY <3>1, <4>1, <4>2
    <3>4. QED
      BY <3>2, <3>3
  <2>7. QED
    BY <1>1, <2>4, <2>5, <2>6 DEF IsEnd
<1>4. ASSUME \A i \in 1 .. n : es[i].url # u
      PROVE  d = es /\ IsEnd(d, r)
  <2>1. atE = {} /\ d = es
    BY <1>4, DroppedNone
  <2>2. CASE atR = {}
    BY <2>1, <2>2, DroppedNone
  <2>3. ASSUME NEW k \in 1 .. m, rs[k] = u PROVE IsEnd(es, r)
    <3>1. atR = {k}
      BY <2>3 DEF Distinct
    <3>2. /\ Len(r) = m - 1 /\ \A j \in 1 .. m - 1 : r[j] = IF j < k THEN rs[j] ELSE rs[j + 1]
      BY <3>1, DroppedKeeps, ZenonT(40)
    <3> HIDE DEF r, atE, atR, d, m, n
    <3>3. k <= m - n
      <4> SUFFICES ASSUME ~(k <= m - n) PROVE FALSE
        OBVIOUS
      <4>1. k - (m - n) \in 1 .. n /\ m - n + (k - (m - n)) = k
        BY <1>1
      <4>2. QED
        BY <4>1, <1>2, <1>4, <2>3
    <3>4. n <= m - 1
      BY <1>1, <3>3
    <3>5. \A j \in 1 .. n : es[j].url = r[(m - 1) - n + j]
      <4> TAKE j \in 1 .. n
      <4>1. /\ (m - 1) - n + j \in 1 .. m - 1 /\ ~((m - 1) - n + j < k)
            /\ ((m - 1) - n + j) + 1 = m - n + j
        BY <1>1, <3>3, <3>4
      <4>2. QED
        BY <4>1, <3>2, <1>2
    <3>6. QED
      BY <3>2, <3>4, <3>5 DEF IsEnd, n
  <2>4. QED
    BY <2>1, <2>2, <2>3
<1>5. QED
  <2> HIDE DEF d, r
  <2>1. CASE \E i \in 1 .. n : es[i].url = u
    <3>1. PICK i \in 1 .. n : es[i].url = u
      BY <2>1
    <3>2. d \in Seq(CachedEntry) /\ IsEnd(d, r) /\ Len(d) = n - 1
      BY <1>3, <3>1
    <3>3. Len(d) <= n
      BY <1>1, <3>2
    <3>4. QED
      BY <3>2, <3>3, Zenon DEF d, r, m, n, atE, atR
  <2>2. CASE ~ \E i \in 1 .. n : es[i].url = u
    <3>1. d = es /\ IsEnd(d, r)
      BY <1>4, <2>2
    <3>2. Len(d) <= n
      BY <1>1, <3>1
    <3>3. QED
      BY <2>2, <3>1, <3>2, Zenon DEF d, r, m, n, atE, atR
  <2>3. QED
    BY <2>1, <2>2

(* A hit or a store moves its URL to the end of both. *)
LEMMA MovedIsEnd ==
    ASSUME NEW es \in Seq(CachedEntry), NEW rs \in Seq(Url), Distinct(rs), IsEnd(es, rs),
           NEW e \in CachedEntry
    PROVE  /\ Moved(es, e) \in Seq(CachedEntry) /\ IsEnd(Moved(es, e), UsedLast(rs, e.url))
           /\ Len(Moved(es, e)) <= Len(es) + 1
           /\ (\E i \in 1 .. Len(es) : es[i].url = e.url) => Len(Moved(es, e)) = Len(es)
<1> DEFINE u == e.url
           d == Dropped(es, {i \in 1 .. Len(es) : es[i].url = u})
           r == Dropped(rs, {i \in 1 .. Len(rs) : rs[i] = u})
<1>1. u \in Url
  BY DEF CachedEntry
<1>2. /\ d \in Seq(CachedEntry) /\ IsEnd(d, r) /\ Len(d) <= Len(es)
      /\ (\E i \in 1 .. Len(es) : es[i].url = u) => Len(d) = Len(es) - 1
  BY <1>1, DroppedIsEnd
<1>3. r \in Seq(Url)
  <2>1. CASE {i \in 1 .. Len(rs) : rs[i] = u} = {}
    BY <2>1, DroppedNone
  <2>2. ASSUME NEW k \in 1 .. Len(rs), rs[k] = u PROVE r \in Seq(Url)
    <3>1. {i \in 1 .. Len(rs) : rs[i] = u} = {k}
      BY <2>2 DEF Distinct
    <3>2. QED
      BY <3>1, DroppedKeeps
  <2>3. QED
    BY <2>1, <2>2
<1>4. Moved(es, e) = Append(d, e) /\ UsedLast(rs, u) = Append(r, u)
  BY Zenon DEF Moved, UsedLast
<1> HIDE DEF d, r, u
<1> DEFINE m == Append(d, e)
           l == Append(r, u)
<1>5. /\ m \in Seq(CachedEntry) /\ Len(m) = Len(d) + 1 /\ Len(d) \in Nat
      /\ \A i \in 1 .. Len(d) : m[i] = d[i]
      /\ m[Len(d) + 1] = e
  BY <1>2, AppendProperties, LenProperties
<1>6. /\ Len(l) = Len(r) + 1 /\ Len(r) \in Nat
      /\ \A i \in 1 .. Len(r) : l[i] = r[i]
      /\ l[Len(r) + 1] = u
  BY <1>1, <1>3, AppendProperties, LenProperties
<1> HIDE DEF m, l
<1>7. IsEnd(m, l)
  <2>1. Len(d) <= Len(r) /\ \A i \in 1 .. Len(d) : d[i].url = r[Len(r) - Len(d) + i]
    BY <1>2 DEF IsEnd
  <2>2. Len(m) <= Len(l)
    BY <1>5, <1>6, <2>1
  <2>3. ASSUME NEW i \in 1 .. Len(m) PROVE m[i].url = l[Len(l) - Len(m) + i]
    <3>1. CASE i \in 1 .. Len(d)
      <4>1. /\ Len(l) - Len(m) + i = Len(r) - Len(d) + i
            /\ Len(r) - Len(d) + i \in 1 .. Len(r)
        BY <1>5, <1>6, <2>1, <3>1
      <4>2. QED
        BY <4>1, <1>5, <1>6, <2>1, <3>1
    <3>2. CASE i = Len(d) + 1
      <4>1. Len(l) - Len(m) + i = Len(r) + 1
        BY <1>5, <1>6, <3>2
      <4>2. QED
        BY <4>1, <1>5, <1>6, <3>2 DEF u
    <3>3. QED
      BY <3>1, <3>2, <1>5
  <2>4. QED
    BY <2>2, <2>3 DEF IsEnd
<1>8. Len(es) \in Nat
  BY LenProperties
<1>9. Len(m) <= Len(es) + 1 /\ ((\E i \in 1 .. Len(es) : es[i].url = u) => Len(m) = Len(es))
  BY <1>2, <1>5, <1>8
<1>10. QED
  BY <1>4, <1>5, <1>7, <1>9, Zenon DEF m, l, u

(* Evicting the oldest entries leaves the end of the order of use. *)
LEMMA NewestStaysEnd ==
    ASSUME NEW es \in Seq(CachedEntry), NEW rs \in Seq(Url), IsEnd(es, rs), NEW n \in Nat
    PROVE  IsEnd(Newest(es, n), rs)
<1> DEFINE s == Newest(es, n)
<1>1. /\ Len(s) <= Len(es) /\ Len(s) \in Nat /\ Len(es) \in Nat /\ Len(rs) \in Nat
      /\ \A j \in 1 .. Len(s) : s[j] = es[Len(es) - Len(s) + j]
  BY NewestIsEnd, LenProperties
<1>2. Len(es) <= Len(rs) /\ \A i \in 1 .. Len(es) : es[i].url = rs[Len(rs) - Len(es) + i]
  BY DEF IsEnd
<1> HIDE DEF s
<1>3. \A j \in 1 .. Len(s) : s[j].url = rs[Len(rs) - Len(s) + j]
  <2> TAKE j \in 1 .. Len(s)
  <2>1. /\ Len(es) - Len(s) + j \in 1 .. Len(es)
        /\ Len(rs) - Len(es) + (Len(es) - Len(s) + j) = Len(rs) - Len(s) + j
    BY <1>1, <1>2
  <2>2. QED
    BY <2>1, <1>1, <1>2
<1>4. QED
  BY <1>1, <1>2, <1>3 DEF IsEnd, s

-----------------------------------------------------------------------------
(* The inductive invariant of the cache: what a lookup has in its hands was  *)
(* answered no earlier than it read the clock, or was young when it looked;  *)
(* an entry is dated no later than its answer; and the URLs kept are the     *)
(* last ones used.                                                           *)
Dated ==
    /\ entries \in Seq(CachedEntry)
    /\ \A t \in Thread :
          /\ stamp[t] <= now
          /\ pc[t] = "store" => got[t] \in Answers /\ stamp[t] <= valid[t]

InOrderOfUse == Distinct(recency) /\ IsEnd(entries, recency) /\ Len(entries) <= MaxSize

CacheInv == TypeOK /\ Dated /\ InOrderOfUse /\ NeverStale

(* The inductive invariant holds at the start. *)
LEMMA CacheInit == Init => CacheInv
<1> SUFFICES ASSUME Init PROVE CacheInv
  OBVIOUS
<1> USE DEF Init
<1>1. TypeOK
  BY EmptySeq DEF TypeOK, Answered
<1>2. Dated /\ NeverStale
  BY EmptySeq DEF Dated, NeverStale
<1>3. InOrderOfUse
  BY EmptySeq DEF InOrderOfUse, Distinct, IsEnd
<1>4. QED
  BY <1>1, <1>2, <1>3 DEF CacheInv

(* A hit or a store that puts entry e at the end, and evicts what is too     *)
(* much, keeps the cache dated and in the order of use.                      *)
LEMMA PutLast ==
    ASSUME CacheInv, NEW e \in CachedEntry, Use(e.url),
           entries' = Evicted(Append(Without(e.url), e))
    PROVE  /\ entries' \in Seq(CachedEntry) /\ recency' \in Seq(Url) /\ InOrderOfUse'
<1>1. /\ entries \in Seq(CachedEntry) /\ recency \in Seq(Url)
      /\ Distinct(recency) /\ IsEnd(entries, recency) /\ Len(entries) <= MaxSize
  BY DEF CacheInv, TypeOK, Dated, InOrderOfUse
<1>2. e.url \in Url
  BY DEF CachedEntry
<1>3. /\ Append(Without(e.url), e) = Moved(entries, e) /\ recency' = UsedLast(recency, e.url)
  BY DEF Without, Cached, Moved, Use, Used, UsedLast
<1>4. recency' \in Seq(Url) /\ Distinct(recency')
  BY <1>1, <1>2, <1>3, UsedLastType
<1>5. Moved(entries, e) \in Seq(CachedEntry) /\ IsEnd(Moved(entries, e), recency')
  BY <1>1, <1>3, MovedIsEnd
<1>6. entries' = Newest(Moved(entries, e), MaxSize)
  BY <1>3 DEF Evicted
<1>7. entries' \in Seq(CachedEntry) /\ Len(entries') <= MaxSize
  BY <1>5, <1>6, NewestIsEnd
<1>8. IsEnd(entries', recency')
  BY <1>4, <1>5, <1>6, NewestStaysEnd
<1>9. QED
  BY <1>4, <1>7, <1>8 DEF InOrderOfUse, Distinct

(* Every step of the cache keeps its invariant. *)
LEMMA CacheStep == CacheInv /\ [Next]_cacheVars => CacheInv'
<1> SUFFICES ASSUME CacheInv, [Next]_cacheVars PROVE CacheInv'
  OBVIOUS
<1>1. /\ TypeOK /\ Dated /\ InOrderOfUse /\ NeverStale
      /\ now \in Nat /\ \A t \in Thread : stamp[t] \in Nat /\ valid[t] \in Nat
  BY DEF CacheInv, TypeOK
<1>2. ASSUME UNCHANGED <<entries, recency>> PROVE InOrderOfUse'
  BY <1>1, <1>2 DEF InOrderOfUse, Distinct, IsEnd
<1>3. ASSUME entries' \in Seq(CachedEntry)
      PROVE  entries' \in Seq([url : Url, at : 0 .. MaxTime, answer : Answers, valid : 0 .. MaxTime])
  <2> DEFINE R == [url : Url, at : 0 .. MaxTime, answer : Answers, valid : 0 .. MaxTime]
  <2>1. CachedEntry \subseteq R
    BY DEF CachedEntry
  <2> HIDE DEF R
  <2>2. entries' \in Seq(R)
    BY <1>3, <2>1, SeqMonotonic
  <2>3. QED
    BY <2>2 DEF R
<1>4. ASSUME NEW t \in Thread, BeginLookup(t) PROVE CacheInv'
  <2> USE <1>4 DEF BeginLookup, Goto
  <2>1. TypeOK'
    BY <1>1 DEF TypeOK
  <2>2. Dated' /\ NeverStale'
    BY <1>1 DEF TypeOK, Dated, NeverStale
  <2>3. InOrderOfUse'
    BY <1>2
  <2>4. QED
    BY <2>1, <2>2, <2>3 DEF CacheInv
<1>5. ASSUME NEW t \in Thread, Hit(t) PROVE CacheInv'
  <2>1. PICK i \in Hits(t) :
          /\ got' = [got EXCEPT ![t] = entries[i].answer]
          /\ valid' = [valid EXCEPT ![t] = entries[i].valid]
          /\ entries' = Append(Without(url[t]), entries[i])
    BY <1>5 DEF Hit
  <2>2. i \in 1 .. Len(entries) /\ entries[i].url = url[t] /\ stamp[t] - entries[i].at < Ttl
    BY <2>1 DEF Hits, Cached, Young
  <2>3. /\ pc' = [pc EXCEPT ![t] = "return"] /\ Use(url[t])
        /\ UNCHANGED <<inner, now, url, stamp, lookups>>
    BY <1>5 DEF Hit, Goto
  <2> DEFINE e == entries[i]
  <2>4. e \in CachedEntry /\ e.url = url[t]
    BY <1>1, <2>2, ElementOfSeq DEF Dated
  <2>5. /\ e.answer \in Answers /\ e.valid \in 0 .. MaxTime /\ e.at \in 0 .. MaxTime
        /\ e.at <= e.valid
    BY <2>4 DEF CachedEntry
  <2>6. entries' = Evicted(Append(Without(e.url), e))
    <3>1. Append(Without(e.url), e) = Moved(entries, e)
      BY DEF Without, Cached, Moved
    <3>2. Moved(entries, e) \in Seq(CachedEntry) /\ Len(Moved(entries, e)) = Len(entries)
      BY <1>1, <2>2, <2>4, MovedIsEnd DEF Dated, InOrderOfUse, TypeOK
    <3>3. Len(Moved(entries, e)) <= MaxSize
      BY <1>1, <3>2 DEF InOrderOfUse
    <3>4. Newest(Moved(entries, e), MaxSize) = Moved(entries, e)
      BY <3>2, <3>3, NewestIsEnd
    <3>5. QED
      BY <2>1, <2>4, <3>1, <3>4 DEF Evicted
  <2>7. entries' \in Seq(CachedEntry) /\ recency' \in Seq(Url) /\ InOrderOfUse'
    BY <2>3, <2>4, <2>6, PutLast
  <2> HIDE DEF e
  <2>8. stamp[t] - e.valid < Ttl
    BY <1>1, <2>2, <2>5 DEF e
  <2>9. TypeOK'
    BY <1>1, <1>3, <2>1, <2>3, <2>5, <2>7 DEF TypeOK, Answered, e
  <2>10. Dated'
    BY <1>1, <2>1, <2>3, <2>7 DEF Dated, TypeOK
  <2>11. NeverStale'
    BY <1>1, <2>1, <2>3, <2>8 DEF NeverStale, TypeOK, e
  <2>12. QED
    BY <2>7, <2>9, <2>10, <2>11 DEF CacheInv
<1>6. ASSUME NEW t \in Thread, Miss(t) PROVE CacheInv'
  <2> USE <1>6 DEF Miss, Goto
  <2>1. TypeOK'
    BY <1>1 DEF TypeOK
  <2>2. Dated' /\ NeverStale'
    BY <1>1 DEF TypeOK, Dated, NeverStale
  <2>3. InOrderOfUse'
    BY <1>2
  <2>4. QED
    BY <2>1, <2>2, <2>3 DEF CacheInv
<1>7. ASSUME NEW t \in Thread, AskInner(t) PROVE CacheInv'
  <2>1. /\ got' = [got EXCEPT ![t] = inner[url[t]]] /\ valid' = [valid EXCEPT ![t] = now]
        /\ pc' = [pc EXCEPT ![t] = IF inner[url[t]] = NoOpinion THEN "return" ELSE "store"]
        /\ UNCHANGED <<entries, inner, now, url, stamp, recency, lookups>>
    BY <1>7 DEF AskInner, Goto
  <2>2. inner[url[t]] \in Answered
    BY <1>1 DEF TypeOK
  <2>3. TypeOK'
    BY <1>1, <2>1, <2>2 DEF TypeOK
  <2>4. Dated'
    BY <1>1, <2>1, <2>2 DEF TypeOK, Dated, Answered
  <2>5. NeverStale'
    BY <1>1, <2>1 DEF TypeOK, Dated, NeverStale
  <2>6. InOrderOfUse'
    BY <1>2, <2>1
  <2>7. QED
    BY <2>3, <2>4, <2>5, <2>6 DEF CacheInv
<1>8. ASSUME NEW t \in Thread, Store(t) PROVE CacheInv'
  <2>1. /\ pc[t] = "store" /\ entries' = Evicted(Append(Without(url[t]), Entry(t, stamp[t])))
        /\ Use(url[t]) /\ pc' = [pc EXCEPT ![t] = "return"]
        /\ UNCHANGED <<inner, now, url, stamp, got, valid, lookups>>
    BY <1>8 DEF Store, Goto
  <2> DEFINE e == Entry(t, stamp[t])
  <2>2. e \in CachedEntry /\ e.url = url[t]
    BY <1>1, <2>1 DEF Entry, CachedEntry, Dated, TypeOK
  <2>3. entries' \in Seq(CachedEntry) /\ recency' \in Seq(Url) /\ InOrderOfUse'
    BY <2>1, <2>2, PutLast
  <2>4. TypeOK'
    BY <1>1, <1>3, <2>1, <2>3 DEF TypeOK
  <2>5. Dated'
    BY <1>1, <2>1, <2>3 DEF Dated, TypeOK
  <2>6. NeverStale'
    BY <1>1, <2>1 DEF NeverStale, Dated, TypeOK
  <2>7. QED
    BY <2>3, <2>4, <2>5, <2>6 DEF CacheInv
<1>9. ASSUME NEW t \in Thread, Return(t) PROVE CacheInv'
  <2> USE <1>9 DEF Return, Goto
  <2>1. TypeOK'
    BY <1>1 DEF TypeOK
  <2>2. Dated' /\ NeverStale'
    BY <1>1 DEF TypeOK, Dated, NeverStale
  <2>3. InOrderOfUse'
    BY <1>2
  <2>4. QED
    BY <2>1, <2>2, <2>3 DEF CacheInv
<1>10. CASE Clear
  <2>1. /\ entries' = << >> /\ recency' = << >>
        /\ UNCHANGED <<inner, now, pc, url, stamp, got, valid, lookups>>
    BY <1>10 DEF Clear
  <2>2. TypeOK' /\ Dated'
    BY <1>1, <2>1, EmptySeq DEF TypeOK, Dated
  <2>3. NeverStale' /\ InOrderOfUse'
    BY <1>1, <2>1, EmptySeq DEF NeverStale, InOrderOfUse, Distinct, IsEnd
  <2>4. QED
    BY <2>2, <2>3 DEF CacheInv
<1>11. CASE InnerChanges
  <2>1. inner' \in [Url -> Answered]
        /\ UNCHANGED <<entries, now, pc, url, stamp, got, valid, recency, lookups>>
    BY <1>1, <1>11 DEF InnerChanges, TypeOK
  <2>2. TypeOK' /\ Dated' /\ NeverStale'
    BY <1>1, <2>1 DEF TypeOK, Dated, NeverStale
  <2>3. QED
    BY <1>2, <2>1, <2>2 DEF CacheInv
<1>12. CASE Tick
  <2>1. /\ now' \in 0 .. MaxTime /\ now <= now'
        /\ UNCHANGED <<entries, inner, pc, url, stamp, got, valid, recency, lookups>>
    BY <1>1, <1>12 DEF Tick, TypeOK
  <2>2. TypeOK' /\ Dated' /\ NeverStale'
    BY <1>1, <2>1 DEF TypeOK, Dated, NeverStale
  <2>3. QED
    BY <1>2, <2>1, <2>2 DEF CacheInv
<1>13. CASE UNCHANGED cacheVars
  <2>1. TypeOK' /\ Dated' /\ NeverStale'
    BY <1>1, <1>13 DEF cacheVars, TypeOK, Dated, NeverStale
  <2>2. QED
    BY <1>2, <1>13, <2>1 DEF cacheVars, CacheInv
<1>14. QED
  BY <1>4, <1>5, <1>6, <1>7, <1>8, <1>9, <1>10, <1>11, <1>12, <1>13 DEF Next, Looking, Around

(* The inductive invariant of the cache, alone and under RoundRobin. *)
THEOREM CacheInvariant == Spec => []CacheInv
BY CacheInit, CacheStep, PTL DEF Spec

-----------------------------------------------------------------------------
(* RoundRobin over Cached takes a step of Cached or leaves it alone: what is *)
(* proved of the cache holds under the rotation (wrappers.py:156-186).       *)
THEOREM RotationRefinesCache == RoundRobinSpec => Spec
<1>1. RoundRobinInit => Init
  BY DEF RoundRobinInit
<1>2. [RoundRobinNext]_vars => [Next]_cacheVars
  <2> SUFFICES ASSUME [RoundRobinNext]_vars PROVE [Next]_cacheVars
    OBVIOUS
  <2>1. ASSUME NEW t \in Thread, Rotate(t) PROVE Return(t)
    BY <2>1 DEF Rotate, Rotates, Return
  <2>2. ASSUME NEW t \in Thread, PassOn(t) PROVE Return(t)
    BY <2>2 DEF PassOn
  <2>3. CASE ((\E t \in Thread : Looking(t)) \/ Around) /\ UNCHANGED <<positions, led>>
    BY <2>3 DEF Next
  <2>4. CASE UNCHANGED vars
    BY <2>4 DEF vars, cacheVars
  <2>5. QED
    BY <2>1, <2>2, <2>3, <2>4 DEF RoundRobinNext, Next
<1>3. QED
  BY <1>1, <1>2, PTL DEF RoundRobinSpec, Spec

(* What a lookup returns the inner map answered less than the ttl before the *)
(* lookup read the clock (wrappers.py:81-93).                                *)
THEOREM CacheNeverStale == RoundRobinSpec => []NeverStale
<1>1. CacheInv => NeverStale
  BY DEF CacheInv
<1>2. QED
  BY <1>1, RotationRefinesCache, CacheInvariant, PTL

(* The cache keeps the URLs used last, each once (wrappers.py:85, 89-92).    *)
THEOREM CacheKeepsMostRecent == RoundRobinSpec => []KeepsMostRecent
<1>1. CacheInv => KeepsMostRecent
  BY DEF CacheInv, InOrderOfUse, IsEnd, KeepsMostRecent
<1>2. QED
  BY <1>1, RotationRefinesCache, CacheInvariant, PTL

-----------------------------------------------------------------------------
(* A position wraps to 0 at the end of its answer. *)
LEMMA Wraps ==
    ASSUME NEW n \in Nat \ {0}, NEW p \in 0 .. n - 1
    PROVE  (p + 1) % n = IF p = n - 1 THEN 0 ELSE p + 1
<1>1. CASE p = n - 1
  BY <1>1
<1>2. CASE p # n - 1
  <2>1. p + 1 \in 0 .. n - 1
    BY <1>2
  <2>2. QED
    BY <1>2, <2>1
<1>3. QED
  BY <1>1, <1>2

(* A slot of the position table holds a place of its answer. *)
Slot == {r \in [answer : Answers, position : Nat] : r.position \in Places(r.answer)}

OncePerAnswer(ps) ==
    \A i, j \in 1 .. Len(ps) : ps[i].answer = ps[j].answer => i = j

PositionIn(ps, a) ==
    LET at == {i \in 1 .. Len(ps) : ps[i].answer = a}
    IN  IF at = {} THEN 0 ELSE ps[CHOOSE i \in at : TRUE].position

(* The position of a kept answer is that of its one slot. *)
LEMMA PositionOfSlot ==
    ASSUME NEW ps \in Seq(Slot), OncePerAnswer(ps), NEW i \in 1 .. Len(ps)
    PROVE  PositionIn(ps, ps[i].answer) = ps[i].position
<1> DEFINE at == {j \in 1 .. Len(ps) : ps[j].answer = ps[i].answer}
<1>1. at = {i}
  BY DEF OncePerAnswer
<1>2. QED
  BY <1>1 DEF PositionIn

(* The position of an answer is one of its places, and 0 when none is kept. *)
LEMMA PositionIsPlace ==
    ASSUME NEW ps \in Seq(Slot), OncePerAnswer(ps), NEW a \in Answers
    PROVE  /\ PositionIn(ps, a) \in Places(a)
           /\ ~In(ps, a) => PositionIn(ps, a) = 0
<1>1. CASE In(ps, a)
  <2>1. PICK i \in 1 .. Len(ps) : ps[i].answer = a
    BY <1>1 DEF In
  <2>2. ps[i] \in Slot
    BY ElementOfSeq
  <2>3. QED
    BY <1>1, <2>1, <2>2, PositionOfSlot DEF Slot
<1>2. CASE ~In(ps, a)
  BY <1>2 DEF In, PositionIn, Places
<1>3. QED
  BY <1>1, <1>2

(* Rotating an answer gives it the newest slot, and leaves the others theirs *)
(* or drops them.                                                            *)
LEMMA RotatedTable ==
    ASSUME NEW ps \in Seq(Slot), OncePerAnswer(ps), NEW r \in Slot
    PROVE  LET m == Newest(Append(Dropped(ps, {i \in 1 .. Len(ps) : ps[i].answer = r.answer}), r),
                           MaxAnswers)
           IN  /\ m \in Seq(Slot) /\ OncePerAnswer(m)
               /\ \E k \in 1 .. Len(m) : m[k] = r
               /\ \A k \in 1 .. Len(m) : m[k] = r \/ \E i \in 1 .. Len(ps) : m[k] = ps[i]
<1> DEFINE at == {i \in 1 .. Len(ps) : ps[i].answer = r.answer}
           d == Dropped(ps, at)
<1>1. Len(ps) \in Nat
  BY LenProperties
<1>2. /\ d \in Seq(Slot) /\ OncePerAnswer(d)
      /\ \A j \in 1 .. Len(d) : d[j].answer # r.answer /\ \E i \in 1 .. Len(ps) : d[j] = ps[i]
  <2>1. CASE at = {}
    <3>1. d = ps
      BY <2>1, DroppedNone
    <3>2. \A i \in 1 .. Len(ps) : ps[i].answer # r.answer
      BY <2>1
    <3> HIDE DEF d, at
    <3>3. QED
      BY <3>1, <3>2
  <2>2. ASSUME NEW i \in 1 .. Len(ps), ps[i].answer = r.answer
        PROVE  /\ d \in Seq(Slot) /\ OncePerAnswer(d)
               /\ \A j \in 1 .. Len(d) :
                     d[j].answer # r.answer /\ \E k \in 1 .. Len(ps) : d[j] = ps[k]
    <3>1. at = {i}
      BY <2>2 DEF OncePerAnswer
    <3>2. /\ d \in Seq(Slot) /\ Len(d) = Len(ps) - 1
          /\ \A j \in 1 .. Len(ps) - 1 : d[j] = IF j < i THEN ps[j] ELSE ps[j + 1]
      BY <3>1, DroppedKeeps, ZenonT(40)
    <3> HIDE DEF d, at
    <3> DEFINE old(j) == IF j < i THEN j ELSE j + 1
    <3>3. \A j \in 1 .. Len(d) : old(j) \in 1 .. Len(ps) /\ old(j) # i /\ d[j] = ps[old(j)]
      BY <1>1, <3>2
    <3>4. \A j, k \in 1 .. Len(d) : old(j) = old(k) => j = k
      BY <1>1, <3>2
    <3> HIDE DEF old
    <3>5. OncePerAnswer(d)
      BY <3>3, <3>4 DEF OncePerAnswer
    <3>6. \A j \in 1 .. Len(d) : d[j].answer # r.answer
      BY <2>2, <3>3 DEF OncePerAnswer
    <3>7. QED
      BY <3>2, <3>3, <3>5, <3>6
  <2>3. QED
    BY <2>1, <2>2
<1> HIDE DEF d
<1> DEFINE q == Append(d, r)
           m == Newest(q, MaxAnswers)
<1>3. /\ q \in Seq(Slot) /\ Len(q) = Len(d) + 1 /\ Len(d) \in Nat
      /\ \A i \in 1 .. Len(d) : q[i] = d[i]
      /\ q[Len(d) + 1] = r
  BY <1>2, AppendProperties, LenProperties
<1> HIDE DEF q
<1>4. /\ m \in Seq(Slot) /\ Len(m) \in Nat /\ Len(m) <= Len(q)
      /\ Len(q) <= MaxAnswers => m = q
      /\ \A j \in 1 .. Len(m) : m[j] = q[Len(q) - Len(m) + j]
  <2> DEFINE n == MaxAnswers
  <2>1. n \in Nat /\ q \in Seq(Slot)
    BY <1>3
  <2> HIDE DEF n
  <2>2. /\ Newest(q, n) \in Seq(Slot) /\ Len(Newest(q, n)) <= Len(q)
        /\ Len(q) <= n => Newest(q, n) = q
        /\ Len(Newest(q, n)) \in Nat
        /\ \A j \in 1 .. Len(Newest(q, n)) :
              Newest(q, n)[j] = q[Len(q) - Len(Newest(q, n)) + j]
    BY <2>1, NewestIsEnd
  <2>3. QED
    BY <2>2, Zenon DEF n
<1>5. Len(m) >= 1
  <2>1. CASE Len(q) <= MaxAnswers
    BY <1>3, <1>4, <2>1
  <2>2. CASE ~(Len(q) <= MaxAnswers)
    <3> DEFINE n == MaxAnswers
    <3>1. m = SubSeq(q, Len(q) - n + 1, Len(q)) /\ Len(q) - n + 1 \in 1 .. Len(q)
      BY <1>3, <2>2 DEF Newest
    <3>2. Len(m) = n
      <4>1. \A j \in Len(q) - n + 1 .. Len(q) : q[j] \in Slot
        BY <1>3, <3>1, ElementOfSeq
      <4>2. QED
        BY <1>3, <3>1, <4>1, SubSeqProperties
    <3>3. QED
      BY <3>2
  <2>3. QED
    BY <2>1, <2>2
<1> HIDE DEF m
<1>6. m[Len(m)] = r
  BY <1>3, <1>4, <1>5
<1>7. \A k \in 1 .. Len(m) : m[k] = r \/ \E i \in 1 .. Len(ps) : m[k] = ps[i]
  <2> TAKE k \in 1 .. Len(m)
  <2> DEFINE j == Len(q) - Len(m) + k
  <2>1. m[k] = q[j] /\ (j \in 1 .. Len(d) \/ j = Len(d) + 1)
    <3>1. m[k] = q[j]
      BY <1>4
    <3>2. j \in 1 .. Len(d) + 1
      BY <1>3, <1>4
    <3>3. QED
      BY <1>3, <3>1, <3>2
  <2>2. QED
    BY <2>1, <1>2, <1>3
<1>8. OncePerAnswer(q)
  <2> SUFFICES ASSUME NEW i \in 1 .. Len(q), NEW j \in 1 .. Len(q), q[i].answer = q[j].answer
               PROVE  i = j
    BY DEF OncePerAnswer
  <2>1. /\ i \in 1 .. Len(d) \/ i = Len(d) + 1
        /\ j \in 1 .. Len(d) \/ j = Len(d) + 1
    BY <1>3
  <2>2. CASE i \in 1 .. Len(d) /\ j \in 1 .. Len(d)
    BY <2>2, <1>2, <1>3 DEF OncePerAnswer
  <2>3. CASE i = Len(d) + 1 /\ j \in 1 .. Len(d)
    BY <2>3, <1>2, <1>3
  <2>4. CASE i \in 1 .. Len(d) /\ j = Len(d) + 1
    BY <2>4, <1>2, <1>3
  <2>5. QED
    BY <2>1, <2>2, <2>3, <2>4
<1>9. OncePerAnswer(m)
  <2> SUFFICES ASSUME NEW i \in 1 .. Len(m), NEW j \in 1 .. Len(m), m[i].answer = m[j].answer
               PROVE  i = j
    BY DEF OncePerAnswer
  <2>1. /\ Len(q) - Len(m) + i \in 1 .. Len(q) /\ Len(q) - Len(m) + j \in 1 .. Len(q)
        /\ m[i] = q[Len(q) - Len(m) + i] /\ m[j] = q[Len(q) - Len(m) + j]
    BY <1>3, <1>4
  <2>2. Len(q) - Len(m) + i = Len(q) - Len(m) + j
    BY <2>1, <1>8 DEF OncePerAnswer
  <2>3. QED
    BY <2>2, <1>3, <1>4
<1>10. \E k \in 1 .. Len(m) : m[k] = r
  <2>1. Len(m) \in 1 .. Len(m)
    BY <1>4, <1>5
  <2>2. QED
    BY <1>6, <2>1
<1>11. QED
  BY <1>4, <1>7, <1>9, <1>10, Zenon DEF m, q, d

-----------------------------------------------------------------------------
(* The inductive invariant of the rotation: the places before an answer's    *)
(* position have led once more than those from it on.                        *)
Turn(a) ==
    /\ led[a] \in [Places(a) -> Nat]
    /\ \A p \in Places(a) :
          led[a][p] = led[a][Size[a] - 1] + (IF p < PositionIn(positions, a) THEN 1 ELSE 0)

Rotation ==
    /\ positions \in Seq(Slot) /\ OncePerAnswer(positions)
    /\ \A a \in Answers : Turn(a)

RotationInv == CacheInv /\ Rotation

(* The last place is one of the answer's. *)
LEMMA LastPlace == \A a \in Answers : Size[a] - 1 \in Places(a) /\ Size[a] \in Nat
BY DEF Places

(* A rotation keeps every answer's turn. *)
LEMMA RotateStep ==
    ASSUME RotationInv, NEW t \in Thread, Rotate(t)
    PROVE  Rotation'
<1> DEFINE a == got[t]
           pos == PositionIn(positions, a)
           r == [answer |-> a, position |-> (pos + 1) % Size[a]]
           m == Newest(Append(Dropped(positions, {i \in 1 .. Len(positions) :
                                                     positions[i].answer = r.answer}), r),
                       MaxAnswers)
<1>1. a \in Answers /\ Size[a] \in Nat /\ Size[a] > 1
  BY DEF Rotate, Rotates, RotationInv, CacheInv, TypeOK, Answered
<1>2. /\ positions \in Seq(Slot) /\ OncePerAnswer(positions)
      /\ \A b \in Answers : Turn(b)
  BY DEF RotationInv, Rotation
<1>3. pos \in Places(a)
  BY <1>1, <1>2, PositionIsPlace
<1>4. (pos + 1) % Size[a] = (IF pos = Size[a] - 1 THEN 0 ELSE pos + 1)
      /\ (pos + 1) % Size[a] \in Places(a)
  <2>1. Size[a] \in Nat \ {0} /\ pos \in 0 .. Size[a] - 1
    BY <1>1, <1>3 DEF Places
  <2> HIDE DEF pos
  <2>2. (pos + 1) % Size[a] = IF pos = Size[a] - 1 THEN 0 ELSE pos + 1
    BY <2>1, Wraps
  <2>3. QED
    BY <2>1, <2>2 DEF Places
<1>5. r \in Slot
  BY <1>1, <1>4 DEF Slot, Places
<1>6. /\ positions' = m
      /\ led' = [b \in Answers |->
                   IF ~In(m, b) THEN [p \in Places(b) |-> 0]
                   ELSE IF b = a THEN [led[b] EXCEPT ![pos] = @ + 1] ELSE led[b]]
  <2>1. Position(a) = pos /\ pos < Size[a]
    BY <1>1, <1>3 DEF Position, Kept, PositionIn, Places
  <2>2. RotateTo(t, (pos + 1) % Size[a])
    BY <2>1 DEF Rotate
  <2>3. QED
    BY <2>1, <2>2 DEF RotateTo, Trimmed, Kept, Led, Leader
<1> HIDE DEF a, pos
<1>7. /\ m \in Seq(Slot) /\ OncePerAnswer(m)
      /\ \E k \in 1 .. Len(m) : m[k] = r
      /\ \A k \in 1 .. Len(m) : m[k] = r \/ \E i \in 1 .. Len(positions) : m[k] = positions[i]
  BY <1>2, <1>5, RotatedTable
<1> HIDE DEF m
<1>8. ASSUME NEW b \in Answers PROVE Turn(b)'
  <2>1. Size[b] - 1 \in Places(b) /\ Size[b] \in Nat
    BY LastPlace
  <2>2. CASE ~In(m, b)
    <3>1. led'[b] = [p \in Places(b) |-> 0]
      BY <1>6, <2>2
    <3>2. PositionIn(m, b) = 0
      BY <1>7, <2>2, PositionIsPlace
    <3>3. \A p \in Places(b) : led'[b][p] = 0 /\ ~(p < 0)
      BY <3>1 DEF Places
    <3>4. led'[b][Size[b] - 1] = 0
      BY <2>1, <3>3
    <3>5. led'[b] \in [Places(b) -> Nat]
      BY <3>1
    <3>6. QED
      BY <1>6, <3>2, <3>3, <3>4, <3>5 DEF Turn
  <2>3. CASE In(m, b) /\ b = a
    <3>1. led'[b] = [led[b] EXCEPT ![pos] = @ + 1]
      BY <1>6, <2>3
    <3>2. PositionIn(m, b) = (pos + 1) % Size[a]
      <4>1. PICK k \in 1 .. Len(m) : m[k] = r
        BY <1>7
      <4>2. m[k].answer = b /\ m[k].position = (pos + 1) % Size[a]
        BY <2>3, <4>1
      <4>3. QED
        BY <1>7, <4>2, PositionOfSlot
    <3>3. /\ led[b] \in [Places(b) -> Nat]
          /\ \A p \in Places(b) : led[b][p] = led[b][Size[b] - 1] + (IF p < pos THEN 1 ELSE 0)
      BY <1>2, <2>3 DEF Turn, pos
    <3>4. led'[b] \in [Places(b) -> Nat]
      <4>1. pos \in Places(b) /\ led[b][pos] + 1 \in Nat
        BY <1>3, <2>3, <3>3
      <4>2. QED
        BY <3>1, <3>3, <4>1
    <3>5. ASSUME NEW p \in Places(b)
          PROVE  led'[b][p] = led'[b][Size[b] - 1]
                                + (IF p < (pos + 1) % Size[a] THEN 1 ELSE 0)
      <4>1. /\ led'[b][p] = led[b][p] + (IF p = pos THEN 1 ELSE 0)
            /\ led'[b][Size[b] - 1] = led[b][Size[b] - 1] + (IF Size[b] - 1 = pos THEN 1 ELSE 0)
        BY <2>1, <3>1, <3>3
      <4>2. /\ p \in Nat /\ p <= Size[b] - 1 /\ pos \in Nat /\ pos <= Size[b] - 1
            /\ led[b][p] \in Nat /\ led[b][Size[b] - 1] \in Nat
        BY <1>3, <2>1, <2>3, <3>3 DEF Places
      <4>3. led[b][p] = led[b][Size[b] - 1] + (IF p < pos THEN 1 ELSE 0)
        BY <3>3
      <4>4. (pos + 1) % Size[a] = IF pos = Size[b] - 1 THEN 0 ELSE pos + 1
        BY <1>4, <2>3
      <4>5. QED
        BY <4>1, <4>2, <4>3, <4>4, <2>1
    <3>6. QED
      BY <1>6, <3>2, <3>4, <3>5 DEF Turn
  <2>4. CASE In(m, b) /\ b # a
    <3>1. led'[b] = led[b]
      BY <1>6, <2>4
    <3>2. PositionIn(m, b) = PositionIn(positions, b)
      <4>1. PICK k \in 1 .. Len(m) : m[k].answer = b
        BY <2>4 DEF In
      <4>2. PICK i \in 1 .. Len(positions) : m[k] = positions[i]
        BY <1>7, <2>4, <4>1, SMTT(40)
      <4>3. PositionIn(m, m[k].answer) = m[k].position
        BY <1>7, PositionOfSlot
      <4>4. PositionIn(positions, positions[i].answer) = positions[i].position
        BY <1>2, PositionOfSlot
      <4>5. QED
        BY <4>1, <4>2, <4>3, <4>4
    <3>3. QED
      BY <1>2, <1>6, <3>1, <3>2 DEF Turn
  <2>5. QED
    BY <2>2, <2>3, <2>4
<1>9. QED
  BY <1>6, <1>7, <1>8 DEF Rotation, OncePerAnswer

(* The rotation's invariant, for every size of answer and of the table. *)
THEOREM RotationInvariant == RoundRobinSpec => []RotationInv
<1>1. RoundRobinInit => RotationInv
  <2> SUFFICES ASSUME RoundRobinInit PROVE RotationInv
    OBVIOUS
  <2>1. CacheInv
    BY CacheInit DEF RoundRobinInit
  <2>2. positions \in Seq(Slot) /\ OncePerAnswer(positions)
    BY EmptySeq DEF RoundRobinInit, OncePerAnswer
  <2>3. ASSUME NEW a \in Answers PROVE Turn(a)
    <3>1. ~In(positions, a)
      BY DEF RoundRobinInit, In
    <3>2. PositionIn(positions, a) = 0
      BY <2>2, <3>1, PositionIsPlace
    <3>3. led[a] = [p \in Places(a) |-> 0]
      BY DEF RoundRobinInit
    <3>4. QED
      BY <3>2, <3>3, LastPlace DEF Turn, Places
  <2>4. QED
    BY <2>1, <2>2, <2>3 DEF RotationInv, Rotation
<1>2. RotationInv /\ [RoundRobinNext]_vars => RotationInv'
  <2> SUFFICES ASSUME RotationInv, [RoundRobinNext]_vars PROVE RotationInv'
    OBVIOUS
  <2>1. Rotation'
    <3>1. CASE UNCHANGED <<positions, led>>
      BY <3>1 DEF RotationInv, Rotation, OncePerAnswer, Turn
    <3>2. QED
      BY <3>1, RotateStep DEF RoundRobinNext, PassOn, vars
  <2>2. CacheInv'
    <3>1. [Next]_cacheVars
      <4>1. ASSUME NEW t \in Thread, Rotate(t) PROVE Return(t)
        BY <4>1 DEF Rotate, Rotates, Return
      <4>2. QED
        BY <4>1 DEF RoundRobinNext, PassOn, Next, vars, cacheVars
    <3>2. QED
      BY <3>1, CacheStep DEF RotationInv
  <2>3. QED
    BY <2>1, <2>2 DEF RotationInv
<1>3. QED
  BY <1>1, <1>2, PTL DEF RoundRobinSpec

(* The lookups that get the same answer lead with each of its entries        *)
(* equally often, give or take one, while the answer is kept                 *)
(* (wrappers.py:96-129).                                                     *)
THEOREM RotationBalanced == RoundRobinSpec => []Balanced
<1>1. RotationInv => Balanced
  <2> SUFFICES ASSUME RotationInv, NEW a \in Answers, NEW p \in Places(a), NEW q \in Places(a)
               PROVE  led[a][p] <= led[a][q] + 1
    BY DEF Balanced
  <2>1. Turn(a) /\ Size[a] - 1 \in Places(a)
    BY LastPlace DEF RotationInv, Rotation
  <2>2. QED
    BY <2>1 DEF Turn
<1>2. QED
  BY <1>1, RotationInvariant, PTL
=============================================================================
