---------------------------- MODULE OfflineProofs ----------------------------
(***************************************************************************)
(* Proofs about what runs outside the servers: about Tuner, for any        *)
(* numbers of candidates, devices, processes and models, any contents of   *)
(* files and any times, and about Registry, for any type specifications    *)
(* and calls.                                                              *)
(***************************************************************************)
EXTENDS Tuner, Registry, ProofLemmas

----------------------------------------------------------------------------
(***************************************************************************)
(* Tuner.                                                                  *)
(***************************************************************************)

\* The candidates whose compiled/<id>.vmfb is of the round under way.
Currents == {i \in Ids : vmfb[i].round = round}

FileRec == [content : Contents \cup {Nothing}, round : Nat]
Measurements == [id : Ids, time : Nat \ {0}, device : Devices, round : Nat]

\* What each function of the first script works on.  Candidates that compile
\* returns are current, so are those that benchmark measures; the baseline
\* alone is run whether it was compiled or not.
WorkSound ==
    /\ step = "compile" => list \in Seq(Ids)
    /\ step = "compile.pool" => todo \in Seq(Ids) /\ results \in Seq(Currents)
    /\ step = "benchmark" => list \in Seq(Currents)
    /\ step = "benchmark.pool" =>
          /\ todo \in Seq(Currents) /\ busy \in [Devices -> Currents \cup {Nothing}]
          /\ results \in Seq(Measurements)
          /\ \A k \in DOMAIN results : results[k].round = round
    /\ step = "benchmark.baseline" =>
          /\ todo \in Seq({0}) /\ busy \in [Devices -> {0, Nothing}]
          /\ results \in Seq(Measurements) /\ measured \in Seq(Measurements)

TunerInv ==
    /\ vmfb \in [Ids -> FileRec] /\ round \in Nat \ {0}
    /\ WorkSound
    /\ error = "vmfb" => vmfb[0] = NoFile /\ step = "ended"

----------------------------------------------------------------------------
(***************************************************************************)
(* Lists.                                                                  *)
(***************************************************************************)

LEMMA TunerNumbers == /\ 0 \in Ids /\ Nothing \notin Ids /\ NumCandidates \in Nat /\ Idle \in [Devices -> {Nothing}]
                      /\ \A i \in Ids : i \in Nat
BY TunerAssumption DEF Ids, Nothing, Idle

\* The numbers up to n.
LEMMA Interval ==
  ASSUME NEW n \in Nat
  PROVE  IsFiniteSet(1 .. n) /\ Cardinality(1 .. n) = n
<1>1. 1 \in Int /\ n \in Int
  OBVIOUS
<1>2. IsFiniteSet(1 .. n)
  BY <1>1, FS_Interval
<1>3. Cardinality(1 .. n) = IF 1 > n THEN 0 ELSE n - 1 + 1
  BY <1>1, FS_Interval
<1>4. QED BY <1>2, <1>3

\* A place among so many is one of 1 .. n + 1.
LEMMA PlaceAmong ==
  ASSUME NEW n \in Nat, NEW K \in SUBSET (1 .. n)
  PROVE  Cardinality(K) \in 0 .. n
<1>1. IsFiniteSet(1 .. n) /\ Cardinality(1 .. n) = n
  BY Interval
<1>2. IsFiniteSet(K) /\ Cardinality(K) <= Cardinality(1 .. n)
  BY <1>1, FS_Subset
<1>3. Cardinality(K) \in Nat
  BY <1>2, FS_CardinalityType
<1>4. QED BY <1>1, <1>2, <1>3

\* t is s with x put in at i.
PutIn(t, s, i, x) ==
    /\ Len(t) = Len(s) + 1 /\ t[i] = x
    /\ \A a \in 1 .. i - 1 : t[a] = s[a]
    /\ \A a \in i .. Len(s) : t[a + 1] = s[a]

\* A list with an item put in.
LEMMA InsertIn ==
  ASSUME NEW S, NEW s \in Seq(S), NEW x \in S, NEW i \in 1 .. (Len(s) + 1)
  PROVE  InsertAt(s, i, x) \in Seq(S) /\ PutIn(InsertAt(s, i, x), s, i, x)
<1> DEFINE n == Len(s)
           l == SubSeq(s, 1, i - 1)
           r == SubSeq(s, i, Len(s))
<1>1. n \in Nat /\ i \in Nat /\ i >= 1 /\ i <= n + 1 /\ \A a \in 1 .. n : s[a] \in S
  OBVIOUS
<1>2. l \in Seq(S) /\ Len(l) = i - 1 /\ \A a \in 1 .. i - 1 : l[a] = s[a]
  BY <1>1
<1>3. PICK m \in Nat : m = (n - i) + 1
  <2>1. (n - i) + 1 \in Nat
    BY <1>1
  <2>2. QED BY <2>1
<1>4. r = [j \in 1 .. m |-> s[(i + j) - 1]]
  BY <1>1, <1>3
<1>5. ASSUME NEW j \in 1 .. m PROVE (i + j) - 1 \in 1 .. n
  BY <1>1, <1>3
<1>6. r \in Seq(S) /\ Len(r) = m
  <2>1. \A j \in 1 .. m : s[(i + j) - 1] \in S
    BY <1>1, <1>5
  <2> HIDE DEF r
  <2>2. QED BY <1>3, <1>4, <2>1
<1> HIDE DEF l, r
<1>7. /\ l \o <<x>> \in Seq(S) /\ Len(l \o <<x>>) = i
      /\ \A a \in 1 .. i - 1 : (l \o <<x>>)[a] = s[a]
      /\ (l \o <<x>>)[i] = x
  <2>1. <<x>> \in Seq(S) /\ Len(<<x>>) = 1 /\ <<x>>[1] = x /\ 1 \in DOMAIN <<x>>
    OBVIOUS
  <2>2. /\ l \o <<x>> \in Seq(S) /\ Len(l \o <<x>>) = Len(l) + Len(<<x>>)
        /\ DOMAIN l = 1 .. Len(l)
        /\ \A a \in DOMAIN l : (l \o <<x>>)[a] = l[a]
        /\ \A a \in DOMAIN <<x>> : (l \o <<x>>)[Len(l) + a] = <<x>>[a]
    BY <1>2, <2>1, ConcatItems
  <2>3. (l \o <<x>>)[Len(l) + 1] = x
    BY <2>1, <2>2
  <2>4. Len(l) + 1 = i
    BY <1>1, <1>2
  <2>5. \A a \in 1 .. i - 1 : (l \o <<x>>)[a] = s[a]
    BY <1>2, <2>2
  <2>6. QED BY <2>1, <2>2, <2>3, <2>4, <2>5
<1> DEFINE h == l \o <<x>>
           t == h \o r
<1> HIDE DEF h
<1>8. /\ h \in Seq(S) /\ Len(h) = i /\ h[i] = x
      /\ \A a \in 1 .. i - 1 : h[a] = s[a]
  BY <1>7 DEF h
<1>9. /\ t \in Seq(S) /\ Len(t) = Len(h) + Len(r)
      /\ DOMAIN h = 1 .. Len(h) /\ DOMAIN r = 1 .. Len(r)
      /\ \A a \in DOMAIN h : t[a] = h[a]
      /\ \A a \in DOMAIN r : t[Len(h) + a] = r[a]
  <2>1. h \in Seq(S) /\ r \in Seq(S)
    BY <1>6, <1>8
  <2>2. QED BY <2>1, ConcatItems
<1>10. t = InsertAt(s, i, x)
  BY DEF InsertAt, h, l, r
<1> HIDE DEF t
<1>11. Len(t) = n + 1
  BY <1>1, <1>3, <1>6, <1>8, <1>9
<1>12. t[i] = x /\ \A a \in 1 .. i - 1 : t[a] = s[a]
  <2>1. i \in 1 .. i /\ \A a \in 1 .. i - 1 : a \in 1 .. i
    BY <1>1
  <2>2. QED BY <1>8, <1>9, <2>1
<1>13. ASSUME NEW a \in i .. n PROVE t[a + 1] = s[a]
  <2>1. PICK j \in 1 .. m : j = (a - i) + 1
    <3>1. (a - i) + 1 \in 1 .. m
      BY <1>1, <1>3
    <3>2. QED BY <3>1
  <2>2. i + j = a + 1 /\ (i + j) - 1 = a
    BY <1>1, <2>1
  <2>3. t[i + j] = r[j] /\ r[j] = s[(i + j) - 1]
    BY <1>4, <1>6, <1>8, <1>9
  <2>4. QED BY <2>2, <2>3
<1>14. QED BY <1>9, <1>10, <1>11, <1>12, <1>13 DEF PutIn

\* One more item is sorted in.
Place(q, x, less) == InsertAt(q, Cardinality({i \in DOMAIN q : <<x, q[i]>> \notin less}) + 1, x)

Sorts(f, s, less) ==
    /\ f[0] = << >> /\ f[Len(s)] = Sorted(s, less)
    /\ \A k \in 1 .. Len(s) : f[k] = Place(f[k - 1], s[k], less)

LEMMA PlaceIn ==
  ASSUME NEW S, NEW q \in Seq(S), NEW x \in S, NEW less
  PROVE  /\ Place(q, x, less) \in Seq(S)
         /\ \E i \in 1 .. (Len(q) + 1) :
               /\ i = Cardinality({j \in DOMAIN q : <<x, q[j]>> \notin less}) + 1
               /\ PutIn(Place(q, x, less), q, i, x)
<1> DEFINE K == {j \in DOMAIN q : <<x, q[j]>> \notin less}
<1>1. Len(q) \in Nat /\ K \in SUBSET (1 .. Len(q))
  OBVIOUS
<1>2. Place(q, x, less) = InsertAt(q, Cardinality(K) + 1, x)
  BY DEF Place
<1> HIDE DEF K
<1>3. Cardinality(K) \in 0 .. Len(q)
  BY <1>1, PlaceAmong
<1>4. PICK i \in 1 .. (Len(q) + 1) : i = Cardinality(K) + 1
  <2>1. Cardinality(K) + 1 \in 1 .. (Len(q) + 1)
    BY <1>1, <1>3
  <2>2. QED BY <2>1
<1>5. InsertAt(q, i, x) \in Seq(S) /\ PutIn(InsertAt(q, i, x), q, i, x)
  BY InsertIn
<1>6. QED BY <1>2, <1>4, <1>5 DEF K

\* A sort, item by item.
LEMMA SortedSteps ==
  ASSUME NEW S, NEW s \in Seq(S), NEW less
  PROVE  \E f \in [0 .. Len(s) -> Seq(S)] : Sorts(f, s, less)
<1> DEFINE n == Len(s)
           Q == Seq(S)
           a == << >>
           Def(f) == [k \in 0 .. n |->
                        IF k = 0 THEN a
                        ELSE InsertAt(f[k - 1],
                               Cardinality({i \in DOMAIN f[k - 1] : <<s[k], f[k - 1][i]>> \notin less}) + 1,
                               s[k])]
           G == [p \in (0 .. n) \X Q |-> IF p[1] = 0 THEN a ELSE Place(p[2], s[p[1]], less)]
           B == CHOOSE f : f = Def(f)
<1>1. Sorted(s, less) = B[n]
  BY DEF Sorted
<1>2. n \in Nat /\ a \in Q
  OBVIOUS
<1>3. \A k \in 1 .. n : \A q \in Q : Place(q, s[k], less) \in Q
  <2>1. \A k \in 1 .. n : s[k] \in S
    OBVIOUS
  <2>2. QED BY <2>1, PlaceIn
<1> HIDE DEF n, a
<1>4. G \in [(0 .. n) \X Q -> Q]
  <2> HIDE DEF Q
  <2>1. \A p \in (0 .. n) \X Q : p[1] # 0 => p[1] \in 1 .. n
    BY <1>2
  <2>2. QED BY <1>2, <1>3, <2>1
<1>5. PICK f \in [0 .. n -> Q] : f[0] = a /\ \A k \in 1 .. n : f[k] = G[<<k, f[k - 1]>>]
  <2> HIDE DEF G, Q
  <2>1. PICK f : Iterates(f, n, Q, a, G)
    BY <1>2, <1>4, Recursion
  <2>2. QED BY <2>1 DEF Iterates
<1>6. \A k \in 1 .. n : f[k] = Place(f[k - 1], s[k], less)
  <2> SUFFICES ASSUME NEW k \in 1 .. n PROVE f[k] = Place(f[k - 1], s[k], less)
    OBVIOUS
  <2>1. k \in 0 .. n /\ k - 1 \in 0 .. n /\ k # 0
    BY <1>2
  <2>2. <<k, f[k - 1]>> \in (0 .. n) \X Q
    BY <2>1
  <2>3. QED BY <1>5, <2>1, <2>2
<1>7. f = Def(f)
  <2>1. \A k \in 0 .. n : f[k] = IF k = 0 THEN a ELSE Place(f[k - 1], s[k], less)
    BY <1>2, <1>5, <1>6
  <2>2. f = [k \in 0 .. n |-> f[k]]
    OBVIOUS
  <2>3. QED BY <2>1, <2>2 DEF Place
<1>8. B = Def(B)
  <2> HIDE DEF Def
  <2>1. QED BY <1>7
<1> HIDE DEF B
<1>9. \A k \in 0 .. n : B[k] = IF k = 0 THEN a ELSE Place(B[k - 1], s[k], less)
  BY <1>8 DEF Place
<1> DEFINE T == {k \in 0 .. n : B[k] = f[k]}
<1>10. 0 \in T
  <2>1. 0 \in 0 .. n /\ B[0] = f[0]
    BY <1>2, <1>5, <1>9
  <2>2. QED BY <2>1
<1>11. ASSUME NEW k \in 0 .. n, k \in T, k # n PROVE k + 1 \in T
  <2>1. k + 1 \in 1 .. n /\ k + 1 \in 0 .. n /\ (k + 1) - 1 = k /\ B[k] = f[k] /\ k + 1 # 0
    BY <1>2, <1>11
  <2> HIDE DEF Def
  <2>2. B[k + 1] = Place(B[k], s[k + 1], less)
    BY <1>9, <2>1
  <2>3. f[k + 1] = Place(f[k], s[k + 1], less)
    BY <1>6, <2>1
  <2>4. QED BY <2>1, <2>2, <2>3
<1>12. B[n] = f[n]
  <2>1. 0 .. n \subseteq T
    <3> HIDE DEF T
    <3>1. QED BY <1>2, <1>10, <1>11, UpTo
  <2>2. QED BY <1>2, <2>1
<1>13. Sorts(f, s, less)
  BY <1>1, <1>5, <1>6, <1>12 DEF Sorts, n, a
<1>14. QED BY <1>13 DEF n

\* t is the first k items of s in another order: the a-th of t is the p[a]-th of s.
Reorders(p, t, s, k) ==
    /\ Len(t) = k /\ p \in [1 .. k -> 1 .. k]
    /\ \A a \in 1 .. k : t[a] = s[p[a]]
    /\ \A a, b \in 1 .. k : p[a] = p[b] => a = b
    /\ \A c \in 1 .. k : \E a \in 1 .. k : p[a] = c

LEMMA PutReorders ==
  ASSUME NEW s, NEW q, NEW t, NEW k \in Nat \ {0}, NEW i \in 1 .. k,
         NEW p, Reorders(p, q, s, k - 1), PutIn(t, q, i, s[k])
  PROVE  \E r : Reorders(r, t, s, k)
<1> DEFINE r == [a \in 1 .. k |-> IF a < i THEN p[a] ELSE IF a = i THEN k ELSE p[a - 1]]
<1>1. PICK h \in Nat : h = k - 1
  OBVIOUS
<1>2. k = h + 1 /\ i \in Nat /\ i >= 1 /\ i <= k
  BY <1>1
<1>3. /\ Len(q) = h /\ p \in [1 .. h -> 1 .. h]
      /\ \A a \in 1 .. h : q[a] = s[p[a]]
      /\ \A a, b \in 1 .. h : p[a] = p[b] => a = b
      /\ \A c \in 1 .. h : \E a \in 1 .. h : p[a] = c
  BY <1>1 DEF Reorders
<1>4. /\ Len(t) = h + 1 /\ t[i] = s[k]
      /\ \A a \in 1 .. i - 1 : t[a] = q[a]
      /\ \A a \in i .. h : t[a + 1] = q[a]
  BY <1>3 DEF PutIn
\* Where each place is in r.
<1>5. \A a \in 1 .. k : \/ a < i /\ a \in 1 .. h /\ a \in 1 .. i - 1
                        \/ a = i
                        \/ a > i /\ a - 1 \in i .. h /\ a - 1 \in 1 .. h /\ (a - 1) + 1 = a
  BY <1>2
<1>6. ASSUME NEW a \in 1 .. k
      PROVE  /\ a < i => r[a] = p[a] /\ r[a] \in 1 .. h
             /\ a = i => r[a] = k
             /\ a > i => r[a] = p[a - 1] /\ r[a] \in 1 .. h
  <2>1. r[a] = IF a < i THEN p[a] ELSE IF a = i THEN k ELSE p[a - 1]
    OBVIOUS
  <2>2. a \in Int /\ i \in Int
    BY <1>2
  <2> HIDE DEF r
  <2>3. ASSUME a < i PROVE r[a] = p[a] /\ r[a] \in 1 .. h
    <3>1. a \in 1 .. h /\ r[a] = p[a]
      BY <1>2, <2>1, <2>3
    <3>2. p[a] \in 1 .. h
      BY <1>3, <3>1
    <3>3. QED BY <3>1, <3>2
  <2>4. a = i => r[a] = k
    BY <2>1, <2>2
  <2>5. ASSUME a > i PROVE r[a] = p[a - 1] /\ r[a] \in 1 .. h
    <3>1. a - 1 \in 1 .. h /\ ~ (a < i) /\ a # i
      BY <1>2, <2>5
    <3>2. r[a] = p[a - 1]
      BY <2>1, <3>1
    <3>3. p[a - 1] \in 1 .. h
      BY <1>3, <3>1
    <3>4. QED BY <3>2, <3>3
  <2>6. QED BY <2>3, <2>4, <2>5
<1>7. DOMAIN r = 1 .. k /\ r = [a \in 1 .. k |-> r[a]]
  OBVIOUS
<1> HIDE DEF r
<1>8. r \in [1 .. k -> 1 .. k]
  <2>1. \A a \in 1 .. k : a < i \/ a = i \/ a > i
    BY <1>2
  <2>2. \A c \in 1 .. h : c \in 1 .. k
    BY <1>2
  <2>3. k \in 1 .. k
    OBVIOUS
  <2>4. \A a \in 1 .. k : r[a] \in 1 .. k
    BY <1>6, <2>1, <2>2, <2>3
  <2>5. QED BY <1>7, <2>4
<1>9. ASSUME NEW a \in 1 .. k PROVE t[a] = s[r[a]]
  <2>1. CASE a < i
    <3>1. a \in 1 .. h /\ a \in 1 .. i - 1
      BY <1>2, <2>1
    <3>2. t[a] = q[a] /\ q[a] = s[p[a]]
      BY <1>3, <1>4, <3>1
    <3>3. QED BY <1>6, <2>1, <3>2
  <2>2. CASE a = i
    BY <1>4, <1>6, <2>2
  <2>3. CASE a > i
    <3>1. a - 1 \in i .. h /\ a - 1 \in 1 .. h /\ (a - 1) + 1 = a
      BY <1>2, <2>3
    <3>2. t[(a - 1) + 1] = q[a - 1]
      BY <1>4, <3>1
    <3>3. q[a - 1] = s[p[a - 1]]
      BY <1>3, <3>1
    <3>4. r[a] = p[a - 1]
      BY <1>6, <2>3
    <3>5. QED BY <3>1, <3>2, <3>3, <3>4
  <2>4. QED BY <1>2, <2>1, <2>2, <2>3
<1>10. ASSUME NEW a \in 1 .. k, NEW b \in 1 .. k, r[a] = r[b] PROVE a = b
  <2>1. k \notin 1 .. h
    BY <1>2
  <2>2. a = i <=> b = i
    BY <1>2, <1>6, <1>10, <2>1
  <2>3. CASE a # i /\ b # i
    <3>1. PICK x \in 1 .. h : (x = IF a < i THEN a ELSE a - 1) /\ r[a] = p[x]
      <4>1. CASE a < i
        BY <1>5, <1>6, <4>1
      <4>2. CASE a > i
        <5>1. a - 1 \in 1 .. h /\ ~ (a < i) /\ r[a] = p[a - 1]
          BY <1>2, <1>6, <4>2
        <5>2. QED BY <5>1
      <4>3. QED BY <1>2, <2>3, <4>1, <4>2
    <3>2. PICK y \in 1 .. h : (y = IF b < i THEN b ELSE b - 1) /\ r[b] = p[y]
      <4>1. CASE b < i
        BY <1>5, <1>6, <4>1
      <4>2. CASE b > i
        <5>1. b - 1 \in 1 .. h /\ ~ (b < i) /\ r[b] = p[b - 1]
          BY <1>2, <1>6, <4>2
        <5>2. QED BY <5>1
      <4>3. QED BY <1>2, <2>3, <4>1, <4>2
    <3>3. p[x] = p[y]
      BY <1>10, <3>1, <3>2
    <3>4. x = y
      BY <1>3, <3>3
    <3>5. QED BY <1>2, <2>3, <3>1, <3>2, <3>4
  <2>4. QED BY <2>2, <2>3
<1>11. ASSUME NEW c \in 1 .. k PROVE \E a \in 1 .. k : r[a] = c
  <2>1. CASE c = k
    <3>1. i \in 1 .. k /\ r[i] = k
      BY <1>6
    <3>2. QED BY <2>1, <3>1
  <2>2. CASE c # k
    <3>1. c \in 1 .. h
      BY <1>2, <2>2
    <3>2. PICK a \in 1 .. h : p[a] = c
      BY <1>3, <3>1
    <3>3. CASE a < i
      <4>1. a \in 1 .. k
        BY <1>2
      <4>2. QED BY <1>6, <3>2, <3>3, <4>1
    <3>4. CASE ~ (a < i)
      <4>1. a + 1 \in 1 .. k /\ a + 1 > i /\ (a + 1) - 1 = a
        BY <1>2, <3>4
      <4>2. r[a + 1] = p[(a + 1) - 1]
        BY <1>6, <4>1
      <4>3. QED BY <3>2, <4>1, <4>2
    <3>5. QED BY <3>3, <3>4
  <2>3. QED BY <2>1, <2>2
<1>12. Reorders(r, t, s, k)
  BY <1>2, <1>4, <1>8, <1>9, <1>10, <1>11 DEF Reorders
<1>13. QED BY <1>12

\* What is sorted is what there was.
LEMMA SortedItems ==
  ASSUME NEW S, NEW s \in Seq(S), NEW less
  PROVE  Sorted(s, less) \in Seq(S) /\ \E p : Reorders(p, Sorted(s, less), s, Len(s))
<1> DEFINE n == Len(s)
<1>1. n \in Nat /\ \A k \in 1 .. n : s[k] \in S
  OBVIOUS
<1>2. PICK f \in [0 .. n -> Seq(S)] : Sorts(f, s, less)
  BY SortedSteps
<1> HIDE DEF n
<1>3. /\ f[0] = << >> /\ f[n] = Sorted(s, less)
      /\ \A k \in 1 .. n : f[k] = Place(f[k - 1], s[k], less)
  BY <1>2 DEF Sorts, n
<1> DEFINE Good(k) == \E p : Reorders(p, f[k], s, k)
           T == {k \in 0 .. n : Good(k)}
<1>4. 0 \in T
  <2>1. 0 \in 0 .. n /\ Len(f[0]) = 0
    BY <1>1, <1>3
  <2>2. << >> \in [1 .. 0 -> 1 .. 0] /\ \A a \in 1 .. 0 : FALSE
    OBVIOUS
  <2>3. Reorders(<< >>, f[0], s, 0)
    BY <2>1, <2>2 DEF Reorders
  <2>4. QED BY <2>1, <2>3
<1>5. ASSUME NEW k \in 0 .. n, k \in T, k # n PROVE k + 1 \in T
  <2>1. /\ k + 1 \in 1 .. n /\ k + 1 \in 0 .. n /\ (k + 1) - 1 = k /\ k + 1 \in Nat \ {0}
        /\ f[k] \in Seq(S)
    BY <1>1, <1>5
  <2>2. PICK p : Reorders(p, f[k], s, k)
    BY <1>5
  <2>3. Len(f[k]) = k
    BY <2>2 DEF Reorders
  <2>4. f[k + 1] = Place(f[k], s[k + 1], less)
    BY <1>3, <2>1
  <2>5. PICK i \in 1 .. (Len(f[k]) + 1) : PutIn(Place(f[k], s[k + 1], less), f[k], i, s[k + 1])
    BY <1>1, <2>1, PlaceIn
  <2>6. i \in 1 .. k + 1 /\ PutIn(f[k + 1], f[k], i, s[k + 1])
    BY <2>3, <2>4, <2>5
  <2>7. Reorders(p, f[k], s, (k + 1) - 1)
    BY <2>1, <2>2
  <2>8. Good(k + 1)
    BY <2>1, <2>6, <2>7, PutReorders
  <2> HIDE DEF Good
  <2>9. QED BY <2>1, <2>8
<1>6. 0 .. n \subseteq T
  <2> HIDE DEF T
  <2>1. QED BY <1>1, <1>4, <1>5, UpTo
<1>7. Good(n) /\ f[n] \in Seq(S)
  BY <1>1, <1>6
<1>8. QED BY <1>3, <1>7 DEF n

\* With every place, those before it: the first ones.
LEMMA FirstPlaces ==
  ASSUME NEW n \in Nat, NEW K \in SUBSET (1 .. n), \A i \in K : \A j \in 1 .. n : j < i => j \in K
  PROVE  K = 1 .. Cardinality(K)
<1> DEFINE T == {m \in 0 .. n : 1 .. m \subseteq K}
<1>1. 0 \in T
  OBVIOUS
<1>2. PICK m \in T : m = n \/ m + 1 \notin T
  <2> SUFFICES ASSUME \A m \in T : m # n /\ m + 1 \in T PROVE FALSE
    OBVIOUS
  <2> HIDE DEF T
  <2>1. 0 .. n \subseteq T
    BY <1>1, UpTo
  <2>2. n \in T
    BY <2>1
  <2>3. QED BY <2>2
<1>3. m \in 0 .. n /\ 1 .. m \subseteq K /\ (m = n \/ m + 1 \notin K)
  <2>1. m \in 0 .. n /\ 1 .. m \subseteq K
    BY <1>2
  <2>2. ASSUME m # n, m + 1 \in K PROVE m + 1 \in T
    <3>1. m + 1 \in 0 .. n
      BY <2>1, <2>2
    <3>2. \A x \in 1 .. m + 1 : x \in 1 .. m \/ x = m + 1
      BY <2>1
    <3>3. 1 .. m + 1 \subseteq K
      BY <2>1, <2>2, <3>2
    <3>4. QED BY <3>1, <3>3
  <2>3. QED BY <1>2, <2>1, <2>2
<1>4. K = 1 .. m
  <2>1. ASSUME NEW x \in K PROVE x \in 1 .. m
    <3>1. x \in 1 .. n /\ m \in Nat
      BY <1>3
    <3>2. CASE x > m
      <4>1. m # n /\ m + 1 \notin K /\ m + 1 \in 1 .. n /\ m + 1 <= x
        BY <1>3, <3>1, <3>2
      <4>2. x = m + 1 \/ m + 1 < x
        BY <3>1, <4>1
      <4>3. QED BY <4>1, <4>2
    <3>3. QED BY <3>1, <3>2
  <2>2. QED BY <1>3, <2>1
<1>5. Cardinality(1 .. m) = m
  BY <1>3, Interval
<1>6. QED BY <1>4, <1>5

\* The sort's comparison: no two members come before each other, and if x does not
\* come before y, nor y before z, then x does not come before z.
WeakOrder(less, S) ==
    /\ \A x, y \in S : <<x, y>> \in less => <<y, x>> \notin less
    /\ \A x, y, z \in S : <<x, y>> \notin less /\ <<y, z>> \notin less => <<x, z>> \notin less

\* No item comes before one that stands ahead of it.
Ordered(s, less) == \A a, b \in 1 .. Len(s) : a < b => <<s[b], s[a]>> \notin less

LEMMA PlaceInOrder ==
  ASSUME NEW S, NEW q \in Seq(S), NEW x \in S, NEW less, WeakOrder(less, S), Ordered(q, less)
  PROVE  Ordered(Place(q, x, less), less)
<1> DEFINE h == Len(q)
           K == {j \in DOMAIN q : <<x, q[j]>> \notin less}
           t == Place(q, x, less)
<1>1. h \in Nat /\ DOMAIN q = 1 .. h /\ \A a \in 1 .. h : q[a] \in S
  OBVIOUS
<1>2. PICK i \in 1 .. (h + 1) : i = Cardinality(K) + 1 /\ PutIn(t, q, i, x)
  BY PlaceIn
<1>3. K \in SUBSET (1 .. h)
  BY <1>1
<1>4. \A j \in 1 .. h : j \in K <=> <<x, q[j]>> \notin less
  BY <1>1
<1>5. \A a, b \in 1 .. h : a < b => <<q[b], q[a]>> \notin less
  BY DEF Ordered
<1> HIDE DEF K, t, h
<1>6. K = 1 .. i - 1
  <2>1. ASSUME NEW b \in K, NEW a \in 1 .. h, a < b PROVE a \in K
    <3>1. b \in 1 .. h /\ <<x, q[b]>> \notin less /\ <<q[b], q[a]>> \notin less
      BY <1>3, <1>4, <1>5, <2>1
    <3>2. q[a] \in S /\ q[b] \in S
      BY <1>1, <3>1
    <3>3. <<x, q[a]>> \notin less
      BY <3>1, <3>2 DEF WeakOrder
    <3>4. QED BY <1>4, <3>3
  <2>2. K = 1 .. Cardinality(K)
    BY <1>1, <1>3, <2>1, FirstPlaces
  <2>3. Cardinality(K) \in 0 .. h
    BY <1>1, <1>3, PlaceAmong
  <2>4. Cardinality(K) = i - 1
    BY <1>1, <1>2, <2>3
  <2>5. QED BY <2>2, <2>4
<1>7. /\ Len(t) = h + 1 /\ t[i] = x /\ i \in Nat /\ i <= h + 1 /\ i >= 1
      /\ \A a \in 1 .. i - 1 : t[a] = q[a]
      /\ \A a \in i .. h : t[a + 1] = q[a]
  BY <1>1, <1>2 DEF PutIn, h
<1>8. ASSUME NEW a \in 1 .. h + 1, NEW b \in 1 .. h + 1, a < b PROVE <<t[b], t[a]>> \notin less
  <2>1. CASE b < i
    <3>1. a \in 1 .. i - 1 /\ b \in 1 .. i - 1 /\ a \in 1 .. h /\ b \in 1 .. h
      BY <1>1, <1>7, <1>8, <2>1
    <3>2. t[a] = q[a] /\ t[b] = q[b] /\ <<q[b], q[a]>> \notin less
      BY <1>5, <1>7, <1>8, <3>1
    <3>3. QED BY <3>2
  <2>2. CASE b = i
    <3>1. a \in 1 .. i - 1 /\ a \in 1 .. h
      BY <1>1, <1>7, <1>8, <2>2
    <3>2. t[a] = q[a] /\ t[b] = x /\ <<x, q[a]>> \notin less
      BY <1>4, <1>6, <1>7, <2>2, <3>1
    <3>3. QED BY <3>2
  <2>3. CASE b > i
    <3>1. PICK c \in i .. h : c = b - 1
      <4>1. b - 1 \in i .. h
        BY <1>1, <1>7, <2>3
      <4>2. QED BY <4>1
    <3>2. b = c + 1 /\ c \in 1 .. h /\ c \notin 1 .. i - 1
      BY <1>1, <1>7, <3>1
    <3>3. t[b] = q[c]
      BY <1>7, <3>1, <3>2
    <3>4. CASE a < i
      <4>1. a \in 1 .. i - 1 /\ a \in 1 .. h /\ a < c
        BY <1>1, <1>7, <3>1, <3>4
      <4>2. t[a] = q[a] /\ <<q[c], q[a]>> \notin less
        BY <1>5, <1>7, <3>2, <4>1
      <4>3. QED BY <3>3, <4>2
    <3>5. CASE a = i
      <4>1. <<x, q[c]>> \in less
        BY <1>4, <1>6, <3>2
      <4>2. <<q[c], x>> \notin less
        BY <1>1, <3>2, <4>1 DEF WeakOrder
      <4>3. QED BY <1>7, <3>3, <3>5, <4>2
    <3>6. CASE a > i
      <4>1. PICK d \in i .. h : d = a - 1
        <5>1. a - 1 \in i .. h
          BY <1>1, <1>7, <3>6
        <5>2. QED BY <5>1
      <4>2. a = d + 1 /\ d \in 1 .. h /\ d < c
        BY <1>1, <1>7, <1>8, <3>1, <4>1
      <4>3. t[a] = q[d]
        BY <1>7, <4>1, <4>2
      <4>4. <<q[c], q[d]>> \notin less
        BY <1>5, <3>2, <4>2
      <4>5. QED BY <3>3, <4>3, <4>4
    <3>7. QED BY <1>7, <3>4, <3>5, <3>6
  <2>4. QED BY <1>1, <1>7, <2>1, <2>2, <2>3
<1>9. Ordered(t, less)
  BY <1>7, <1>8 DEF Ordered
<1>10. QED BY <1>9 DEF t

\* What is sorted is in order.
LEMMA SortedInOrder ==
  ASSUME NEW S, NEW s \in Seq(S), NEW less, WeakOrder(less, S)
  PROVE  Ordered(Sorted(s, less), less)
<1> DEFINE n == Len(s)
<1>1. n \in Nat /\ \A k \in 1 .. n : s[k] \in S
  OBVIOUS
<1>2. PICK f \in [0 .. n -> Seq(S)] : Sorts(f, s, less)
  BY SortedSteps
<1> HIDE DEF n
<1>3. /\ f[0] = << >> /\ f[n] = Sorted(s, less)
      /\ \A k \in 1 .. n : f[k] = Place(f[k - 1], s[k], less)
  BY <1>2 DEF Sorts, n
<1> DEFINE T == {k \in 0 .. n : Ordered(f[k], less)}
<1>4. 0 \in T
  <2>1. 0 \in 0 .. n /\ Len(f[0]) = 0 /\ \A a \in 1 .. 0 : FALSE
    BY <1>1, <1>3
  <2>2. Ordered(f[0], less)
    BY <2>1 DEF Ordered
  <2>3. QED BY <2>1, <2>2
<1>5. ASSUME NEW k \in 0 .. n, k \in T, k # n PROVE k + 1 \in T
  <2>1. /\ k + 1 \in 1 .. n /\ k + 1 \in 0 .. n /\ (k + 1) - 1 = k
        /\ f[k] \in Seq(S) /\ Ordered(f[k], less)
    BY <1>1, <1>5
  <2>2. f[k + 1] = Place(f[k], s[k + 1], less) /\ s[k + 1] \in S
    BY <1>1, <1>3, <2>1
  <2>3. Ordered(f[k + 1], less)
    BY <2>1, <2>2, PlaceInOrder
  <2>4. QED BY <2>1, <2>3
<1>6. 0 .. n \subseteq T
  <2> HIDE DEF T
  <2>1. QED BY <1>1, <1>4, <1>5, UpTo
<1>7. Ordered(f[n], less)
  BY <1>1, <1>6
<1>8. QED BY <1>3, <1>7

\* What is sorted by a number.
LEMMA SortedByKey ==
  ASSUME NEW S, NEW s \in Seq(S), NEW key, \A k \in DOMAIN s : key[s[k]] \in Int
  PROVE  /\ SortedBy(s, key) \in Seq(S) /\ \E p : Reorders(p, SortedBy(s, key), s, Len(s))
         /\ \A a, b \in 1 .. Len(s) : a < b => key[SortedBy(s, key)[a]] <= key[SortedBy(s, key)[b]]
<1> DEFINE R == {s[k] : k \in DOMAIN s}
           less == {p \in R \X R : key[p[1]] < key[p[2]]}
           t == Sorted(s, less)
<1>1. SortedBy(s, key) = t
  BY DEF SortedBy, ToSet
<1>2. s \in Seq(R) /\ Len(s) \in Nat
  OBVIOUS
<1>3. \A x \in R : key[x] \in Int
  OBVIOUS
<1> HIDE DEF R
<1>4. ASSUME NEW x \in R, NEW y \in R PROVE <<x, y>> \in less <=> key[x] < key[y]
  OBVIOUS
<1> HIDE DEF less
<1>5. WeakOrder(less, R)
  BY <1>3, <1>4 DEF WeakOrder
<1>6. Ordered(t, less)
  BY <1>2, <1>5, SortedInOrder
<1>7. t \in Seq(S)
  BY SortedItems
<1>8. t \in Seq(R) /\ \E p : Reorders(p, t, s, Len(s))
  BY <1>2, SortedItems
<1> HIDE DEF t
<1>9. Len(t) = Len(s)
  BY <1>8 DEF Reorders
<1>10. ASSUME NEW a \in 1 .. Len(s), NEW b \in 1 .. Len(s), a < b PROVE key[t[a]] <= key[t[b]]
  <2>1. t[a] \in R /\ t[b] \in R
    BY <1>8, <1>9
  <2>2. <<t[b], t[a]>> \notin less
    BY <1>6, <1>9, <1>10 DEF Ordered
  <2>3. ~ (key[t[b]] < key[t[a]])
    BY <1>4, <2>1, <2>2
  <2>4. QED BY <1>3, <2>1, <2>3
<1>11. QED BY <1>1, <1>7, <1>8, <1>10

\* What is ranked was measured.
LEMMA BestIn ==
  ASSUME NEW S, NEW s \in Seq(S)
  PROVE  BestFirst(s) \in Seq(S)
BY SortedItems DEF BestFirst

\* A list without one of its items.
LEMMA RestIn ==
  ASSUME NEW S, NEW s \in Seq(S), NEW k \in 1 .. Len(s)
  PROVE  RemoveAt(s, k) \in Seq(S) /\ s[k] \in S
<1>1. SubSeq(s, 1, k - 1) \in Seq(S) /\ SubSeq(s, k + 1, Len(s)) \in Seq(S)
  OBVIOUS
<1>2. SubSeq(s, 1, k - 1) \o SubSeq(s, k + 1, Len(s)) \in Seq(S)
  BY <1>1, ConcatItems
<1>3. QED BY <1>2 DEF RemoveAt

\* The first items of a list, and their candidates.
LEMMA TopIn ==
  ASSUME NEW s \in Seq(Measurements)
  PROVE  IdsOf(Top(s, NumTop)) \in Seq(Ids)
<1>1. Len(s) \in Nat /\ NumTop \in Nat
  BY TunerAssumption
<1>2. PICK m \in Nat : m = Min({NumTop, Len(s)}) /\ m <= Len(s)
  <2>1. \E x \in {NumTop, Len(s)} : \A y \in {NumTop, Len(s)} : x <= y
    BY <1>1
  <2>2. /\ Min({NumTop, Len(s)}) \in {NumTop, Len(s)}
        /\ \A y \in {NumTop, Len(s)} : Min({NumTop, Len(s)}) <= y
    BY <2>1 DEF Min
  <2>3. QED BY <1>1, <2>2
<1>3. SubSeq(s, 1, m) \in Seq(Measurements)
  <2>1. m \in 0 .. Len(s)
    BY <1>1, <1>2
  <2>2. \A k \in 1 .. m : k \in 1 .. Len(s) /\ s[k] \in Measurements
    BY <1>1, <2>1
  <2>3. QED BY <1>1, <2>1, <2>2
<1>4. Top(s, NumTop) \in Seq(Measurements)
  BY <1>2, <1>3 DEF Top
<1>5. ASSUME NEW t \in Seq(Measurements) PROVE IdsOf(t) \in Seq(Ids)
  <2>1. \A r \in Measurements : r.id \in Ids
    BY DEF Measurements
  <2>2. Len(t) \in Nat /\ DOMAIN t = 1 .. Len(t) /\ \A k \in 1 .. Len(t) : t[k] \in Measurements
    OBVIOUS
  <2>3. [k \in 1 .. Len(t) |-> t[k].id] \in [1 .. Len(t) -> Ids]
    BY <2>1, <2>2
  <2>4. IdsOf(t) = [k \in 1 .. Len(t) |-> t[k].id]
    BY <2>2 DEF IdsOf
  <2> HIDE DEF Measurements
  <2>5. QED BY <2>2, <2>3, <2>4
<1>6. QED BY <1>4, <1>5

\* In whatever order.
LEMMA PermutedIn ==
  ASSUME NEW S, NEW s \in Seq(S), NEW t \in Permuted(s)
  PROVE  t \in Seq(S)
<1>1. PICK p \in [DOMAIN s -> DOMAIN s] : t = [k \in DOMAIN s |-> s[p[k]]]
  BY DEF Permuted
<1>2. QED BY <1>1

----------------------------------------------------------------------------
(***************************************************************************)
(* The steps.                                                              *)
(***************************************************************************)
Working == {"compile", "compile.pool", "benchmark", "benchmark.pool", "benchmark.baseline"}

\* The tuning begins.
LEMMA TunerStarts == TuneInit => TunerInv
<1> SUFFICES ASSUME TuneInit PROVE TunerInv
  OBVIOUS
<1>1. vmfb \in [Ids -> FileRec]
  BY DEF TuneInit, NoFile, FileRec
<1>2. /\ step \in {"generate_candidate_specs", "generate_candidates"}
      /\ error = ""
  BY DEF TuneInit
<1>3. WorkSound
  BY <1>2 DEF WorkSound
<1>4. round \in Nat \ {0}
  <2>1. round = 1
    BY DEF TuneInit
  <2>2. QED BY <2>1
<1>5. error # "vmfb"
  BY <1>2
<1>6. QED BY <1>1, <1>3, <1>4, <1>5 DEF TunerInv

\* A step to a function that works on nothing.
LEMMA Leaves ==
  ASSUME TunerInv, step' \notin Working, round' \in Nat \ {0}, vmfb' \in [Ids -> FileRec],
         error' = "vmfb" => vmfb'[0] = NoFile /\ step' = "ended"
  PROVE  TunerInv'
BY DEF TunerInv, WorkSound, Working

\* An exception ends the script.
LEMMA RaiseKeeps ==
  ASSUME TunerInv, NEW cause, Raise(cause), cause = "vmfb" => vmfb[0] = NoFile
  PROVE  TunerInv'
<1>1. step' = "ended" /\ round' = round /\ vmfb' = vmfb /\ error' = cause
  BY DEF Raise, files
<1>2. step' \notin Working
  BY <1>1 DEF Working
<1>3. round' \in Nat \ {0} /\ vmfb' \in [Ids -> FileRec]
  BY <1>1 DEF TunerInv
<1>4. error' = "vmfb" => vmfb'[0] = NoFile /\ step' = "ended"
  BY <1>1
<1>5. QED BY <1>2, <1>3, <1>4, Leaves

\* A compilation ends: its candidate is current from now on.
LEMMA CompileEndsKeeps ==
  ASSUME TunerInv, NEW k \in DOMAIN todo, NEW c \in Produced \cup {Nothing}, CompileEnds(k, c)
  PROVE  TunerInv'
<1>1. /\ step \in {"compile.pool", "compile_dispatches.pool", "compile_models.pool"}
      /\ step' = step /\ round' = round /\ error' = error /\ error # "vmfb"
  BY DEF CompileEnds, Compiling, TunerInv
<1>2. c = Nothing \/ c \in Contents
  BY DEF Produced
<1>3. vmfb' \in [Ids -> FileRec] /\ round \in Nat \ {0}
  <2>1. \/ vmfb' = vmfb
        \/ c # Nothing /\ vmfb' = [vmfb EXCEPT ![todo[k]] = [content |-> c, round |-> round]]
    BY DEF CompileEnds, files
  <2>2. c # Nothing => [content |-> c, round |-> round] \in FileRec
    BY <1>2 DEF TunerInv, FileRec
  <2>3. QED BY <2>1, <2>2 DEF TunerInv
<1>4. CASE step # "compile.pool"
  <2>1. step' \notin Working
    BY <1>1, <1>4 DEF Working
  <2>2. QED BY <1>1, <1>3, <2>1, Leaves
<1>5. CASE step = "compile.pool"
  <2>1. todo \in Seq(Ids) /\ results \in Seq(Currents)
    BY <1>5 DEF TunerInv, WorkSound
  <2>2. k \in 1 .. Len(todo)
    BY <2>1
  <2>3. todo[k] \in Ids /\ RemoveAt(todo, k) \in Seq(Ids)
    BY <2>1, <2>2, RestIn
  <2>4. todo' \in Seq(Ids)
    BY <2>3 DEF CompileEnds
  <2>5. results' \in Seq(Currents')
    <3>1. CASE c = Nothing
      <4>1. results' = results /\ vmfb' = vmfb
        BY <3>1 DEF CompileEnds, run_iree_compile_command, files
      <4>2. Currents' = Currents
        BY <1>1, <4>1 DEF Currents
      <4>3. QED BY <2>1, <4>1, <4>2
    <3>2. CASE c # Nothing
      <4>1. /\ results' = Append(results, todo[k])
            /\ vmfb' = [vmfb EXCEPT ![todo[k]] = [content |-> c, round |-> round]]
        BY <1>5, <3>2 DEF CompileEnds, run_iree_compile_command
      <4>2. vmfb \in [Ids -> FileRec]
        BY DEF TunerInv
      <4>3. \A i \in Ids : vmfb'[i].round = IF i = todo[k] THEN round ELSE vmfb[i].round
        BY <4>1, <4>2
      <4>4. Currents' = {i \in Ids : vmfb'[i].round = round}
        BY <1>1 DEF Currents
      <4>5. Currents \subseteq Currents' /\ todo[k] \in Currents'
        BY <2>3, <4>3, <4>4 DEF Currents
      <4>6. results \in Seq(Currents')
        BY <2>1, <4>5
      <4>7. QED BY <4>1, <4>5, <4>6, AppendItems
    <3>3. QED BY <3>1, <3>2
  <2>6. WorkSound'
    BY <1>1, <1>5, <2>4, <2>5 DEF WorkSound
  <2>7. QED BY <1>1, <1>3, <2>6 DEF TunerInv
<1>6. QED BY <1>4, <1>5

\* A process takes a task.
LEMMA TakeKeeps ==
  ASSUME TunerInv, NEW d \in Devices, Take(d)
  PROVE  TunerInv'
<1>1. /\ Measuring /\ step' = step /\ round' = round /\ error' = error /\ error # "vmfb"
      /\ vmfb' = vmfb /\ results' = results /\ measured' = measured
      /\ todo # << >> /\ busy' = [busy EXCEPT ![d] = Head(todo)] /\ todo' = Tail(todo)
  BY DEF Take, Measuring, TunerInv, files
<1>2. vmfb' \in [Ids -> FileRec] /\ round' \in Nat \ {0} /\ Currents' = Currents
  BY <1>1 DEF TunerInv, Currents
<1>3. CASE step = "benchmark.pool"
  <2>1. /\ todo \in Seq(Currents) /\ busy \in [Devices -> Currents \cup {Nothing}]
        /\ results \in Seq(Measurements) /\ \A k \in DOMAIN results : results[k].round = round
    BY <1>3 DEF TunerInv, WorkSound
  <2>2. Head(todo) \in Currents /\ Tail(todo) \in Seq(Currents)
    BY <1>1, <2>1, TailItems
  <2>3. todo' \in Seq(Currents) /\ busy' \in [Devices -> Currents \cup {Nothing}]
    BY <1>1, <2>1, <2>2
  <2>4. WorkSound'
    BY <1>1, <1>2, <1>3, <2>1, <2>3 DEF WorkSound
  <2>5. QED BY <1>1, <1>2, <2>4 DEF TunerInv
<1>4. CASE step = "benchmark.baseline"
  <2>1. /\ todo \in Seq({0}) /\ busy \in [Devices -> {0, Nothing}]
        /\ results \in Seq(Measurements) /\ measured \in Seq(Measurements)
    BY <1>4 DEF TunerInv, WorkSound
  <2>2. Head(todo) \in {0} /\ Tail(todo) \in Seq({0})
    BY <1>1, <2>1, TailItems
  <2>3. todo' \in Seq({0}) /\ busy' \in [Devices -> {0, Nothing}]
    BY <1>1, <2>1, <2>2
  <2>4. WorkSound'
    BY <1>1, <1>4, <2>1, <2>3 DEF WorkSound
  <2>5. QED BY <1>1, <1>2, <2>4 DEF TunerInv
<1>5. CASE step \notin {"benchmark.pool", "benchmark.baseline"}
  <2>1. step' \notin Working
    BY <1>1, <1>5 DEF Measuring, Working
  <2>2. QED BY <1>1, <1>2, <2>1, Leaves
<1>6. QED BY <1>3, <1>4, <1>5

\* What a benchmark may report is a number, in the first script a positive one.
LEMMA OutcomesAreNumbers ==
  /\ Outcomes \subseteq Int
  /\ step \in {"benchmark.pool", "benchmark.baseline"} => Outcomes \subseteq Nat \ {0}
<1>1. Times \subseteq Nat \ {0} /\ Inf \in Nat \ {0} /\ {Inf, Timeout, Bad} \subseteq Int
  BY TunerAssumption DEF Inf, Timeout, Bad
<1>2. Outcomes \subseteq Int
  <2>1. Outcomes \subseteq Times \cup {Inf, Timeout, Bad}
    BY DEF Outcomes
  <2>2. QED BY <1>1, <2>1
<1>3. step \in {"benchmark.pool", "benchmark.baseline"} => Outcomes \subseteq Nat \ {0}
  BY <1>1 DEF Outcomes
<1>4. QED BY <1>2, <1>3

\* A benchmark ends: what it measured is of the round under way.
LEMMA BenchmarkEndsKeeps ==
  ASSUME TunerInv, NEW d \in Devices, NEW t \in Outcomes, BenchmarkEnds(d, t)
  PROVE  TunerInv'
<1> DEFINE r == [id |-> busy[d], time |-> t, device |-> d, round |-> vmfb[busy[d]].round]
<1>1. /\ Measuring /\ step' = step /\ round' = round /\ error' = error /\ error # "vmfb"
      /\ vmfb' = vmfb /\ todo' = todo /\ measured' = measured
      /\ busy[d] # Nothing /\ busy' = [busy EXCEPT ![d] = Nothing]
      /\ results' = Append(results, r)
  BY DEF BenchmarkEnds, Measuring, TunerInv, files
<1>2. vmfb' \in [Ids -> FileRec] /\ round' \in Nat \ {0} /\ Currents' = Currents
  BY <1>1 DEF TunerInv, Currents
<1>3. CASE step = "benchmark.pool"
  <2>1. /\ todo \in Seq(Currents) /\ busy \in [Devices -> Currents \cup {Nothing}]
        /\ results \in Seq(Measurements) /\ \A k \in DOMAIN results : results[k].round = round
    BY <1>3 DEF TunerInv, WorkSound
  <2>2. busy[d] \in Ids /\ vmfb[busy[d]].round = round /\ round \in Nat /\ t \in Nat \ {0}
    BY <1>1, <1>3, <2>1, OutcomesAreNumbers DEF Currents, TunerInv
  <2>3. r \in Measurements /\ r.round = round
    BY <2>2 DEF Measurements
  <2>4. busy' \in [Devices -> Currents \cup {Nothing}]
    BY <1>1, <2>1
  <2> HIDE DEF r
  <2>5. /\ results' \in Seq(Measurements) /\ Len(results) \in Nat
        /\ DOMAIN results = 1 .. Len(results) /\ DOMAIN results' = 1 .. (Len(results) + 1)
        /\ \A k \in DOMAIN results : results'[k] = results[k]
        /\ results'[Len(results) + 1] = r
    BY <1>1, <2>1, <2>3, AppendItems
  <2>6. ASSUME NEW k \in DOMAIN results' PROVE results'[k].round = round
    <3>1. k \in DOMAIN results \/ k = Len(results) + 1
      BY <2>5
    <3>2. QED BY <2>1, <2>3, <2>5, <3>1
  <2>7. WorkSound'
    BY <1>1, <1>2, <1>3, <2>1, <2>4, <2>5, <2>6 DEF WorkSound
  <2>8. QED BY <1>1, <1>2, <2>7 DEF TunerInv
<1>4. CASE step = "benchmark.baseline"
  <2>1. /\ todo \in Seq({0}) /\ busy \in [Devices -> {0, Nothing}]
        /\ results \in Seq(Measurements) /\ measured \in Seq(Measurements)
    BY <1>4 DEF TunerInv, WorkSound
  <2>2. busy' \in [Devices -> {0, Nothing}]
    BY <1>1, <2>1
  <2>3. busy[d] = 0 /\ 0 \in Ids /\ t \in Nat \ {0}
    BY <1>1, <1>4, <2>1, OutcomesAreNumbers, TunerNumbers
  <2>4. vmfb[busy[d]].round \in Nat
    BY <2>3 DEF TunerInv, FileRec
  <2>5. r \in Measurements
    BY <2>3, <2>4 DEF Measurements
  <2> HIDE DEF r
  <2>6. results' \in Seq(Measurements)
    BY <1>1, <2>1, <2>5, AppendItems
  <2>7. WorkSound'
    BY <1>1, <1>4, <2>1, <2>2, <2>6 DEF WorkSound
  <2>8. QED BY <1>1, <1>2, <2>7 DEF TunerInv
<1>5. CASE step \notin {"benchmark.pool", "benchmark.baseline"}
  <2>1. step' \notin Working
    BY <1>1, <1>5 DEF Measuring, Working
  <2>2. QED BY <1>1, <1>2, <2>1, Leaves
<1>6. QED BY <1>3, <1>4, <1>5

\* A candidate whose file is missing is the baseline.
LEMMA VmfbMissingKeeps ==
  ASSUME TunerInv, NEW d \in Devices, VmfbMissing(d)
  PROVE  TunerInv'
<1>1. /\ step \in {"benchmark.pool", "benchmark.baseline"} /\ busy[d] # Nothing
      /\ vmfb[busy[d]] = NoFile /\ Raise("vmfb")
  BY DEF VmfbMissing
<1>2. step # "benchmark.pool"
  <2> SUFFICES ASSUME step = "benchmark.pool" PROVE FALSE
    OBVIOUS
  <2>1. busy \in [Devices -> Currents \cup {Nothing}]
    BY DEF TunerInv, WorkSound
  <2>2. vmfb[busy[d]].round = round
    BY <1>1, <2>1 DEF Currents
  <2>3. round # 0 /\ NoFile.round = 0
    BY DEF TunerInv, NoFile
  <2>4. QED BY <1>1, <2>2, <2>3
<1>3. busy \in [Devices -> {0, Nothing}]
  BY <1>1, <1>2 DEF TunerInv, WorkSound
<1>4. busy[d] = 0
  BY <1>1, <1>3
<1>5. vmfb[0] = NoFile
  BY <1>1, <1>4
<1>6. QED BY <1>1, <1>5, RaiseKeeps

\* The pool works.
LEMMA PoolKeeps ==
  ASSUME TunerInv, PoolStep
  PROVE  TunerInv'
<1>1. ASSUME NEW k \in DOMAIN todo, NEW c \in Produced \cup {Nothing}, CompileEnds(k, c)
      PROVE  TunerInv'
  BY <1>1, CompileEndsKeeps
<1>2. ASSUME NEW d \in Devices, Take(d) PROVE TunerInv'
  BY <1>2, TakeKeeps
<1>3. ASSUME NEW d \in Devices, VmfbMissing(d) PROVE TunerInv'
  BY <1>3, VmfbMissingKeeps
<1>4. ASSUME NEW d \in Devices, NEW t \in Outcomes, BenchmarkEnds(d, t) PROVE TunerInv'
  BY <1>4, BenchmarkEndsKeeps
<1>5. QED BY <1>1, <1>2, <1>3, <1>4 DEF PoolStep

\* The first script generates the candidates' specs.
LEMMA GenerateKeeps ==
  ASSUME TunerInv, NEW n \in 0 .. NumCandidates, GenerateCandidateSpecs(n)
  PROVE  TunerInv'
<1>1. CASE n = 0
  BY <1>1, RaiseKeeps DEF GenerateCandidateSpecs
<1>2. CASE n # 0
  <2>1. /\ step = "generate_candidate_specs" /\ step' = "compile" /\ round' = 1
        /\ error' = error /\ vmfb' = vmfb /\ list' = [i \in 1 .. n + 1 |-> i - 1]
    BY <1>2 DEF GenerateCandidateSpecs, Return, files
  <2>2. NumCandidates \in Nat /\ n \in Nat /\ n + 1 \in Nat
    BY TunerAssumption
  <2>3. \A i \in 1 .. n + 1 : i - 1 \in Ids
    BY <2>2 DEF Ids
  <2>4. list' \in Seq(Ids)
    BY <2>1, <2>2, <2>3
  <2>5. WorkSound'
    BY <2>1, <2>4 DEF WorkSound
  <2>6. error' # "vmfb"
    BY <2>1 DEF TunerInv
  <2>7. vmfb' \in [Ids -> FileRec]
    BY <2>1 DEF TunerInv
  <2>8. round' \in Nat \ {0}
    <3>1. round' = 1
      BY <2>1
    <3>2. QED BY <3>1
  <2>9. QED BY <2>5, <2>6, <2>7, <2>8 DEF TunerInv
<1>3. QED BY <1>1, <1>2

\* compile hands the candidates and the baseline to the pool.
LEMMA CompileBeginsKeeps ==
  ASSUME TunerInv, CompileBegins
  PROVE  TunerInv'
<1>1. step = "compile" /\ list \in Seq(Ids) /\ error # "vmfb"
  BY DEF CompileBegins, TunerInv, WorkSound
<1>2. /\ round' = round /\ error' = error /\ vmfb' = vmfb
      /\ \/ step' = "benchmark" /\ list' = << >>
         \/ /\ step' = "compile.pool" /\ results' = << >>
            /\ todo' \in {list, Append(list, 0)}
  BY DEF CompileBegins, Return, Await, files
<1>3. /\ round' \in Nat \ {0} /\ vmfb' \in [Ids -> FileRec] /\ error' # "vmfb"
  BY <1>1, <1>2 DEF TunerInv
<1>4. CASE step' = "benchmark"
  <2>1. list' \in Seq(Currents')
    BY <1>2, <1>4
  <2>2. WorkSound'
    BY <1>4, <2>1 DEF WorkSound
  <2>3. QED BY <1>3, <2>2 DEF TunerInv
<1>5. CASE step' = "compile.pool"
  <2>1. Append(list, 0) \in Seq(Ids)
    BY <1>1, TunerNumbers
  <2>2. todo' \in Seq(Ids)
    BY <1>1, <1>2, <1>5, <2>1
  <2>3. results' \in Seq(Currents')
    BY <1>2, <1>5
  <2>4. WorkSound'
    BY <1>5, <2>2, <2>3 DEF WorkSound
  <2>5. QED BY <1>3, <2>4 DEF TunerInv
<1>6. QED BY <1>2, <1>4, <1>5

\* compile returns candidates that have compiled in this round.
LEMMA CompileReturnsKeeps ==
  ASSUME TunerInv, CompileReturns
  PROVE  TunerInv'
<1>1. step = "compile.pool" /\ results \in Seq(Currents) /\ error # "vmfb"
  BY DEF CompileReturns, TunerInv, WorkSound
<1>2. /\ round' = round /\ error' = error /\ vmfb' = vmfb /\ step' = "benchmark"
      /\ list' = collision_handler(results, [i \in Ids |-> vmfb[i].content])
  BY DEF CompileReturns, Return, files
<1>3. round' \in Nat \ {0} /\ vmfb' \in [Ids -> FileRec] /\ Currents' = Currents
  BY <1>2 DEF TunerInv, Currents
<1>4. list' \in Seq(Currents)
  BY <1>1, <1>2, KeptItems DEF collision_handler
<1>5. WorkSound'
  BY <1>2, <1>3, <1>4 DEF WorkSound
<1>6. error' # "vmfb"
  BY <1>1, <1>2
<1>7. QED BY <1>3, <1>5, <1>6 DEF TunerInv

\* Nothing runs before the pool has started.
LEMMA IdleOf == ASSUME NEW S, Nothing \in S PROVE Idle \in [Devices -> S]
BY DEF Idle

\* benchmark measures the candidates, without the baseline.
LEMMA BenchmarkBeginsKeeps ==
  ASSUME TunerInv, BenchmarkBegins
  PROVE  TunerInv'
<1>1. step = "benchmark" /\ list \in Seq(Currents) /\ error # "vmfb"
  BY DEF BenchmarkBegins, TunerInv, WorkSound
<1>2. /\ round' = round /\ error' = error /\ vmfb' = vmfb /\ step' = "benchmark.pool"
      /\ todo' = WithoutBaseline(list) /\ busy' = Idle /\ results' = << >>
  BY DEF BenchmarkBegins, Await, files
<1>3. round' \in Nat \ {0} /\ vmfb' \in [Ids -> FileRec] /\ Currents' = Currents
  BY <1>2 DEF TunerInv, Currents
<1>4. todo' \in Seq(Currents)
  BY <1>1, <1>2, KeptItems DEF WithoutBaseline
<1>5. busy' \in [Devices -> Currents \cup {Nothing}]
  <2>1. Nothing \in Currents \cup {Nothing}
    OBVIOUS
  <2>2. QED BY <1>2, <2>1, IdleOf
<1>6. results' \in Seq(Measurements) /\ \A k \in DOMAIN results' : results'[k].round = round'
  BY <1>2
<1>7. WorkSound'
  BY <1>2, <1>3, <1>4, <1>5, <1>6 DEF WorkSound
<1>8. error' # "vmfb"
  BY <1>1, <1>2
<1>9. QED BY <1>3, <1>7, <1>8 DEF TunerInv

\* Then the baseline is run for every device.
LEMMA BaselineBeginsKeeps ==
  ASSUME TunerInv, BaselineBegins
  PROVE  TunerInv'
<1>1. step = "benchmark.pool" /\ results \in Seq(Measurements) /\ error # "vmfb"
  BY DEF BaselineBegins, TunerInv, WorkSound
<1>2. /\ round' = round /\ error' = error /\ vmfb' = vmfb /\ step' = "benchmark.baseline"
      /\ todo' = [k \in 1 .. Cardinality(Devices) |-> 0] /\ busy' = Idle
      /\ measured' = results /\ results' = << >>
  BY DEF BaselineBegins, Await, files
<1>3. round' \in Nat \ {0} /\ vmfb' \in [Ids -> FileRec]
  BY <1>2 DEF TunerInv
<1>4. todo' \in Seq({0})
  <2>1. Cardinality(Devices) \in Nat
    BY TunerAssumption, FS_CardinalityType
  <2>2. QED BY <1>2, <2>1
<1>5. busy' \in [Devices -> {0, Nothing}]
  BY <1>2, IdleOf
<1>6. measured' \in Seq(Measurements) /\ results' \in Seq(Measurements)
  BY <1>1, <1>2
<1>7. WorkSound'
  BY <1>2, <1>4, <1>5, <1>6 DEF WorkSound
<1>8. error' # "vmfb"
  BY <1>1, <1>2
<1>9. QED BY <1>3, <1>7, <1>8 DEF TunerInv

\* The best go on to the next round.
LEMMA BenchmarkReturnsKeeps ==
  ASSUME TunerInv, BenchmarkReturns
  PROVE  TunerInv'
<1>1. step = "benchmark.baseline" /\ measured \in Seq(Measurements) /\ error # "vmfb"
  BY DEF BenchmarkReturns, TunerInv, WorkSound
<1>2. CASE \E k \in DOMAIN measured : ~HasBaseline(measured[k].device)
  BY <1>2, RaiseKeeps DEF BenchmarkReturns
<1>3. CASE ~ \E k \in DOMAIN measured : ~HasBaseline(measured[k].device)
  <2>1. PICK s \in Permuted(measured) \cup {BestFirst(measured)} : list' = IdsOf(Top(s, NumTop))
    BY <1>3 DEF BenchmarkReturns
  <2>2. s \in Seq(Measurements)
    BY <1>1, PermutedIn, BestIn
  <2>3. list' \in Seq(Ids)
    BY <2>1, <2>2, TopIn
  <2>4. /\ round' = round + 1 /\ step' \in {"compile", "ended"}
        /\ vmfb' = vmfb /\ error' = error
    BY <1>3 DEF BenchmarkReturns, files
  <2>5. round' \in Nat \ {0} /\ vmfb' \in [Ids -> FileRec] /\ error' # "vmfb"
    BY <1>1, <2>4 DEF TunerInv
  <2>6. WorkSound'
    BY <2>3, <2>4 DEF WorkSound
  <2>7. QED BY <2>5, <2>6 DEF TunerInv
<1>4. QED BY <1>2, <1>3

\* The first script goes on.
LEMMA SpecsKeeps ==
  ASSUME TunerInv, Specs
  PROVE  TunerInv'
<1>1. ASSUME NEW n \in 0 .. NumCandidates, GenerateCandidateSpecs(n) PROVE TunerInv'
  BY <1>1, GenerateKeeps
<1>2. QED BY <1>1, CompileBeginsKeeps, CompileReturnsKeeps, BenchmarkBeginsKeeps,
             BaselineBeginsKeeps, BenchmarkReturnsKeeps DEF Specs

\* The other script works with functions and files of its own.
LEMMA FilesKeeps ==
  ASSUME TunerInv, Files
  PROVE  TunerInv'
<1> DEFINE Other == {"generate_candidates", "compile_dispatches", "compile_dispatches.pool",
                     "benchmark_dispatches", "benchmark_dispatches.pool", "compile_models",
                     "compile_models.pool", "benchmark_models", "benchmark_models.pool",
                     "benchmark_models.baseline"}
<1>1. step \in Other
  BY DEF Files, GenerateCandidates, GenerationRaises, CompileDispatchesBegins,
         CompileDispatchesReturns, BenchmarkDispatchesBegins, BenchmarkDispatchesReturns,
         CompileModelsBegins, CompileModelsReturns, BenchmarkModelsBegins, ModelBaselineBegins,
         BenchmarkModelsReturns
<1>2. error # "vmfb"
  BY <1>1 DEF TunerInv
<1> DEFINE Raises == \E cause \in {"generate", "compile", "benchmark", "pool"} : Raise(cause)
           Goes == /\ step' \in Other \cup {"ended"} /\ round' \in {1, round}
                   /\ vmfb' = vmfb /\ error' = error
<1>3. ASSUME NEW n \in 0 .. NumCandidates, GenerateCandidates(n) PROVE Goes
  BY <1>3 DEF GenerateCandidates, Return, files
<1>4. ASSUME GenerationRaises PROVE Raises
  BY <1>4 DEF GenerationRaises
<1>5. ASSUME CompileDispatchesBegins PROVE Goes
  BY <1>5 DEF CompileDispatchesBegins, Await, files
<1>6. ASSUME CompileDispatchesReturns PROVE Goes \/ Raises
  BY <1>6 DEF CompileDispatchesReturns, Return, files
<1>7. ASSUME BenchmarkDispatchesBegins PROVE Goes
  BY <1>7 DEF BenchmarkDispatchesBegins, Await, files
<1>8. ASSUME BenchmarkDispatchesReturns PROVE Goes \/ Raises
  BY <1>8 DEF BenchmarkDispatchesReturns, Return, files
<1>9. ASSUME CompileModelsBegins PROVE Goes \/ Raises
  BY <1>9 DEF CompileModelsBegins, Return, Await, files
<1>10. ASSUME CompileModelsReturns PROVE Goes
  BY <1>10 DEF CompileModelsReturns, Return, files
<1>11. ASSUME BenchmarkModelsBegins PROVE Goes
  BY <1>11 DEF BenchmarkModelsBegins, Await, files
<1>12. ASSUME ModelBaselineBegins PROVE Goes
  BY <1>12 DEF ModelBaselineBegins, Await, files
<1>13. ASSUME BenchmarkModelsReturns PROVE Goes \/ Raises
  BY <1>13 DEF BenchmarkModelsReturns, files
<1>14. Goes \/ Raises
  BY <1>3, <1>4, <1>5, <1>6, <1>7, <1>8, <1>9, <1>10, <1>11, <1>12, <1>13 DEF Files
<1>15. CASE Raises
  BY <1>15, RaiseKeeps
<1>16. CASE Goes
  <2>1. step' \notin Working
    BY <1>16 DEF Working
  <2>2. round' \in Nat \ {0}
    <3>1. 1 \in Nat \ {0} /\ round \in Nat \ {0}
      BY DEF TunerInv
    <3>2. QED BY <1>16, <3>1
  <2>3. vmfb' \in [Ids -> FileRec] /\ error' # "vmfb"
    BY <1>2, <1>16 DEF TunerInv
  <2>4. QED BY <2>1, <2>2, <2>3, Leaves
<1>17. QED BY <1>14, <1>15, <1>16

\* Whatever happens.
LEMMA TunerStep ==
  ASSUME TunerInv, [TuneNext]_tuneVars
  PROVE  TunerInv'
<1>1. CASE UNCHANGED tuneVars
  <2>1. /\ step' = step /\ round' = round /\ list' = list /\ todo' = todo /\ busy' = busy
        /\ results' = results /\ measured' = measured /\ vmfb' = vmfb /\ error' = error
    BY <1>1 DEF tuneVars, pool, files
  <2>2. Currents' = Currents
    BY <2>1 DEF Currents
  <2>3. WorkSound'
    BY <2>1, <2>2 DEF TunerInv, WorkSound
  <2>4. QED BY <2>1, <2>3 DEF TunerInv
<1>2. ASSUME NEW d \in Devices, BenchmarkRaises(d) PROVE TunerInv'
  BY <1>2, RaiseKeeps DEF BenchmarkRaises
<1>3. ASSUME Interrupt PROVE TunerInv'
  BY <1>3, RaiseKeeps DEF Interrupt
<1>4. QED BY <1>1, <1>2, <1>3, PoolKeeps, SpecsKeeps, FilesKeeps DEF TuneNext

----------------------------------------------------------------------------
\* BenchmarksCurrent holds of every run of the tuner: what benchmark measures in
\* a round was compiled in that round (libtuner.py: compile hands on only the
\* candidates whose command succeeded), and a missing file is the baseline's.
THEOREM BenchmarksAreCurrent == TuneSpec => []BenchmarksCurrent
<1>1. TunerInv => BenchmarksCurrent
  <2> SUFFICES ASSUME TunerInv PROVE BenchmarksCurrent
    OBVIOUS
  <2>1. ASSUME step = "benchmark.pool"
        PROVE  /\ \A k \in DOMAIN results : results[k].round = round
               /\ \A d \in Devices : busy[d] # Nothing => vmfb[busy[d]].round = round
    BY <2>1 DEF TunerInv, WorkSound, Currents
  <2>2. error = "vmfb" => vmfb[0] = NoFile
    BY DEF TunerInv
  <2>3. QED BY <2>1, <2>2 DEF BenchmarksCurrent
<1>2. QED BY <1>1, TunerStarts, TunerStep, PTL DEF TuneSpec

----------------------------------------------------------------------------
(***************************************************************************)
(* Tuner: the rankings.                                                    *)
(***************************************************************************)

\* Products of two positive numbers, compared.
LEMMA Multiplied ==
  ASSUME NEW a \in Nat, NEW b \in Nat, NEW c \in Nat, a >= b
  PROVE  a * c >= b * c
<1>1. PICK d \in Nat : a = b + d
  <2>1. a - b \in Nat /\ a = b + (a - b)
    OBVIOUS
  <2>2. QED BY <2>1
<1>2. a * c = (b * c) + (d * c)
  BY <1>1
<1>3. d * c \in Nat /\ b * c \in Nat
  OBVIOUS
<1>4. QED BY <1>2, <1>3

LEMMA Cancelled ==
  ASSUME NEW a \in Nat, NEW b \in Nat, NEW c \in Nat \ {0}, a * c >= b * c
  PROVE  a >= b
<1> SUFFICES ASSUME a + 1 <= b PROVE FALSE
  OBVIOUS
<1>1. b * c >= (a + 1) * c
  BY Multiplied
<1>2. (a + 1) * c = a * c + c
  OBVIOUS
<1>3. a * c \in Nat /\ b * c \in Nat
  OBVIOUS
<1>4. QED BY <1>1, <1>2, <1>3

\* If x / p >= y / q and y / q >= z / r, then x / p >= z / r.
LEMMA Ratios ==
  ASSUME NEW x \in Nat, NEW y \in Nat, NEW z \in Nat,
         NEW p \in Nat, NEW q \in Nat \ {0}, NEW r \in Nat,
         x * q >= y * p, y * r >= z * q
  PROVE  x * r >= z * p
<1>1. x * q \in Nat /\ y * p \in Nat /\ y * r \in Nat /\ z * q \in Nat /\ x * r \in Nat /\ z * p \in Nat
  OBVIOUS
<1>2. (x * q) * r >= (y * p) * r
  BY <1>1, Multiplied
<1>3. (y * r) * p >= (z * q) * p
  BY <1>1, Multiplied
<1>4. /\ (x * q) * r = (x * r) * q /\ (y * p) * r = (y * r) * p /\ (z * q) * p = (z * p) * q
      /\ (x * r) * q \in Nat /\ (y * r) * p \in Nat /\ (z * p) * q \in Nat
  OBVIOUS
<1>5. (x * r) * q >= (z * p) * q
  BY <1>2, <1>3, <1>4
<1>6. QED BY <1>1, <1>5, Cancelled

\* The measurements of benchmark can be ranked, if none is NaN.
Ranked(r) == r.time \in Nat \ {0} /\ BaselineTime(r.device) \in Nat \ {0} /\ ~NaN(r)

LEMMA SpeedupOrder ==
  ASSUME NEW S, \A r \in S : Ranked(r)
  PROVE  /\ \A x, y \in S : BySpeedup(x, y) => ~BySpeedup(y, x)
         /\ \A x, y, z \in S : ~BySpeedup(x, y) /\ ~BySpeedup(y, z) => ~BySpeedup(x, z)
<1> DEFINE T(r) == r.time
           B(r) == BaselineTime(r.device)
<1>1. \A r \in S : T(r) \in Nat \ {0} /\ B(r) \in Nat \ {0} /\ (T(r) # Inf \/ B(r) # Inf)
  BY DEF Ranked, NaN
<1>2. \A x, y \in S : BySpeedup(x, y) <=>
          /\ T(x) # Inf
          /\ \/ T(y) = Inf
             \/ B(x) = Inf /\ B(y) # Inf
             \/ B(x) # Inf /\ B(y) # Inf /\ T(x) * B(y) < T(y) * B(x)
  BY DEF BySpeedup
<1> HIDE DEF T, B
<1>3. ASSUME NEW x \in S, NEW y \in S, BySpeedup(x, y) PROVE ~BySpeedup(y, x)
  <2>1. T(x) * B(y) \in Nat /\ T(y) * B(x) \in Nat
    BY <1>1
  <2>2. T(x) * B(y) < T(y) * B(x) => ~ (T(y) * B(x) < T(x) * B(y))
    BY <2>1
  <2>3. QED BY <1>1, <1>2, <1>3, <2>2, Zenon
<1>4. ASSUME NEW x \in S, NEW y \in S, NEW z \in S, ~BySpeedup(x, y), ~BySpeedup(y, z)
      PROVE  ~BySpeedup(x, z)
  <2> DEFINE xy == T(x) * B(y) < T(y) * B(x)
             yz == T(y) * B(z) < T(z) * B(y)
             xz == T(x) * B(z) < T(z) * B(x)
  <2>1. ~xy /\ ~yz => ~xz
    <3>1. /\ T(x) \in Nat /\ T(y) \in Nat /\ T(z) \in Nat
          /\ B(x) \in Nat /\ B(y) \in Nat \ {0} /\ B(z) \in Nat
      BY <1>1
    <3>2. /\ T(x) * B(y) \in Nat /\ T(y) * B(x) \in Nat /\ T(y) * B(z) \in Nat
          /\ T(z) * B(y) \in Nat /\ T(x) * B(z) \in Nat /\ T(z) * B(x) \in Nat
      BY <3>1
    <3>3. ASSUME T(x) * B(y) >= T(y) * B(x), T(y) * B(z) >= T(z) * B(y)
          PROVE  T(x) * B(z) >= T(z) * B(x)
      BY <3>1, <3>3, Ratios
    <3>4. QED BY <3>2, <3>3
  <2> HIDE DEF xy, yz, xz
  <2>2. BySpeedup(x, y) <=> /\ T(x) # Inf
                           /\ \/ T(y) = Inf
                              \/ B(x) = Inf /\ B(y) # Inf
                              \/ B(x) # Inf /\ B(y) # Inf /\ xy
    BY <1>2, Zenon DEF xy
  <2>3. BySpeedup(y, z) <=> /\ T(y) # Inf
                           /\ \/ T(z) = Inf
                              \/ B(y) = Inf /\ B(z) # Inf
                              \/ B(y) # Inf /\ B(z) # Inf /\ yz
    BY <1>2, Zenon DEF yz
  <2>4. BySpeedup(x, z) <=> /\ T(x) # Inf
                           /\ \/ T(z) = Inf
                              \/ B(x) = Inf /\ B(z) # Inf
                              \/ B(x) # Inf /\ B(z) # Inf /\ xz
    BY <1>2, Zenon DEF xz
  <2>5. /\ T(x) # Inf \/ B(x) # Inf
        /\ T(y) # Inf \/ B(y) # Inf
        /\ T(z) # Inf \/ B(z) # Inf
    BY <1>1
  <2>6. QED BY <1>4, <2>1, <2>2, <2>3, <2>4, <2>5
<1>5. QED BY <1>3, <1>4

----------------------------------------------------------------------------
\* No item is there twice; no two results are about the same candidate; no item
\* of one list is in the other.
Once(s) == \A i, j \in DOMAIN s : s[i] = s[j] => i = j
OnceEach(s) == \A i, j \in DOMAIN s : s[i].id = s[j].id => i = j
Apart(s, t) == \A i \in DOMAIN s, j \in DOMAIN t : s[i] # t[j]

\* A candidate is at one place at a time: to be done, with one process, or done.
CandidatesOnce ==
    /\ step \in {"compile", "benchmark"} => Once(list)
    /\ step = "compile.pool" => Once(todo) /\ Once(results) /\ Apart(todo, results)
    /\ step = "benchmark.pool" =>
          /\ Once(todo) /\ OnceEach(results)
          /\ \A i \in DOMAIN todo, k \in DOMAIN results : todo[i] # results[k].id
          /\ \A d \in Devices : busy[d] # Nothing =>
                /\ \A i \in DOMAIN todo : todo[i] # busy[d]
                /\ \A k \in DOMAIN results : results[k].id # busy[d]
                /\ \A e \in Devices : busy[e] = busy[d] => e = d
    /\ step = "benchmark.baseline" => OnceEach(measured)

\* The functions of either script.
SpecSteps == {"generate_candidate_specs", "compile", "compile.pool", "benchmark",
              "benchmark.pool", "benchmark.baseline"}
FileSteps == {"generate_candidates", "compile_dispatches", "compile_dispatches.pool",
              "benchmark_dispatches", "benchmark_dispatches.pool", "compile_models",
              "compile_models.pool", "benchmark_models", "benchmark_models.pool",
              "benchmark_models.baseline"}
OwnSteps == /\ step \in SpecSteps => script = "specs"
            /\ step \in FileSteps => script = "files"

\* What the model benchmarks report, of whatever candidates.
Reports(s) == \E S : s \in Seq(S) /\ \A r \in S : r.device \in Devices /\ r.time \in Int

\* No more baselines are run than devices have results, until the results are read.
ModelsCounted ==
    /\ step # "ended" => tracker = [i \in Ids |-> NoTime]
    /\ step = "benchmark_models.pool" => Reports(results)
    /\ step = "benchmark_models.baseline" =>
          /\ Reports(results) /\ Reports(measured)
          /\ todo \in Seq({0}) /\ busy \in [Devices -> {0, Nothing}]
          /\ Len(todo) + Len(results) + Cardinality({d \in Devices : busy[d] # Nothing})
                <= Cardinality(Involved(measured))

RankInv == OwnSteps /\ CandidatesOnce /\ ModelsCounted /\ TopIsBest /\ BaselinesAligned

----------------------------------------------------------------------------
\* A step between functions of one script.
LEMMA OwnStep ==
  ASSUME OwnSteps, script' = script,
         \/ step' = "ended"
         \/ step \in SpecSteps /\ step' \in SpecSteps
         \/ step \in FileSteps /\ step' \in FileSteps
  PROVE  OwnSteps'
<1>1. SpecSteps \cap FileSteps = {} /\ "ended" \notin SpecSteps \cup FileSteps
  BY DEF SpecSteps, FileSteps
<1>2. QED BY <1>1 DEF OwnSteps

\* Where nothing is ranked, both rankings are right.
LEMMA Unranked ==
  ASSUME step' \notin {"compile", "ended"} \/ error' # "" \/ (step' = "compile" /\ measured' = << >>)
  PROVE  TopIsBest' /\ BaselinesAligned'
BY DEF TopIsBest, BaselinesAligned

\* Where no pool of the first script is at work, no candidate is there twice.
LEMMA NotOnce ==
  ASSUME step' \notin {"compile", "compile.pool", "benchmark", "benchmark.pool", "benchmark.baseline"}
  PROVE  CandidatesOnce'
BY DEF CandidatesOnce

\* Where no model is measured.
LEMMA NoModels ==
  ASSUME ModelsCounted, step # "ended", tracker' = tracker,
         step' \notin {"benchmark_models.pool", "benchmark_models.baseline"}
  PROVE  ModelsCounted'
BY DEF ModelsCounted

\* The tuning begins.
LEMMA RankStarts == TuneInit => RankInv
<1> SUFFICES ASSUME TuneInit PROVE RankInv
  OBVIOUS
<1>1. /\ script \in {"specs", "files"}
      /\ step = IF script = "specs" THEN "generate_candidate_specs" ELSE "generate_candidates"
      /\ tracker = [i \in Ids |-> NoTime]
  BY TunerAssumption DEF TuneInit
<1>2. OwnSteps
  BY <1>1 DEF OwnSteps, SpecSteps, FileSteps
<1>3. CandidatesOnce /\ ModelsCounted /\ TopIsBest /\ BaselinesAligned
  BY <1>1 DEF CandidatesOnce, ModelsCounted, TopIsBest, BaselinesAligned
<1>4. QED BY <1>2, <1>3 DEF RankInv

\* An exception ends the script.
LEMMA RaiseRanks ==
  ASSUME RankInv, step # "ended", NEW cause, cause # "", Raise(cause)
  PROVE  RankInv'
<1>1. /\ step' = "ended" /\ error' # "" /\ script' = script /\ tracker' = tracker
  BY DEF Raise
<1>2. OwnSteps'
  BY <1>1, OwnStep DEF RankInv
<1>3. CandidatesOnce'
  BY <1>1, NotOnce
<1>4. ModelsCounted'
  BY <1>1, NoModels DEF RankInv
<1>5. QED BY <1>1, <1>2, <1>3, <1>4, Unranked DEF RankInv

\* A list without one of its items.
LEMMA WithoutItem ==
  ASSUME NEW S, NEW s \in Seq(S), NEW k \in 1 .. Len(s)
  PROVE  \E f \in [DOMAIN RemoveAt(s, k) -> (DOMAIN s) \ {k}] :
            /\ \A a \in DOMAIN RemoveAt(s, k) : RemoveAt(s, k)[a] = s[f[a]]
            /\ Once(f)
<1> DEFINE n == Len(s)
           l == SubSeq(s, 1, k - 1)
           r == SubSeq(s, k + 1, Len(s))
           t == l \o r
<1>1. n \in Nat /\ k \in Nat /\ k >= 1 /\ k <= n /\ \A a \in 1 .. n : s[a] \in S
  OBVIOUS
<1>2. PICK h \in Nat : k = h + 1
  <2>1. k - 1 \in Nat /\ k = (k - 1) + 1
    BY <1>1
  <2>2. QED BY <2>1
<1>3. l \in Seq(S) /\ Len(l) = h /\ \A a \in 1 .. h : l[a] = s[a]
  BY <1>1, <1>2
<1>4. PICK m \in Nat : m = n - k
  <2>1. n - k \in Nat
    BY <1>1
  <2>2. QED BY <2>1
<1>5. r \in Seq(S) /\ Len(r) = m /\ \A j \in 1 .. m : r[j] = s[k + j]
  <2>1. r = [j \in 1 .. m |-> s[k + j]]
    BY <1>1, <1>4
  <2>2. \A j \in 1 .. m : k + j \in 1 .. n
    BY <1>1, <1>4
  <2>3. \A j \in 1 .. m : s[k + j] \in S
    BY <1>1, <2>2
  <2> HIDE DEF r
  <2>4. QED BY <1>4, <2>1, <2>3
<1> HIDE DEF l, r
<1>6. /\ DOMAIN l = 1 .. h /\ DOMAIN r = 1 .. m /\ DOMAIN t = 1 .. (h + m)
      /\ \A a \in DOMAIN l : t[a] = l[a]
      /\ \A a \in DOMAIN r : t[h + a] = r[a]
  <2>1. l \in Seq(S) /\ r \in Seq(S)
    BY <1>3, <1>5
  <2>2. /\ DOMAIN l = 1 .. Len(l) /\ DOMAIN r = 1 .. Len(r) /\ DOMAIN t = 1 .. (Len(l) + Len(r))
        /\ \A a \in DOMAIN l : t[a] = l[a]
        /\ \A a \in DOMAIN r : t[Len(l) + a] = r[a]
    BY <2>1, ConcatItems
  <2> HIDE DEF t
  <2>3. QED BY <1>3, <1>5, <2>2
<1>7. t = RemoveAt(s, k)
  BY DEF RemoveAt, l, r
<1> HIDE DEF t
<1> DEFINE f == [a \in 1 .. (h + m) |-> IF a <= h THEN a ELSE a + 1]
<1>8. DOMAIN s = 1 .. n /\ n = h + m + 1
  BY <1>1, <1>2, <1>4
<1>9. f \in [DOMAIN t -> (DOMAIN s) \ {k}]
  <2>1. k \in Int /\ h \in Int /\ m \in Int /\ n \in Int /\ k = h + 1 /\ n = h + m + 1
    BY <1>1, <1>2, <1>4, <1>8
  <2>2. ASSUME NEW a \in 1 .. (h + m)
        PROVE  (IF a <= h THEN a ELSE a + 1) \in (1 .. n) \ {k}
    <3>1. CASE a <= h
      BY <2>1, <3>1
    <3>2. CASE a > h
      BY <2>1, <3>2
    <3>3. QED BY <2>1, <3>1, <3>2
  <2>3. f \in [1 .. (h + m) -> (1 .. n) \ {k}]
    BY <2>2
  <2> HIDE DEF f
  <2>4. QED BY <1>6, <1>8, <2>3
<1>10. ASSUME NEW a \in DOMAIN t PROVE t[a] = s[f[a]]
  <2>1. CASE a <= h
    <3>1. a \in 1 .. h /\ f[a] = a
      BY <1>6, <2>1
    <3> HIDE DEF f
    <3>2. QED BY <1>3, <1>6, <3>1
  <2>2. CASE ~ (a <= h)
    <3>1. PICK j \in 1 .. m : a = h + j
      <4>1. a - h \in 1 .. m /\ a = h + (a - h)
        BY <1>2, <1>4, <1>6, <2>2
      <4>2. QED BY <4>1
    <3>2. f[a] = k + j
      BY <1>2, <1>4, <1>6, <2>2, <3>1
    <3> HIDE DEF f
    <3>3. t[h + j] = r[j] /\ r[j] = s[k + j]
      BY <1>5, <1>6, <3>1
    <3>4. QED BY <3>1, <3>2, <3>3
  <2>3. QED BY <2>1, <2>2
<1>11. Once(f)
  <2>1. ASSUME NEW a \in 1 .. (h + m), NEW b \in 1 .. (h + m), f[a] = f[b] PROVE a = b
    <3>1. /\ f[a] = IF a <= h THEN a ELSE a + 1
          /\ f[b] = IF b <= h THEN b ELSE b + 1
      OBVIOUS
    <3>2. a \in Int /\ b \in Int /\ h \in Int
      BY <1>2, <1>4
    <3> HIDE DEF f
    <3>3. CASE a <= h
      <4>1. f[a] = a /\ (f[b] = b \/ (f[b] = b + 1 /\ b > h))
        BY <3>1, <3>2, <3>3
      <4>2. QED BY <2>1, <3>2, <3>3, <4>1
    <3>4. CASE a > h
      <4>1. f[a] = a + 1 /\ (f[b] = b + 1 \/ (f[b] = b /\ b <= h))
        BY <3>1, <3>2, <3>4
      <4>2. QED BY <2>1, <3>2, <3>4, <4>1
    <3>5. QED BY <3>2, <3>3, <3>4
  <2>2. DOMAIN f = 1 .. (h + m)
    OBVIOUS
  <2> HIDE DEF f
  <2>3. QED BY <2>1, <2>2 DEF Once
<1> HIDE DEF f
<1>12. QED BY <1>7, <1>9, <1>10, <1>11

LEMMA RemoveOnce ==
  ASSUME NEW S, NEW s \in Seq(S), NEW k \in 1 .. Len(s), Once(s)
  PROVE  /\ Once(RemoveAt(s, k))
         /\ \A a \in DOMAIN RemoveAt(s, k) :
               RemoveAt(s, k)[a] # s[k] /\ \E b \in DOMAIN s : RemoveAt(s, k)[a] = s[b]
<1> DEFINE t == RemoveAt(s, k)
<1>1. PICK f \in [DOMAIN t -> (DOMAIN s) \ {k}] : (\A a \in DOMAIN t : t[a] = s[f[a]]) /\ Once(f)
  BY WithoutItem
<1>2. k \in DOMAIN s
  OBVIOUS
<1> HIDE DEF t
<1>3. \A a \in DOMAIN t : f[a] \in DOMAIN s /\ f[a] # k
  BY <1>1
<1>4. Once(t)
  <2>1. ASSUME NEW a \in DOMAIN t, NEW b \in DOMAIN t, t[a] = t[b] PROVE a = b
    <3>1. f[a] = f[b]
      BY <1>1, <1>3, <2>1 DEF Once
    <3>2. DOMAIN f = DOMAIN t
      BY <1>1
    <3>3. QED BY <1>1, <3>1, <3>2 DEF Once
  <2>2. QED BY <2>1 DEF Once
<1>5. \A a \in DOMAIN t : t[a] # s[k] /\ \E b \in DOMAIN s : t[a] = s[b]
  BY <1>1, <1>2, <1>3 DEF Once
<1>6. QED BY <1>4, <1>5 DEF t

LEMMA AppendOnce ==
  ASSUME NEW S, NEW s \in Seq(S), NEW x \in S, Once(s), \A a \in DOMAIN s : s[a] # x
  PROVE  Once(Append(s, x))
<1>1. /\ Len(s) \in Nat /\ DOMAIN s = 1 .. Len(s) /\ DOMAIN Append(s, x) = 1 .. (Len(s) + 1)
      /\ \A i \in DOMAIN s : Append(s, x)[i] = s[i]
      /\ Append(s, x)[Len(s) + 1] = x
  BY AppendItems
<1>2. \A i \in DOMAIN Append(s, x) : i \in DOMAIN s \/ i = Len(s) + 1
  BY <1>1
<1>3. QED BY <1>1, <1>2 DEF Once

LEMMA TailOnce ==
  ASSUME NEW S, NEW s \in Seq(S), s # << >>, Once(s)
  PROVE  /\ Once(Tail(s))
         /\ \A a \in DOMAIN Tail(s) :
               Tail(s)[a] # Head(s) /\ \E b \in DOMAIN s : Tail(s)[a] = s[b]
<1>1. /\ Head(s) = s[1] /\ 1 \in DOMAIN s
      /\ \A i \in DOMAIN Tail(s) : i + 1 \in DOMAIN s /\ Tail(s)[i] = s[i + 1] /\ i \in Int /\ i > 0
  BY TailItems
<1>2. ASSUME NEW a \in DOMAIN Tail(s), NEW b \in DOMAIN Tail(s), Tail(s)[a] = Tail(s)[b] PROVE a = b
  <2>1. a + 1 = b + 1
    BY <1>1, <1>2 DEF Once
  <2>2. QED BY <1>1, <2>1
<1>3. ASSUME NEW a \in DOMAIN Tail(s) PROVE Tail(s)[a] # Head(s) /\ \E b \in DOMAIN s : Tail(s)[a] = s[b]
  <2>1. a + 1 # 1
    BY <1>1
  <2>2. QED BY <1>1, <2>1 DEF Once
<1>4. QED BY <1>2, <1>3 DEF Once

LEMMA KeptOnce ==
  ASSUME NEW S, NEW s \in Seq(S), NEW K, Once(s)
  PROVE  Once(Kept(s, K))
<1> DEFINE q == Kept(s, K)
<1>1. q \in Seq(S) /\ \E f : Selects(f, q, s, K \cap DOMAIN s)
  BY KeptItems
<1>2. PICK f : Selects(f, q, s, K \cap DOMAIN s)
  BY <1>1
<1>3. Len(q) \in Nat /\ DOMAIN q = 1 .. Len(q)
  BY <1>1
<1> HIDE DEF q
<1>4. ASSUME NEW i \in DOMAIN q, NEW j \in DOMAIN q, q[i] = q[j] PROVE i = j
  <2>1. /\ f[i] \in DOMAIN s /\ f[j] \in DOMAIN s /\ s[f[i]] = s[f[j]]
        /\ (i < j => f[i] < f[j]) /\ (j < i => f[j] < f[i])
    BY <1>2, <1>4 DEF Selects
  <2>2. f[i] = f[j] /\ f[i] \in Int
    BY <2>1 DEF Once
  <2>3. QED BY <1>3, <2>1, <2>2
<1>5. Once(q)
  BY <1>4 DEF Once
<1>6. QED BY <1>5 DEF q

\* A compilation ends.
LEMMA CompileEndsRanks ==
  ASSUME TunerInv, RankInv, NEW k \in DOMAIN todo, NEW c \in Produced \cup {Nothing}, CompileEnds(k, c)
  PROVE  RankInv'
<1>1. /\ step \in {"compile.pool", "compile_dispatches.pool", "compile_models.pool"}
      /\ step' = step /\ script' = script /\ tracker' = tracker
      /\ todo' = RemoveAt(todo, k) /\ results' \in {results, Append(results, todo[k])}
  BY DEF CompileEnds, Compiling, run_iree_compile_command
<1>2. OwnSteps'
  BY <1>1, OwnStep DEF RankInv, SpecSteps, FileSteps
<1>3. ModelsCounted'
  BY <1>1, NoModels DEF RankInv
<1>4. TopIsBest' /\ BaselinesAligned'
  BY <1>1, Unranked
<1>5. CASE step # "compile.pool"
  <2>1. CandidatesOnce'
    BY <1>1, <1>5, NotOnce
  <2>2. QED BY <1>2, <1>3, <1>4, <2>1 DEF RankInv
<1>6. CASE step = "compile.pool"
  <2>1. /\ todo \in Seq(Ids) /\ results \in Seq(Ids)
        /\ Once(todo) /\ Once(results) /\ Apart(todo, results)
    <3>1. todo \in Seq(Ids) /\ results \in Seq(Currents) /\ Currents \subseteq Ids
      BY <1>6 DEF TunerInv, WorkSound, Currents
    <3>2. QED BY <1>6, <3>1 DEF RankInv, CandidatesOnce
  <2>2. k \in 1 .. Len(todo) /\ todo[k] \in Ids
    BY <2>1
  <2>3. /\ Once(todo')
        /\ \A a \in DOMAIN todo' : todo'[a] # todo[k] /\ \E b \in DOMAIN todo : todo'[a] = todo[b]
    BY <1>1, <2>1, <2>2, RemoveOnce
  <2>4. Once(Append(results, todo[k]))
    <3>1. \A a \in DOMAIN results : results[a] # todo[k]
      BY <2>1 DEF Apart
    <3>2. QED BY <2>1, <2>2, <3>1, AppendOnce
  <2>5. Apart(todo', results)
    BY <2>1, <2>3 DEF Apart
  <2>6. Apart(todo', Append(results, todo[k]))
    <3>1. /\ DOMAIN Append(results, todo[k]) = 1 .. (Len(results) + 1) /\ Len(results) \in Nat
          /\ DOMAIN results = 1 .. Len(results)
          /\ \A i \in DOMAIN results : Append(results, todo[k])[i] = results[i]
          /\ Append(results, todo[k])[Len(results) + 1] = todo[k]
      BY <2>1, <2>2, AppendItems
    <3>2. \A i \in DOMAIN Append(results, todo[k]) : i \in DOMAIN results \/ i = Len(results) + 1
      BY <3>1
    <3>3. QED BY <2>3, <2>5, <3>1, <3>2 DEF Apart
  <2>7. Once(todo') /\ Once(results') /\ Apart(todo', results')
    BY <1>1, <2>1, <2>3, <2>4, <2>5, <2>6
  <2>8. CandidatesOnce'
    BY <1>1, <1>6, <2>7 DEF CandidatesOnce
  <2>9. QED BY <1>2, <1>3, <1>4, <2>8 DEF RankInv
<1>7. QED BY <1>5, <1>6

\* A process takes a task.
LEMMA TakeRanks ==
  ASSUME TunerInv, RankInv, NEW d \in Devices, Take(d)
  PROVE  RankInv'
<1>1. /\ step \in {"benchmark.pool", "benchmark.baseline", "benchmark_dispatches.pool",
                   "benchmark_models.pool", "benchmark_models.baseline"}
      /\ step' = step /\ script' = script /\ tracker' = tracker
      /\ todo # << >> /\ busy[d] = Nothing
      /\ busy' = [busy EXCEPT ![d] = Head(todo)] /\ todo' = Tail(todo)
      /\ results' = results /\ measured' = measured
  BY DEF Take, Measuring
<1>2. OwnSteps'
  BY <1>1, OwnStep DEF RankInv, SpecSteps, FileSteps
<1>3. TopIsBest' /\ BaselinesAligned'
  BY <1>1, Unranked
<1>4. CASE step = "benchmark.pool"
  <2>1. ModelsCounted'
    BY <1>1, <1>4, NoModels DEF RankInv
  <2>2. /\ todo \in Seq(Ids) /\ busy \in [Devices -> Currents \cup {Nothing}]
        /\ Once(todo) /\ OnceEach(results)
        /\ \A i \in DOMAIN todo, k \in DOMAIN results : todo[i] # results[k].id
        /\ \A e \in Devices : busy[e] # Nothing =>
                /\ \A i \in DOMAIN todo : todo[i] # busy[e]
                /\ \A k \in DOMAIN results : results[k].id # busy[e]
                /\ \A f \in Devices : busy[f] = busy[e] => f = e
    <3>1. /\ todo \in Seq(Currents) /\ busy \in [Devices -> Currents \cup {Nothing}]
          /\ Currents \subseteq Ids
      BY <1>4 DEF TunerInv, WorkSound, Currents
    <3>2. todo \in Seq(Ids)
      BY <3>1
    <3>3. QED BY <1>4, <3>1, <3>2 DEF RankInv, CandidatesOnce
  <2>3. /\ Once(todo')
        /\ \A a \in DOMAIN todo' : todo'[a] # Head(todo) /\ \E b \in DOMAIN todo : todo'[a] = todo[b]
    BY <1>1, <2>2, TailOnce
  <2>4. Head(todo) = todo[1] /\ 1 \in DOMAIN todo
    BY <1>1, <2>2, TailItems
  <2>5. \A e \in Devices : busy'[e] = IF e = d THEN todo[1] ELSE busy[e]
    BY <1>1, <2>2, <2>4
  <2>6. ASSUME NEW e \in Devices, busy'[e] # Nothing
        PROVE  /\ \A i \in DOMAIN todo' : todo'[i] # busy'[e]
               /\ \A k \in DOMAIN results' : results'[k].id # busy'[e]
               /\ \A f \in Devices : busy'[f] = busy'[e] => f = e
    <3>1. CASE e = d
      <4>1. busy'[e] = todo[1]
        BY <2>5, <3>1
      <4>2. \A i \in DOMAIN todo' : todo'[i] # busy'[e]
        BY <2>3, <2>4, <4>1
      <4>3. \A k \in DOMAIN results' : results'[k].id # busy'[e]
        BY <1>1, <2>2, <2>4, <4>1
      <4>4. ASSUME NEW f \in Devices, busy'[f] = busy'[e] PROVE f = e
        <5>1. f # d => busy[f] = todo[1]
          BY <2>5, <4>1, <4>4
        <5>2. todo[1] # Nothing
          BY <2>2, <2>4, TunerNumbers
        <5>3. QED BY <2>2, <2>4, <3>1, <5>1, <5>2
      <4>5. QED BY <4>2, <4>3, <4>4
    <3>2. CASE e # d
      <4>1. busy'[e] = busy[e] /\ busy[e] # Nothing
        BY <2>5, <2>6, <3>2
      <4>2. \A i \in DOMAIN todo' : todo'[i] # busy'[e]
        BY <2>2, <2>3, <4>1
      <4>3. \A k \in DOMAIN results' : results'[k].id # busy'[e]
        BY <1>1, <2>2, <4>1
      <4>4. ASSUME NEW f \in Devices, busy'[f] = busy'[e] PROVE f = e
        <5>1. f # d
          BY <2>2, <2>4, <2>5, <4>1, <4>4
        <5>2. busy[f] = busy[e]
          BY <2>5, <4>1, <4>4, <5>1
        <5>3. QED BY <2>2, <4>1, <5>2
      <4>5. QED BY <4>2, <4>3, <4>4
    <3>3. QED BY <3>1, <3>2
  <2>7. \A i \in DOMAIN todo', k \in DOMAIN results' : todo'[i] # results'[k].id
    BY <1>1, <2>2, <2>3
  <2>8. OnceEach(results')
    BY <1>1, <2>2
  <2>9. CandidatesOnce'
    BY <1>1, <1>4, <2>3, <2>6, <2>7, <2>8 DEF CandidatesOnce
  <2>10. QED BY <1>2, <1>3, <2>1, <2>9 DEF RankInv
<1>5. CASE step = "benchmark.baseline"
  <2>1. ModelsCounted'
    BY <1>1, <1>5, NoModels DEF RankInv
  <2>2. CandidatesOnce'
    BY <1>1, <1>5 DEF RankInv, CandidatesOnce
  <2>3. QED BY <1>2, <1>3, <2>1, <2>2 DEF RankInv
<1>6. CASE step = "benchmark_dispatches.pool"
  <2>1. ModelsCounted'
    BY <1>1, <1>6, NoModels DEF RankInv
  <2>2. CandidatesOnce'
    BY <1>1, <1>6, NotOnce
  <2>3. QED BY <1>2, <1>3, <2>1, <2>2 DEF RankInv
<1>7. CASE step = "benchmark_models.pool"
  <2>1. ModelsCounted'
    BY <1>1, <1>7 DEF RankInv, ModelsCounted
  <2>2. CandidatesOnce'
    BY <1>1, <1>7, NotOnce
  <2>3. QED BY <1>2, <1>3, <2>1, <2>2 DEF RankInv
<1>8. CASE step = "benchmark_models.baseline"
  <2> DEFINE W == {e \in Devices : busy[e] # Nothing}
             V == {e \in Devices : busy'[e] # Nothing}
             C == Cardinality(Involved(measured))
  <2>1. /\ Reports(results) /\ Reports(measured)
        /\ todo \in Seq({0}) /\ busy \in [Devices -> {0, Nothing}]
        /\ Len(todo) + Len(results) + Cardinality(W) <= C
        /\ tracker = [i \in Ids |-> NoTime]
    BY <1>8 DEF RankInv, ModelsCounted
  <2>2. Head(todo) = 0 /\ Tail(todo) \in Seq({0}) /\ Len(Tail(todo)) = Len(todo) - 1
    BY <1>1, <2>1
  <2>3. busy' \in [Devices -> {0, Nothing}] /\ todo' \in Seq({0})
    BY <1>1, <2>1, <2>2
  <2>4. V = W \cup {d} /\ d \notin W
    <3>1. 0 # Nothing
      BY DEF Nothing
    <3>2. QED BY <1>1, <2>1, <2>2, <3>1
  <2>5. IsFiniteSet(W)
    BY TunerAssumption, FS_Subset
  <2> HIDE DEF W, V, C
  <2>6. Cardinality(V) = Cardinality(W) + 1 /\ Cardinality(W) \in Nat
    BY <2>4, <2>5, FS_AddElement, FS_CardinalityType
  <2>7. Len(todo) \in Nat /\ Len(todo') = Len(todo) - 1
    BY <1>1, <2>1, <2>2
  <2>8. Len(results) \in Nat
    BY <2>1 DEF Reports
  <2>9. Len(todo') + Len(results) + Cardinality(V) = Len(todo) + Len(results) + Cardinality(W)
    BY <2>6, <2>7, <2>8
  <2>10. Len(todo') + Len(results') + Cardinality({e \in Devices : busy'[e] # Nothing})
            <= Cardinality(Involved(measured'))
    BY <1>1, <2>1, <2>9 DEF C, V
  <2>11. ModelsCounted'
    BY <1>1, <1>8, <2>1, <2>3, <2>10 DEF ModelsCounted
  <2>12. CandidatesOnce'
    BY <1>1, <1>8, NotOnce
  <2>13. QED BY <1>2, <1>3, <2>11, <2>12 DEF RankInv
<1>9. QED BY <1>1, <1>4, <1>5, <1>6, <1>7, <1>8

\* A list of results begins empty.
LEMMA NoReports == Reports(<< >>) /\ Len(<< >>) = 0
<1> DEFINE S == [device : Devices, time : Int]
<1>1. \A r \in S : r.device \in Devices /\ r.time \in Int
  OBVIOUS
<1> HIDE DEF S
<1>2. << >> \in Seq(S)
  OBVIOUS
<1>3. \E T : << >> \in Seq(T) /\ \A r \in T : r.device \in Devices /\ r.time \in Int
  BY <1>1, <1>2
<1>4. QED BY <1>3 DEF Reports

\* One more report.
LEMMA ReportsMore ==
  ASSUME NEW s, Reports(s), NEW r, r.device \in Devices, r.time \in Int
  PROVE  Reports(Append(s, r)) /\ Len(s) \in Nat /\ Len(Append(s, r)) = Len(s) + 1
<1>1. PICK S : s \in Seq(S) /\ \A x \in S : x.device \in Devices /\ x.time \in Int
  BY DEF Reports
<1> DEFINE T == S \cup {r}
<1>2. s \in Seq(T) /\ r \in T /\ \A x \in T : x.device \in Devices /\ x.time \in Int
  <2>1. \A x \in T : x.device \in Devices /\ x.time \in Int
    BY <1>1
  <2>2. s \in Seq(T)
    BY <1>1
  <2>3. QED BY <2>1, <2>2
<1> HIDE DEF T
<1>3. Append(s, r) \in Seq(T) /\ Len(s) \in Nat /\ Len(Append(s, r)) = Len(s) + 1
  BY <1>2, AppendItems
<1>4. QED BY <1>2, <1>3 DEF Reports

\* A benchmark ends.
LEMMA BenchmarkEndsRanks ==
  ASSUME TunerInv, RankInv, NEW d \in Devices, NEW t \in Outcomes, BenchmarkEnds(d, t)
  PROVE  RankInv'
<1> DEFINE r == [id |-> busy[d], time |-> t, device |-> d, round |-> vmfb[busy[d]].round]
<1>1. /\ step \in {"benchmark.pool", "benchmark.baseline", "benchmark_dispatches.pool",
                   "benchmark_models.pool", "benchmark_models.baseline"}
      /\ step' = step /\ script' = script /\ tracker' = tracker
      /\ busy[d] # Nothing /\ busy' = [busy EXCEPT ![d] = Nothing]
      /\ todo' = todo /\ results' = Append(results, r) /\ measured' = measured
  BY DEF BenchmarkEnds, Measuring
<1>2. r.id = busy[d] /\ r.device \in Devices /\ r.time \in Int
  BY OutcomesAreNumbers
<1> HIDE DEF r
<1>3. OwnSteps'
  BY <1>1, OwnStep DEF RankInv, SpecSteps, FileSteps
<1>4. TopIsBest' /\ BaselinesAligned'
  BY <1>1, Unranked
<1>5. CASE step = "benchmark.pool"
  <2>1. ModelsCounted'
    BY <1>1, <1>5, NoModels DEF RankInv
  <2>2. /\ results \in Seq(Measurements) /\ busy \in [Devices -> Currents \cup {Nothing}]
        /\ Once(todo) /\ OnceEach(results)
        /\ \A i \in DOMAIN todo, k \in DOMAIN results : todo[i] # results[k].id
        /\ \A e \in Devices : busy[e] # Nothing =>
                /\ \A i \in DOMAIN todo : todo[i] # busy[e]
                /\ \A k \in DOMAIN results : results[k].id # busy[e]
                /\ \A f \in Devices : busy[f] = busy[e] => f = e
    BY <1>5 DEF TunerInv, WorkSound, RankInv, CandidatesOnce
  <2>3. /\ DOMAIN results' = 1 .. (Len(results) + 1) /\ Len(results) \in Nat
        /\ DOMAIN results = 1 .. Len(results)
        /\ \A k \in DOMAIN results : results'[k] = results[k]
        /\ results'[Len(results) + 1] = r
    <3>1. results \in Seq(Measurements \cup {r}) /\ r \in Measurements \cup {r}
      BY <2>2
    <3>2. QED BY <1>1, <3>1, AppendItems
  <2>4. \A k \in DOMAIN results' : k \in DOMAIN results \/ k = Len(results) + 1
    BY <2>3
  <2>5. \A e \in Devices : busy'[e] = IF e = d THEN Nothing ELSE busy[e]
    BY <1>1, <2>2
  <2>6. OnceEach(results')
    BY <1>1, <1>2, <2>2, <2>3, <2>4 DEF OnceEach
  <2>7. \A i \in DOMAIN todo', k \in DOMAIN results' : todo'[i] # results'[k].id
    BY <1>1, <1>2, <2>2, <2>3, <2>4
  <2>8. ASSUME NEW e \in Devices, busy'[e] # Nothing
        PROVE  /\ \A i \in DOMAIN todo' : todo'[i] # busy'[e]
               /\ \A k \in DOMAIN results' : results'[k].id # busy'[e]
               /\ \A f \in Devices : busy'[f] = busy'[e] => f = e
    <3>1. e # d /\ busy'[e] = busy[e] /\ busy[e] # Nothing
      BY <2>5, <2>8
    <3>2. \A i \in DOMAIN todo' : todo'[i] # busy'[e]
      BY <1>1, <2>2, <3>1
    <3>3. busy[e] # busy[d]
      BY <2>2, <3>1
    <3>4. \A k \in DOMAIN results' : results'[k].id # busy'[e]
      BY <1>2, <2>2, <2>3, <2>4, <3>1, <3>3
    <3>5. \A f \in Devices : busy'[f] = busy'[e] => f = e
      BY <2>2, <2>5, <2>8, <3>1
    <3>6. QED BY <3>2, <3>4, <3>5
  <2>9. CandidatesOnce'
    BY <1>1, <1>5, <2>2, <2>6, <2>7, <2>8 DEF CandidatesOnce
  <2>10. QED BY <1>3, <1>4, <2>1, <2>9 DEF RankInv
<1>6. CASE step = "benchmark.baseline"
  <2>1. ModelsCounted'
    BY <1>1, <1>6, NoModels DEF RankInv
  <2>2. CandidatesOnce'
    BY <1>1, <1>6 DEF RankInv, CandidatesOnce
  <2>3. QED BY <1>3, <1>4, <2>1, <2>2 DEF RankInv
<1>7. CASE step = "benchmark_dispatches.pool"
  <2>1. ModelsCounted'
    BY <1>1, <1>7, NoModels DEF RankInv
  <2>2. CandidatesOnce'
    BY <1>1, <1>7, NotOnce
  <2>3. QED BY <1>3, <1>4, <2>1, <2>2 DEF RankInv
<1>8. CASE step = "benchmark_models.pool"
  <2>1. Reports(results) /\ tracker = [i \in Ids |-> NoTime]
    BY <1>8 DEF RankInv, ModelsCounted
  <2>2. Reports(results')
    BY <1>1, <1>2, <2>1, ReportsMore
  <2>3. ModelsCounted'
    BY <1>1, <1>8, <2>1, <2>2 DEF ModelsCounted
  <2>4. CandidatesOnce'
    BY <1>1, <1>8, NotOnce
  <2>5. QED BY <1>3, <1>4, <2>3, <2>4 DEF RankInv
<1>9. CASE step = "benchmark_models.baseline"
  <2> DEFINE W == {e \in Devices : busy[e] # Nothing}
             V == {e \in Devices : busy'[e] # Nothing}
             C == Cardinality(Involved(measured))
  <2>1. /\ Reports(results) /\ Reports(measured)
        /\ todo \in Seq({0}) /\ busy \in [Devices -> {0, Nothing}]
        /\ Len(todo) + Len(results) + Cardinality(W) <= C
        /\ tracker = [i \in Ids |-> NoTime]
    BY <1>9 DEF RankInv, ModelsCounted
  <2>2. Reports(results') /\ Len(results) \in Nat /\ Len(results') = Len(results) + 1
    BY <1>1, <1>2, <2>1, ReportsMore
  <2>3. busy' \in [Devices -> {0, Nothing}]
    BY <1>1, <2>1
  <2>4. V = W \ {d} /\ d \in W
    BY <1>1, <2>1
  <2>5. IsFiniteSet(W)
    BY TunerAssumption, FS_Subset
  <2> HIDE DEF W, V, C
  <2>6. Cardinality(V) = Cardinality(W) - 1 /\ Cardinality(W) \in Nat
    BY <2>4, <2>5, FS_RemoveElement, FS_CardinalityType
  <2>7. Len(todo) \in Nat
    BY <2>1
  <2>8. Len(todo) + Len(results') + Cardinality(V) = Len(todo) + Len(results) + Cardinality(W)
    BY <2>2, <2>6, <2>7
  <2>9. Len(todo') + Len(results') + Cardinality({e \in Devices : busy'[e] # Nothing})
            <= Cardinality(Involved(measured'))
    BY <1>1, <2>1, <2>8 DEF C, V
  <2>10. ModelsCounted'
    BY <1>1, <1>9, <2>1, <2>2, <2>3, <2>9 DEF ModelsCounted
  <2>11. CandidatesOnce'
    BY <1>1, <1>9, NotOnce
  <2>12. QED BY <1>3, <1>4, <2>10, <2>11 DEF RankInv
<1>10. QED BY <1>1, <1>5, <1>6, <1>7, <1>8, <1>9

\* The first script generates the candidates' specs.
LEMMA GenerateRanks ==
  ASSUME TunerInv, RankInv, NEW n \in 0 .. NumCandidates, GenerateCandidateSpecs(n)
  PROVE  RankInv'
<1>1. step = "generate_candidate_specs"
  BY DEF GenerateCandidateSpecs
<1>2. CASE n = 0
  BY <1>1, <1>2, RaiseRanks DEF GenerateCandidateSpecs
<1>3. CASE n # 0
  <2>1. /\ step' = "compile" /\ script' = script /\ tracker' = tracker
        /\ list' = [i \in 1 .. n + 1 |-> i - 1] /\ measured' = << >>
    BY <1>3 DEF GenerateCandidateSpecs, Return
  <2>2. OwnSteps'
    BY <1>1, <2>1, OwnStep DEF RankInv, SpecSteps
  <2>3. ModelsCounted'
    BY <1>1, <2>1, NoModels DEF RankInv
  <2>4. TopIsBest' /\ BaselinesAligned'
    BY <2>1, Unranked
  <2>5. Once(list')
    <3>1. DOMAIN list' = 1 .. n + 1 /\ \A i \in 1 .. n + 1 : list'[i] = i - 1
      BY <2>1
    <3>2. \A i, j \in 1 .. n + 1 : i - 1 = j - 1 => i = j
      BY TunerAssumption
    <3>3. QED BY <3>1, <3>2 DEF Once
  <2>6. CandidatesOnce'
    BY <2>1, <2>5 DEF CandidatesOnce
  <2>7. QED BY <2>2, <2>3, <2>4, <2>6 DEF RankInv
<1>4. QED BY <1>2, <1>3

\* compile hands the candidates and the baseline to the pool.
LEMMA CompileBeginsRanks ==
  ASSUME TunerInv, RankInv, CompileBegins
  PROVE  RankInv'
<1>1. step = "compile" /\ list \in Seq(Ids) /\ Once(list)
  BY DEF CompileBegins, TunerInv, WorkSound, RankInv, CandidatesOnce
<1>2. /\ script' = script /\ tracker' = tracker
      /\ \/ step' = "benchmark" /\ list' = << >>
         \/ /\ step' = "compile.pool" /\ results' = << >>
            /\ todo' = list \/ (0 \notin ToSet(list) /\ todo' = Append(list, 0))
  BY DEF CompileBegins, Return, Await, files
<1>3. OwnSteps'
  BY <1>1, <1>2, OwnStep DEF RankInv, SpecSteps
<1>4. ModelsCounted'
  BY <1>1, <1>2, NoModels DEF RankInv
<1>5. TopIsBest' /\ BaselinesAligned'
  BY <1>2, Unranked
<1>6. CASE step' = "benchmark"
  <2>1. Once(list')
    BY <1>2, <1>6 DEF Once
  <2>2. CandidatesOnce'
    BY <1>6, <2>1 DEF CandidatesOnce
  <2>3. QED BY <1>3, <1>4, <1>5, <2>2 DEF RankInv
<1>7. CASE step' = "compile.pool"
  <2>1. ASSUME 0 \notin ToSet(list) PROVE Once(Append(list, 0))
    <3>1. \A a \in DOMAIN list : list[a] # 0
      BY <2>1 DEF ToSet
    <3>2. QED BY <1>1, <3>1, TunerNumbers, AppendOnce
  <2>2. Once(todo')
    BY <1>1, <1>2, <1>7, <2>1
  <2>3. Once(results') /\ Apart(todo', results')
    BY <1>2, <1>7 DEF Once, Apart
  <2>4. CandidatesOnce'
    BY <1>7, <2>2, <2>3 DEF CandidatesOnce
  <2>5. QED BY <1>3, <1>4, <1>5, <2>4 DEF RankInv
<1>8. QED BY <1>2, <1>6, <1>7

\* compile returns candidates once each.
LEMMA CompileReturnsRanks ==
  ASSUME TunerInv, RankInv, CompileReturns
  PROVE  RankInv'
<1>1. step = "compile.pool" /\ results \in Seq(Currents) /\ Once(results)
  BY DEF CompileReturns, TunerInv, WorkSound, RankInv, CandidatesOnce
<1>2. /\ script' = script /\ tracker' = tracker /\ step' = "benchmark"
      /\ list' = collision_handler(results, [i \in Ids |-> vmfb[i].content])
  BY DEF CompileReturns, Return
<1>3. OwnSteps'
  BY <1>1, <1>2, OwnStep DEF RankInv, SpecSteps
<1>4. ModelsCounted'
  BY <1>1, <1>2, NoModels DEF RankInv
<1>5. TopIsBest' /\ BaselinesAligned'
  BY <1>2, Unranked
<1>6. Once(list')
  BY <1>1, <1>2, KeptOnce DEF collision_handler
<1>7. CandidatesOnce'
  BY <1>2, <1>6 DEF CandidatesOnce
<1>8. QED BY <1>3, <1>4, <1>5, <1>7 DEF RankInv

\* benchmark measures the candidates, without the baseline.
LEMMA BenchmarkBeginsRanks ==
  ASSUME TunerInv, RankInv, BenchmarkBegins
  PROVE  RankInv'
<1>1. step = "benchmark" /\ list \in Seq(Currents) /\ Once(list)
  BY DEF BenchmarkBegins, TunerInv, WorkSound, RankInv, CandidatesOnce
<1>2. /\ script' = script /\ tracker' = tracker /\ step' = "benchmark.pool"
      /\ todo' = WithoutBaseline(list) /\ busy' = Idle /\ results' = << >>
  BY DEF BenchmarkBegins, Await
<1>3. OwnSteps'
  BY <1>1, <1>2, OwnStep DEF RankInv, SpecSteps
<1>4. ModelsCounted'
  BY <1>1, <1>2, NoModels DEF RankInv
<1>5. TopIsBest' /\ BaselinesAligned'
  BY <1>2, Unranked
<1>6. Once(todo')
  BY <1>1, <1>2, KeptOnce DEF WithoutBaseline
<1>7. \A d \in Devices : busy'[d] = Nothing
  BY <1>2 DEF Idle
<1>8. OnceEach(results') /\ \A i \in DOMAIN todo', k \in DOMAIN results' : todo'[i] # results'[k].id
  BY <1>2 DEF OnceEach
<1>9. CandidatesOnce'
  BY <1>2, <1>6, <1>7, <1>8 DEF CandidatesOnce
<1>10. QED BY <1>3, <1>4, <1>5, <1>9 DEF RankInv

\* Then the baseline is run for every device.
LEMMA BaselineBeginsRanks ==
  ASSUME TunerInv, RankInv, BaselineBegins
  PROVE  RankInv'
<1>1. step = "benchmark.pool" /\ OnceEach(results)
  BY DEF BaselineBegins, RankInv, CandidatesOnce
<1>2. /\ script' = script /\ tracker' = tracker /\ step' = "benchmark.baseline"
      /\ measured' = results
  BY DEF BaselineBegins, Await
<1>3. OwnSteps'
  BY <1>1, <1>2, OwnStep DEF RankInv, SpecSteps
<1>4. ModelsCounted'
  BY <1>1, <1>2, NoModels DEF RankInv
<1>5. TopIsBest' /\ BaselinesAligned'
  BY <1>2, Unranked
<1>6. CandidatesOnce'
  BY <1>1, <1>2 DEF CandidatesOnce
<1>7. QED BY <1>3, <1>4, <1>5, <1>6 DEF RankInv

\* The first results of a list, by their candidates.
LEMMA TopItems ==
  ASSUME NEW S, NEW s \in Seq(S)
  PROVE  \E m \in Nat : m <= Len(s) /\ IdsOf(Top(s, NumTop)) = [k \in 1 .. m |-> s[k].id]
<1>1. Len(s) \in Nat /\ NumTop \in Nat
  BY TunerAssumption
<1>2. PICK m \in Nat : m = Min({NumTop, Len(s)}) /\ m <= Len(s)
  <2>1. \E x \in {NumTop, Len(s)} : \A y \in {NumTop, Len(s)} : x <= y
    BY <1>1
  <2>2. /\ Min({NumTop, Len(s)}) \in {NumTop, Len(s)}
        /\ \A y \in {NumTop, Len(s)} : Min({NumTop, Len(s)}) <= y
    BY <2>1 DEF Min
  <2>3. QED BY <1>1, <2>2
<1>3. SubSeq(s, 1, m) = [k \in 1 .. m |-> s[k]]
  BY <1>1, <1>2
<1>4. DOMAIN SubSeq(s, 1, m) = 1 .. m /\ \A k \in 1 .. m : SubSeq(s, 1, m)[k] = s[k]
  BY <1>3
<1>5. IdsOf(SubSeq(s, 1, m)) = [k \in 1 .. m |-> s[k].id]
  BY <1>4 DEF IdsOf
<1>6. QED BY <1>2, <1>5 DEF Top

\* The time of a device's baseline.
LEMMA BaselinePositive ==
  ASSUME results \in Seq(Measurements), NEW d, HasBaseline(d)
  PROVE  BaselineTime(d) \in Nat \ {0}
<1> DEFINE K == {k \in DOMAIN results : results[k].device = d}
<1>1. DOMAIN results = 1 .. Len(results) /\ Len(results) \in Nat
  OBVIOUS
<1>2. K \in SUBSET Nat /\ IsFiniteSet(K) /\ K # {}
  <2>1. IsFiniteSet(1 .. Len(results))
    BY <1>1, Interval
  <2>2. K \subseteq 1 .. Len(results)
    BY <1>1
  <2>3. IsFiniteSet(K)
    BY <2>1, <2>2, FS_Subset
  <2>4. K # {}
    BY DEF HasBaseline
  <2>5. QED BY <2>2, <2>3, <2>4
<1> HIDE DEF K
<1>3. \E m \in K : \A t \in K : t <= m
  BY <1>2, GreatestNat
<1>4. Max(K) \in K
  <2>1. \E m \in K : \A t \in K : m >= t
    <3>1. PICK m \in K : \A t \in K : t <= m
      BY <1>3
    <3>2. \A t \in K : m >= t
      BY <1>2, <3>1
    <3>3. QED BY <3>2
  <2>2. QED BY <2>1 DEF Max
<1>5. results[Max(K)] \in Measurements
  BY <1>1, <1>4 DEF K
<1>6. BaselineTime(d) = results[Max(K)].time
  BY DEF BaselineTime, K
<1>7. QED BY <1>5, <1>6 DEF Measurements

\* The first m items of t are different ones of s.
Picks(p, t, s, m) == /\ p \in [1 .. m -> DOMAIN s]
                     /\ \A k \in 1 .. m : t[k] = s[p[k]]
                     /\ \A a, b \in 1 .. m : p[a] = p[b] => a = b

\* So their candidates are different ones too.
LEMMA OnceAmong ==
  ASSUME NEW t, NEW s, OnceEach(s), NEW m \in Nat, NEW p, Picks(p, t, s, m)
  PROVE  Once([k \in 1 .. m |-> t[k].id])
<1> DEFINE l == [k \in 1 .. m |-> t[k].id]
<1>1. DOMAIN l = 1 .. m /\ \A k \in 1 .. m : l[k] = t[k].id
  OBVIOUS
<1> HIDE DEF l
<1>2. ASSUME NEW a \in 1 .. m, NEW b \in 1 .. m, l[a] = l[b] PROVE a = b
  <2>1. s[p[a]].id = s[p[b]].id
    BY <1>1, <1>2 DEF Picks
  <2>2. p[a] = p[b]
    BY <2>1 DEF OnceEach, Picks
  <2>3. QED BY <2>2 DEF Picks
<1>3. Once(l)
  BY <1>1, <1>2 DEF Once
<1>4. QED BY <1>3 DEF l

\* Whatever list is returned holds every candidate once.
LEMMA ReturnedOnce ==
  ASSUME measured \in Seq(Measurements), OnceEach(measured),
         NEW s \in Permuted(measured) \cup {BestFirst(measured)}
  PROVE  Once(IdsOf(Top(s, NumTop)))
<1> DEFINE n == Len(measured)
<1>1. n \in Nat /\ DOMAIN measured = 1 .. n
  OBVIOUS
<1>2. s \in Seq(Measurements) /\ Len(s) = n /\ \E p \in [1 .. n -> 1 .. n] :
         /\ \A k \in 1 .. n : s[k] = measured[p[k]]
         /\ \A a, b \in 1 .. n : p[a] = p[b] => a = b
  <2>1. CASE s \in Permuted(measured)
    <3>1. PICK p \in [DOMAIN measured -> DOMAIN measured] :
             IsInjective(p) /\ s = [k \in DOMAIN measured |-> measured[p[k]]]
      BY <2>1 DEF Permuted
    <3>2. s \in Seq(Measurements)
      BY <2>1, PermutedIn
    <3>3. p \in [1 .. n -> 1 .. n] /\ DOMAIN s = 1 .. n /\ \A k \in 1 .. n : s[k] = measured[p[k]]
      BY <1>1, <3>1
    <3>4. Len(s) = n
      BY <1>1, <3>2, <3>3
    <3>5. \A a, b \in 1 .. n : p[a] = p[b] => a = b
      BY <3>1, <3>3 DEF IsInjective
    <3>6. QED BY <3>2, <3>3, <3>4, <3>5
  <2>2. CASE s = BestFirst(measured)
    <3>1. s \in Seq(Measurements) /\ \E p : Reorders(p, s, measured, n)
      BY <2>2, SortedItems DEF BestFirst
    <3>2. QED BY <3>1 DEF Reorders
  <2>3. QED BY <2>1, <2>2
<1>3. PICK p \in [1 .. n -> 1 .. n] :
         /\ \A k \in 1 .. n : s[k] = measured[p[k]]
         /\ \A a, b \in 1 .. n : p[a] = p[b] => a = b
  BY <1>2
<1>4. PICK m \in Nat : m <= n /\ IdsOf(Top(s, NumTop)) = [k \in 1 .. m |-> s[k].id]
  BY <1>2, TopItems
<1>5. \A k \in 1 .. m : k \in 1 .. n
  BY <1>1, <1>4
<1> DEFINE q == [k \in 1 .. m |-> p[k]]
<1>6. q \in [1 .. m -> DOMAIN measured] /\ \A k \in 1 .. m : q[k] = p[k]
  BY <1>1, <1>5
<1> HIDE DEF q, n
<1>7. Picks(q, s, measured, m)
  BY <1>3, <1>5, <1>6 DEF Picks
<1>8. QED BY <1>4, <1>6, <1>7, OnceAmong

\* The best are kept: none that is dropped comes before one that is kept.
LEMMA BestAreKept ==
  ASSUME measured \in Seq(Measurements), OnceEach(measured), results \in Seq(Measurements),
         \A k \in DOMAIN measured : HasBaseline(measured[k].device) /\ ~NaN(measured[k]),
         NEW l, l = IdsOf(Top(BestFirst(measured), NumTop)),
         NEW i \in DOMAIN measured, NEW j \in DOMAIN measured,
         measured[i].id \in ToSet(l), measured[j].id \notin ToSet(l)
  PROVE  ~BySpeedup(measured[j], measured[i])
<1> DEFINE n == Len(measured)
           R == {measured[k] : k \in DOMAIN measured}
           less == {p \in R \X R : BySpeedup(p[1], p[2])}
           s == Sorted(measured, less)
<1>1. n \in Nat /\ DOMAIN measured = 1 .. n /\ measured \in Seq(R)
  OBVIOUS
<1>2. BestFirst(measured) = s
  BY DEF BestFirst, ToSet
<1>3. \A r \in R : Ranked(r)
  <2>1. ASSUME NEW k \in DOMAIN measured PROVE Ranked(measured[k])
    <3>1. measured[k] \in Measurements
      OBVIOUS
    <3>2. measured[k].time \in Nat \ {0}
      BY <3>1 DEF Measurements
    <3>3. BaselineTime(measured[k].device) \in Nat \ {0}
      BY BaselinePositive
    <3>4. QED BY <3>2, <3>3 DEF Ranked
  <2>2. QED BY <2>1
<1>4. measured[i] \in R /\ measured[j] \in R
  OBVIOUS
<1> HIDE DEF R
<1>5. ASSUME NEW x \in R, NEW y \in R PROVE <<x, y>> \in less <=> BySpeedup(x, y)
  OBVIOUS
<1> HIDE DEF less
<1>6. WeakOrder(less, R)
  <2>1. /\ \A x, y \in R : BySpeedup(x, y) => ~BySpeedup(y, x)
        /\ \A x, y, z \in R : ~BySpeedup(x, y) /\ ~BySpeedup(y, z) => ~BySpeedup(x, z)
    BY <1>3, SpeedupOrder
  <2>2. QED BY <1>5, <2>1 DEF WeakOrder
<1>7. Ordered(s, less)
  BY <1>1, <1>6, SortedInOrder
<1>8. s \in Seq(R) /\ \E p : Reorders(p, s, measured, n)
  BY <1>1, SortedItems
<1> HIDE DEF s, n
<1>9. PICK p : Reorders(p, s, measured, n)
  BY <1>8
<1>10. /\ Len(s) = n /\ \A a \in 1 .. n : p[a] \in 1 .. n /\ s[a] = measured[p[a]]
       /\ \A c \in 1 .. n : \E a \in 1 .. n : p[a] = c
  BY <1>9 DEF Reorders
<1>11. PICK m \in Nat : m <= n /\ l = [k \in 1 .. m |-> s[k].id]
  <2>1. \E m \in Nat : m <= Len(s) /\ IdsOf(Top(s, NumTop)) = [k \in 1 .. m |-> s[k].id]
    BY <1>8, TopItems
  <2>2. QED BY <1>2, <1>10, <2>1
<1>12. \A x : x \in ToSet(l) <=> \E k \in 1 .. m : x = s[k].id
  BY <1>11 DEF ToSet
<1>13. PICK a \in 1 .. m : measured[i].id = s[a].id
  BY <1>12
<1>14. a \in 1 .. n /\ p[a] = i
  <2>1. a \in 1 .. n
    BY <1>1, <1>11
  <2>2. measured[i].id = measured[p[a]].id /\ p[a] \in DOMAIN measured
    BY <1>1, <1>10, <1>13, <2>1
  <2>3. QED BY <2>1, <2>2 DEF OnceEach
<1>15. PICK b \in 1 .. n : p[b] = j
  BY <1>1, <1>10
<1>16. b \notin 1 .. m
  BY <1>10, <1>12, <1>15
<1>17. a < b
  BY <1>1, <1>11, <1>16
<1>18. <<s[b], s[a]>> \notin less
  BY <1>7, <1>10, <1>14, <1>17 DEF Ordered
<1>19. s[b] = measured[j] /\ s[a] = measured[i]
  BY <1>10, <1>14, <1>15
<1>20. QED BY <1>4, <1>5, <1>18, <1>19

\* The best go on to the next round.
LEMMA BenchmarkReturnsRanks ==
  ASSUME TunerInv, RankInv, BenchmarkReturns
  PROVE  RankInv'
<1>1. /\ step = "benchmark.baseline" /\ measured \in Seq(Measurements) /\ results \in Seq(Measurements)
      /\ OnceEach(measured) /\ script = "specs"
  BY DEF BenchmarkReturns, TunerInv, WorkSound, RankInv, CandidatesOnce, OwnSteps, SpecSteps
<1>2. CASE \E k \in DOMAIN measured : ~HasBaseline(measured[k].device)
  BY <1>1, <1>2, RaiseRanks DEF BenchmarkReturns
<1>3. CASE ~ \E k \in DOMAIN measured : ~HasBaseline(measured[k].device)
  <2>1. /\ script' = script /\ tracker' = tracker /\ step' \in {"compile", "ended"}
        /\ results' = results /\ measured' = measured
    BY <1>3 DEF BenchmarkReturns
  <2>2. PICK s \in Permuted(measured) \cup {BestFirst(measured)} :
           /\ list' = IdsOf(Top(s, NumTop))
           /\ (\A k \in DOMAIN measured : ~NaN(measured[k])) => s = BestFirst(measured)
    BY <1>3 DEF BenchmarkReturns
  <2>3. OwnSteps'
    BY <1>1, <2>1, OwnStep DEF RankInv, SpecSteps
  <2>4. ModelsCounted'
    BY <1>1, <2>1, NoModels DEF RankInv
  <2>5. CandidatesOnce'
    <3>1. Once(list')
      BY <1>1, <2>2, ReturnedOnce
    <3>2. QED BY <2>1, <3>1 DEF CandidatesOnce
  <2>6. BaselinesAligned'
    BY <1>1, <2>1 DEF BaselinesAligned
  <2>7. ASSUME \A k \in DOMAIN measured : ~NaN(measured[k]),
               NEW i \in DOMAIN measured, NEW j \in DOMAIN measured,
               measured[i].id \in ToSet(list'), measured[j].id \notin ToSet(list')
        PROVE  ~BySpeedup(measured[j], measured[i])
    <3>1. \A k \in DOMAIN measured : HasBaseline(measured[k].device) /\ ~NaN(measured[k])
      BY <1>3, <2>7
    <3>2. list' = IdsOf(Top(BestFirst(measured), NumTop))
      BY <2>2, <2>7
    <3>3. QED BY <1>1, <2>7, <3>1, <3>2, BestAreKept
  <2>8. \A d : BaselineTime(d)' = BaselineTime(d)
    BY <2>1 DEF BaselineTime
  <2>9. TopIsBest'
    <3>1. \A k \in DOMAIN measured : NaN(measured[k])' <=> NaN(measured[k])
      BY <2>1, <2>8 DEF NaN
    <3>2. \A i, j \in DOMAIN measured : BySpeedup(measured[j], measured[i])' <=> BySpeedup(measured[j], measured[i])
      BY <2>1, <2>8 DEF BySpeedup
    <3>3. QED BY <2>1, <2>7, <3>1, <3>2 DEF TopIsBest
  <2>10. QED BY <2>3, <2>4, <2>5, <2>6, <2>9 DEF RankInv
<1>4. QED BY <1>2, <1>3

\* The devices that have results are finitely many.
LEMMA InvolvedFinite ==
  ASSUME NEW s, Reports(s)
  PROVE  /\ Involved(s) \subseteq Devices /\ IsFiniteSet(Involved(s)) /\ Cardinality(Involved(s)) \in Nat
         /\ Len(s) \in Nat /\ DOMAIN s = 1 .. Len(s)
         /\ \A k \in DOMAIN s : s[k].device \in Involved(s) /\ s[k].device \in Nat /\ s[k].time \in Int
<1>1. PICK S : s \in Seq(S) /\ \A x \in S : x.device \in Devices /\ x.time \in Int
  BY DEF Reports
<1>2. Len(s) \in Nat /\ DOMAIN s = 1 .. Len(s) /\ \A k \in DOMAIN s : s[k] \in S
  BY <1>1
<1>3. \A k \in DOMAIN s : s[k].device \in Devices /\ s[k].time \in Int
  BY <1>1, <1>2
<1>4. Devices \subseteq Nat /\ IsFiniteSet(Devices)
  BY TunerAssumption
<1>5. Involved(s) \subseteq Devices /\ \A k \in DOMAIN s : s[k].device \in Involved(s)
  BY <1>3 DEF Involved
<1>6. IsFiniteSet(Involved(s)) /\ Cardinality(Involved(s)) \in Nat
  BY <1>4, <1>5, FS_Subset, FS_CardinalityType
<1>7. QED BY <1>2, <1>3, <1>4, <1>5, <1>6

\* As many devices as results: every result is of a device of its own.
LEMMA DevicesDiffer ==
  ASSUME NEW s, Reports(s), Len(s) <= Cardinality(Involved(s))
  PROVE  \A a, b \in 1 .. Len(s) : s[a].device = s[b].device => a = b
<1> DEFINE n == Len(s)
           I == Involved(s)
           g == [k \in 1 .. n |-> s[k].device]
<1>1. /\ n \in Nat /\ IsFiniteSet(I) /\ Cardinality(I) \in Nat /\ n <= Cardinality(I)
      /\ \A k \in 1 .. n : s[k].device \in I
      /\ \A d \in I : \E k \in 1 .. n : d = s[k].device
  <2>1. DOMAIN s = 1 .. Len(s)
    BY InvolvedFinite
  <2>2. QED BY <2>1, InvolvedFinite DEF Involved
<1>2. \A k \in 1 .. n : g[k] = s[k].device
  OBVIOUS
<1> HIDE DEF I, n
<1>3. g \in Surjection(1 .. n, I)
  <2>1. g \in [1 .. n -> I]
    BY <1>1
  <2> HIDE DEF g
  <2>2. QED BY <1>1, <1>2, <2>1 DEF Surjection
<1> HIDE DEF g
<1>4. IsFiniteSet(1 .. n) /\ Cardinality(1 .. n) = n
  BY <1>1, Interval
<1>5. /\ Cardinality(I) <= Cardinality(1 .. n)
      /\ Cardinality(I) = Cardinality(1 .. n) <=> g \in Injection(1 .. n, I)
  BY <1>3, <1>4, FS_Surjection
<1>6. Cardinality(I) = n
  BY <1>1, <1>4, <1>5
<1>7. g \in Injection(1 .. n, I)
  BY <1>4, <1>5, <1>6
<1>8. \A a, b \in 1 .. n : g[a] = g[b] => a = b
  BY <1>7 DEF Injection, IsInjective
<1>9. \A a, b \in 1 .. n : s[a].device = s[b].device => a = b
  BY <1>2, <1>8
<1>10. QED BY <1>9 DEF n

\* The baseline that stands at a device's place among those with results is its own.
LEMMA OwnBaseline ==
  ASSUME Reports(results), Len(results) <= Cardinality(Involved(results)), NEW d \in Involved(results)
  PROVE  SortedBaselines(results)[Cardinality({e \in Involved(results) : e <= d})].device = d
<1> DEFINE n == Len(results)
           I == Involved(results)
           key == [r \in ToSet(results) |-> r.device]
           t == SortedBaselines(results)
           L == {e \in I : e <= d}
<1>1. /\ n \in Nat /\ DOMAIN results = 1 .. n
      /\ \A k \in 1 .. n : results[k].device \in I /\ results[k].device \in Nat
      /\ \A e \in I : e \in Nat /\ \E k \in 1 .. n : e = results[k].device
      /\ \A a, b \in 1 .. n : results[a].device = results[b].device => a = b
  <2>1. n \in Nat /\ DOMAIN results = 1 .. n
    BY InvolvedFinite
  <2>2. \A k \in 1 .. n : results[k].device \in I /\ results[k].device \in Nat
    BY <2>1, InvolvedFinite
  <2>3. \A e \in I : \E k \in 1 .. n : e = results[k].device
    BY <2>1 DEF Involved
  <2>4. \A e \in I : e \in Nat
    BY <2>2, <2>3
  <2>5. \A a, b \in 1 .. n : results[a].device = results[b].device => a = b
    BY DevicesDiffer
  <2>6. QED BY <2>1, <2>2, <2>3, <2>4, <2>5
<1>2. PICK S : results \in Seq(S)
  BY DEF Reports
<1>3. \A k \in 1 .. n : key[results[k]] = results[k].device
  BY <1>1 DEF ToSet
<1>4. t = SortedBy(results, key)
  BY DEF SortedBaselines
<1> HIDE DEF key
<1>5. /\ \E p : Reorders(p, t, results, n)
      /\ \A a, b \in 1 .. n : a < b => key[t[a]] <= key[t[b]]
  <2>1. \A k \in DOMAIN results : key[results[k]] \in Int
    BY <1>1, <1>3
  <2>2. QED BY <1>2, <1>4, <2>1, SortedByKey
<1> HIDE DEF n, I, t, L
<1>6. PICK p : Reorders(p, t, results, n)
  BY <1>5
<1>7. /\ \A a \in 1 .. n : p[a] \in 1 .. n /\ t[a] = results[p[a]]
      /\ \A a, b \in 1 .. n : p[a] = p[b] => a = b
      /\ \A c \in 1 .. n : \E a \in 1 .. n : p[a] = c
  BY <1>6 DEF Reorders
<1>8. /\ \A a \in 1 .. n : t[a].device \in I /\ t[a].device \in Nat /\ key[t[a]] = t[a].device
      /\ \A a, b \in 1 .. n : t[a].device = t[b].device => a = b
  <2>1. ASSUME NEW a \in 1 .. n
        PROVE  t[a].device \in I /\ t[a].device \in Nat /\ key[t[a]] = t[a].device
    <3>1. p[a] \in 1 .. n /\ t[a] = results[p[a]]
      BY <1>7
    <3>2. QED BY <1>1, <1>3, <3>1
  <2>2. ASSUME NEW a \in 1 .. n, NEW b \in 1 .. n, t[a].device = t[b].device PROVE a = b
    <3>1. /\ p[a] \in 1 .. n /\ p[b] \in 1 .. n
          /\ results[p[a]].device = results[p[b]].device
      BY <1>7, <2>2
    <3>2. p[a] = p[b]
      BY <1>1, <3>1
    <3>3. QED BY <1>7, <3>2
  <2>3. QED BY <2>1, <2>2
<1>9. ASSUME NEW a \in 1 .. n, NEW b \in 1 .. n, a < b PROVE t[a].device < t[b].device
  <2>1. t[a].device <= t[b].device
    BY <1>5, <1>8, <1>9
  <2>2. t[a].device # t[b].device
    BY <1>1, <1>8, <1>9
  <2>3. QED BY <1>8, <2>1, <2>2
<1>10. PICK k \in 1 .. n : t[k].device = d
  <2>1. d \in I
    BY DEF I
  <2>2. PICK c \in 1 .. n : d = results[c].device
    BY <1>1, <2>1
  <2>3. PICK k \in 1 .. n : p[k] = c
    BY <1>7
  <2>4. QED BY <1>7, <2>2, <2>3
<1> DEFINE h == [a \in 1 .. k |-> t[a].device]
<1>11. k \in Nat /\ \A a \in 1 .. k : a \in 1 .. n /\ h[a] = t[a].device /\ (a = k \/ a < k)
  BY <1>1
<1>12. h \in [1 .. k -> L]
  <2>1. ASSUME NEW a \in 1 .. k PROVE t[a].device \in L
    <3>1. t[a].device \in I /\ t[a].device <= d
      BY <1>8, <1>9, <1>10, <1>11
    <3>2. QED BY <3>1 DEF L
  <2>2. QED BY <2>1
<1> HIDE DEF h
<1>13. h \in Injection(1 .. k, L)
  <2>1. \A a, b \in 1 .. k : h[a] = h[b] => a = b
    BY <1>8, <1>11
  <2>2. QED BY <1>12, <2>1 DEF Injection, IsInjective
<1>14. h \in Surjection(1 .. k, L)
  <2>1. ASSUME NEW e \in L PROVE \E a \in 1 .. k : h[a] = e
    <3>1. e \in I /\ e <= d /\ e \in Nat
      BY <1>1 DEF L
    <3>2. PICK c \in 1 .. n : e = results[c].device
      BY <1>1, <3>1
    <3>3. PICK a \in 1 .. n : p[a] = c
      BY <1>7
    <3>4. t[a].device = e
      BY <1>7, <3>2, <3>3
    <3>5. ~ (k < a)
      BY <1>8, <1>9, <1>10, <3>1, <3>4
    <3>6. a \in 1 .. k
      BY <1>1, <3>5
    <3>7. QED BY <1>11, <3>4, <3>6
  <2>2. QED BY <1>12, <2>1 DEF Surjection
<1>15. IsFiniteSet(1 .. k) /\ Cardinality(1 .. k) = k
  BY <1>11, Interval
<1>16. Cardinality(L) = k
  <2>1. Cardinality(L) = Cardinality(1 .. k) <=> h \in Injection(1 .. k, L)
    BY <1>14, <1>15, FS_Surjection
  <2>2. QED BY <1>13, <1>15, <2>1
<1>17. t[Cardinality(L)].device = d
  BY <1>10, <1>16
<1>18. QED BY <1>17 DEF t, L, I

\* The baselines of the model benchmarks begin: as many as devices have results.
LEMMA ModelBaselineBeginsRanks ==
  ASSUME TunerInv, RankInv, ModelBaselineBegins
  PROVE  RankInv'
<1>1. step = "benchmark_models.pool" /\ Reports(results) /\ tracker = [i \in Ids |-> NoTime]
  BY DEF ModelBaselineBegins, RankInv, ModelsCounted
<1> DEFINE c == Cardinality(Involved(results))
<1>2. /\ script' = script /\ tracker' = tracker /\ step' = "benchmark_models.baseline"
      /\ measured' = results /\ results' = << >> /\ busy' = Idle
      /\ todo' = [k \in 1 .. c |-> 0]
  BY DEF ModelBaselineBegins, Await
<1>3. c \in Nat
  BY <1>1, InvolvedFinite
<1>4. Involved(measured') = Involved(results)
  BY <1>2
<1> HIDE DEF c
<1>5. todo' \in Seq({0}) /\ Len(todo') = c
  BY <1>2, <1>3
<1>6. busy' \in [Devices -> {0, Nothing}]
  BY <1>2, IdleOf
<1>7. Cardinality({d \in Devices : busy'[d] # Nothing}) = 0
  <2>1. {d \in Devices : busy'[d] # Nothing} = {}
    BY <1>2 DEF Idle
  <2>2. QED BY <2>1, FS_EmptySet
<1>8. Reports(results') /\ Len(results') = 0
  BY <1>2, NoReports
<1>9. Len(todo') + Len(results') + Cardinality({d \in Devices : busy'[d] # Nothing})
         <= Cardinality(Involved(measured'))
  <2>1. Len(todo') + Len(results') + Cardinality({d \in Devices : busy'[d] # Nothing}) = c
    BY <1>3, <1>5, <1>7, <1>8
  <2>2. Cardinality(Involved(measured')) = c
    BY <1>4 DEF c
  <2>3. QED BY <1>3, <2>1, <2>2
<1>10. ModelsCounted'
  <2>1. Reports(measured')
    BY <1>1, <1>2
  <2>2. QED BY <1>1, <1>2, <1>5, <1>6, <1>8, <1>9, <2>1 DEF ModelsCounted
<1>11. OwnSteps'
  BY <1>1, <1>2, OwnStep DEF RankInv, FileSteps
<1>12. CandidatesOnce'
  BY <1>2, NotOnce
<1>13. TopIsBest' /\ BaselinesAligned'
  BY <1>2, Unranked
<1>14. QED BY <1>10, <1>11, <1>12, <1>13 DEF RankInv

\* The summary is in the order of the times.
LEMMA SummaryInOrder ==
  ASSUME NEW t, \A i \in Ids : t[i].time \in Int
  PROVE  \A a, b \in DOMAIN Summary(t) : a < b => t[Summary(t)[a]].time <= t[Summary(t)[b]].time
<1> DEFINE all == [i \in 1 .. NumCandidates |-> i]
           s == Kept(all, {i \in Ids : t[i].time # Nothing})
           key == [i \in Ids |-> t[i].time]
           l == SortedBy(s, key)
<1>1. all \in Seq(Ids)
  <2>1. NumCandidates \in Nat
    BY TunerAssumption
  <2>2. \A i \in 1 .. NumCandidates : i \in Ids
    BY <2>1 DEF Ids
  <2>3. QED BY <2>1, <2>2
<1> HIDE DEF all
<1>2. s \in Seq(Ids)
  BY <1>1, KeptItems
<1>3. l = Summary(t)
  BY DEF Summary, all
<1>4. \A i \in Ids : key[i] = t[i].time /\ key[i] \in Int
  OBVIOUS
<1> HIDE DEF s, key
<1>5. \A k \in DOMAIN s : key[s[k]] \in Int
  BY <1>2, <1>4
<1>6. /\ l \in Seq(Ids) /\ \E p : Reorders(p, l, s, Len(s))
      /\ \A a, b \in 1 .. Len(s) : a < b => key[l[a]] <= key[l[b]]
  BY <1>2, <1>5, SortedByKey
<1> HIDE DEF l
<1>7. DOMAIN l = 1 .. Len(s) /\ \A a \in DOMAIN l : l[a] \in Ids
  BY <1>6 DEF Reorders
<1>8. \A a, b \in DOMAIN l : a < b => t[l[a]].time <= t[l[b]].time
  BY <1>4, <1>6, <1>7
<1>9. QED BY <1>3, <1>8

\* The results are read, and every candidate is compared with its own baseline.
LEMMA BenchmarkModelsReturnsRanks ==
  ASSUME TunerInv, RankInv, BenchmarkModelsReturns
  PROVE  RankInv'
<1>1. /\ step = "benchmark_models.baseline" /\ script = "files"
      /\ Reports(results) /\ Reports(measured) /\ tracker = [i \in Ids |-> NoTime]
      /\ todo \in Seq({0}) /\ busy = Idle
      /\ Len(todo) + Len(results) + Cardinality({d \in Devices : busy[d] # Nothing})
            <= Cardinality(Involved(measured))
  BY DEF BenchmarkModelsReturns, Drained, RankInv, ModelsCounted, OwnSteps, FileSteps
<1>2. CASE \E r \in ToSet(measured \o results) : r.time = Bad
  BY <1>1, <1>2, RaiseRanks DEF BenchmarkModelsReturns
<1>3. CASE ~ \E r \in ToSet(measured \o results) : r.time = Bad
  <2> DEFINE own(i) == {k \in DOMAIN measured : measured[k].id = i /\ measured[k].time # Timeout}
             row(i) == IF own(i) = {} THEN tracker[i]
                       ELSE Compared(measured[Max(own(i))], SortedBaselines(results))
  <2>1. /\ step' = "ended" /\ script' = script /\ error' = error
        /\ results' = results /\ measured' = measured
        /\ tracker' = [i \in Ids |-> row(i)] /\ list' = Summary(tracker')
    BY <1>3 DEF BenchmarkModelsReturns, pool
  <2>2. Len(results) <= Cardinality(Involved(measured))
    <3>1. Len(todo) \in Nat /\ Len(results) \in Nat /\ Cardinality(Involved(measured)) \in Nat
      BY <1>1, InvolvedFinite
    <3>2. Cardinality({d \in Devices : busy[d] # Nothing}) \in Nat
      <4>1. IsFiniteSet({d \in Devices : busy[d] # Nothing})
        BY TunerAssumption, FS_Subset
      <4>2. QED BY <4>1, FS_CardinalityType
    <3>3. QED BY <1>1, <3>1, <3>2
  <2>3. ASSUME NEW i \in Ids, own(i) # {} PROVE \E k \in DOMAIN measured : Max(own(i)) = k
    <3>1. DOMAIN measured = 1 .. Len(measured) /\ Len(measured) \in Nat
      BY <1>1, InvolvedFinite
    <3>2. own(i) \in SUBSET Nat /\ own(i) \subseteq 1 .. Len(measured)
      BY <3>1
    <3>3. IsFiniteSet(own(i))
      BY <3>1, <3>2, Interval, FS_Subset
    <3> HIDE DEF own
    <3>4. PICK m \in own(i) : \A t \in own(i) : t <= m
      BY <2>3, <3>2, <3>3, GreatestNat
    <3>5. \A t \in own(i) : m >= t
      BY <3>2, <3>4
    <3>6. Max(own(i)) \in own(i)
      BY <3>5 DEF Max
    <3>7. QED BY <3>1, <3>2, <3>6
  <2>4. ASSUME NEW i \in Ids
        PROVE  \/ row(i) = NoTime
               \/ \E k \in DOMAIN measured : row(i) = Compared(measured[k], SortedBaselines(results))
    <3>1. CASE own(i) = {}
      BY <1>1, <3>1
    <3>2. CASE own(i) # {}
      <4>1. PICK k \in DOMAIN measured : Max(own(i)) = k
        BY <2>3, <3>2
      <4> HIDE DEF own
      <4>2. QED BY <3>2, <4>1
    <3>3. QED BY <3>1, <3>2
  <2> HIDE DEF row
  <2>5. \A i \in Ids : tracker'[i] = row(i)
    BY <2>1
  <2>6. ASSUME NEW k \in DOMAIN measured
        PROVE  /\ Compared(measured[k], SortedBaselines(results)).time \in Int
               /\ Compared(measured[k], SortedBaselines(results)).device = measured[k].device
               /\ Involved(results) = Involved(measured) =>
                     Compared(measured[k], SortedBaselines(results)).base_device \in {Nothing, measured[k].device}
    <3> DEFINE b == SortedBaselines(results)[Cardinality({d \in Involved(measured) : d <= measured[k].device})]
    <3>1. measured[k].time \in Int /\ measured[k].device \in Involved(measured)
      BY <1>1, InvolvedFinite
    <3>2. Compared(measured[k], SortedBaselines(results)) =
             [time |-> measured[k].time, device |-> measured[k].device,
              base |-> IF b.time = Timeout THEN Nothing ELSE b.time,
              base_device |-> IF b.time = Timeout THEN Nothing ELSE b.device]
      BY DEF Compared
    <3>3. ASSUME Involved(results) = Involved(measured) PROVE b.device = measured[k].device
      <4>1. SortedBaselines(results)[Cardinality({d \in Involved(results) : d <= measured[k].device})].device
               = measured[k].device
        BY <1>1, <2>2, <3>1, <3>3, OwnBaseline
      <4>2. QED BY <3>3, <4>1
    <3> HIDE DEF b
    <3>4. QED BY <3>1, <3>2, <3>3
  <2>7. \A i \in Ids : tracker'[i].time \in Int
    BY <2>4, <2>5, <2>6 DEF NoTime, Nothing
  <2>8. ASSUME Involved(results) = Involved(measured), NEW i \in Ids
        PROVE  tracker'[i].base_device \in {Nothing, tracker'[i].device}
    BY <2>4, <2>5, <2>6, <2>8 DEF NoTime
  <2>9. \A a, b \in DOMAIN list' : a < b => tracker'[list'[a]].time <= tracker'[list'[b]].time
    BY <2>1, <2>7, SummaryInOrder
  <2>10. BaselinesAligned'
    BY <2>1, <2>8, <2>9 DEF BaselinesAligned
  <2>11. TopIsBest'
    BY <1>1, <2>1 DEF TopIsBest
  <2>12. OwnSteps'
    BY <1>1, <2>1, OwnStep DEF RankInv
  <2>13. CandidatesOnce'
    BY <2>1, NotOnce
  <2>14. ModelsCounted'
    BY <2>1 DEF ModelsCounted
  <2>15. QED BY <2>10, <2>11, <2>12, <2>13, <2>14 DEF RankInv
<1>4. QED BY <1>2, <1>3

\* The benchmarks of the models begin.
LEMMA BenchmarkModelsBeginsRanks ==
  ASSUME TunerInv, RankInv, BenchmarkModelsBegins
  PROVE  RankInv'
<1>1. step = "benchmark_models" /\ tracker = [i \in Ids |-> NoTime]
  BY DEF BenchmarkModelsBegins, RankInv, ModelsCounted
<1>2. /\ script' = script /\ tracker' = tracker /\ step' = "benchmark_models.pool"
      /\ results' = << >>
  BY DEF BenchmarkModelsBegins, Await, files
<1>3. Reports(results')
  BY <1>2, NoReports
<1>4. ModelsCounted'
  BY <1>1, <1>2, <1>3 DEF ModelsCounted
<1>5. OwnSteps'
  BY <1>1, <1>2, OwnStep DEF RankInv, FileSteps
<1>6. CandidatesOnce'
  BY <1>2, NotOnce
<1>7. TopIsBest' /\ BaselinesAligned'
  BY <1>2, Unranked
<1>8. QED BY <1>4, <1>5, <1>6, <1>7 DEF RankInv

\* The other functions of the second script rank nothing.
LEMMA FilesRank ==
  ASSUME TunerInv, RankInv, Files
  PROVE  RankInv'
<1> DEFINE Early == {"generate_candidates", "compile_dispatches", "compile_dispatches.pool",
                     "benchmark_dispatches", "benchmark_dispatches.pool", "compile_models",
                     "compile_models.pool", "benchmark_models"}
           Goes == /\ step \in Early /\ step' \in Early /\ script' = script /\ tracker' = tracker
           Raises == \E cause \in {"generate", "compile", "benchmark", "pool"} :
                       step \in Early /\ Raise(cause)
<1>1. ASSUME NEW n \in 0 .. NumCandidates, GenerateCandidates(n) PROVE Goes
  BY <1>1 DEF GenerateCandidates, Return
<1>2. ASSUME GenerationRaises PROVE Raises
  BY <1>2 DEF GenerationRaises
<1>3. ASSUME CompileDispatchesBegins PROVE Goes
  BY <1>3 DEF CompileDispatchesBegins, Await
<1>4. ASSUME CompileDispatchesReturns PROVE Goes \/ Raises
  BY <1>4 DEF CompileDispatchesReturns, Return
<1>5. ASSUME BenchmarkDispatchesBegins PROVE Goes
  BY <1>5 DEF BenchmarkDispatchesBegins, Await
<1>6. ASSUME BenchmarkDispatchesReturns PROVE Goes \/ Raises
  BY <1>6 DEF BenchmarkDispatchesReturns, Return
<1>7. ASSUME CompileModelsBegins PROVE Goes \/ Raises
  BY <1>7 DEF CompileModelsBegins, Return, Await
<1>8. ASSUME CompileModelsReturns PROVE Goes
  BY <1>8 DEF CompileModelsReturns, Return
<1>9. CASE Goes
  <2>1. OwnSteps'
    BY <1>9, OwnStep DEF RankInv, FileSteps
  <2>2. CandidatesOnce'
    BY <1>9, NotOnce
  <2>3. ModelsCounted'
    BY <1>9, NoModels DEF RankInv
  <2>4. TopIsBest' /\ BaselinesAligned'
    BY <1>9, Unranked
  <2>5. QED BY <2>1, <2>2, <2>3, <2>4 DEF RankInv
<1>10. CASE Raises
  <2>1. PICK cause \in {"generate", "compile", "benchmark", "pool"} : step \in Early /\ Raise(cause)
    BY <1>10
  <2>2. cause # "" /\ step # "ended"
    BY <2>1
  <2>3. QED BY <2>1, <2>2, RaiseRanks
<1> HIDE DEF Goes, Raises
<1>11. QED BY <1>1, <1>2, <1>3, <1>4, <1>5, <1>6, <1>7, <1>8, <1>9, <1>10, BenchmarkModelsBeginsRanks,
              ModelBaselineBeginsRanks, BenchmarkModelsReturnsRanks DEF Files

\* Whatever happens.
LEMMA RankStep ==
  ASSUME TunerInv, RankInv, [TuneNext]_tuneVars
  PROVE  RankInv'
<1>1. CASE UNCHANGED tuneVars
  <2>1. /\ script' = script /\ step' = step /\ list' = list /\ todo' = todo /\ busy' = busy
        /\ results' = results /\ measured' = measured /\ tracker' = tracker /\ error' = error
    BY <1>1 DEF tuneVars, pool, files
  <2>2. OwnSteps' /\ CandidatesOnce' /\ ModelsCounted' /\ BaselinesAligned'
    BY <2>1 DEF RankInv, OwnSteps, CandidatesOnce, ModelsCounted, BaselinesAligned
  <2>3. \A d : BaselineTime(d)' = BaselineTime(d)
    BY <2>1 DEF BaselineTime
  <2>4. \A r, s : BySpeedup(r, s)' <=> BySpeedup(r, s)
    BY <2>3 DEF BySpeedup
  <2>5. \A r : NaN(r)' <=> NaN(r)
    BY <2>3 DEF NaN
  <2>6. TopIsBest'
    BY <2>1, <2>4, <2>5 DEF RankInv, TopIsBest
  <2>7. QED BY <2>2, <2>6 DEF RankInv
<1>2. CASE PoolStep
  <2>1. ASSUME NEW k \in DOMAIN todo, NEW c \in Produced \cup {Nothing}, CompileEnds(k, c)
        PROVE  RankInv'
    BY <2>1, CompileEndsRanks
  <2>2. ASSUME NEW d \in Devices, Take(d) PROVE RankInv'
    BY <2>2, TakeRanks
  <2>3. ASSUME NEW d \in Devices, VmfbMissing(d) PROVE RankInv'
    BY <2>3, RaiseRanks DEF VmfbMissing
  <2>4. ASSUME NEW d \in Devices, NEW t \in Outcomes, BenchmarkEnds(d, t) PROVE RankInv'
    BY <2>4, BenchmarkEndsRanks
  <2>5. QED BY <1>2, <2>1, <2>2, <2>3, <2>4 DEF PoolStep
<1>3. CASE Specs
  <2>1. ASSUME NEW n \in 0 .. NumCandidates, GenerateCandidateSpecs(n) PROVE RankInv'
    BY <2>1, GenerateRanks
  <2>2. QED BY <1>3, <2>1, CompileBeginsRanks, CompileReturnsRanks, BenchmarkBeginsRanks,
               BaselineBeginsRanks, BenchmarkReturnsRanks DEF Specs
<1>4. ASSUME NEW d \in Devices, BenchmarkRaises(d) PROVE RankInv'
  BY <1>4, RaiseRanks DEF BenchmarkRaises
<1>5. CASE Interrupt
  <2>1. step # "ended" /\ Raise("interrupt")
    BY <1>5 DEF Interrupt, Compiling, Measuring
  <2>2. QED BY <2>1, RaiseRanks
<1>6. QED BY <1>1, <1>2, <1>3, <1>4, <1>5, FilesRank DEF TuneNext

\* RankingsSound holds of every run of the tuner: benchmark hands on no candidate
\* that is worse than one it drops, each against the baseline of its own device
\* (libtuner.py:1512-1527), and when the model baselines ran on the devices that
\* have results, parse_model_benchmark_results pairs every device with its own
\* (libtuner.py:1640-1648) and the summary is in the order of the times.
THEOREM RankingsAreSound == TuneSpec => []RankingsSound
<1>1. TuneInit => TunerInv /\ RankInv
  BY TunerStarts, RankStarts
<1>2. TunerInv /\ RankInv /\ [TuneNext]_tuneVars => (TunerInv /\ RankInv)'
  BY TunerStep, RankStep
<1>3. RankInv => RankingsSound
  BY DEF RankInv, RankingsSound
<1>4. QED BY <1>1, <1>2, <1>3, PTL DEF TuneSpec

----------------------------------------------------------------------------
(***************************************************************************)
(* Registry.                                                               *)
(***************************************************************************)

\* An override as Override registers it.
Registered(s, salience, declines, id) ==
    [kind |-> s.kind, spec |-> s.spec, autoUnbox |-> s.autoUnbox,
     autoDequant |-> s.autoDequant, salience |-> salience,
     declines |-> declines, id |-> id]
OverrideRecs ==
    {Registered(s, salience, declines, id) :
        s \in TypeSpecs, salience \in 0 .. 1, declines \in BOOLEAN, id \in Nat \ {0}}

\* A list of overrides is in order: later items are better, and others.
InOrder(s) ==
    \A i, j \in DOMAIN s :
        i < j => Better(s[j], s[i]) /\ s[i].id # s[j].id
IdsUpTo(s, n) == \A i \in DOMAIN s : s[i].id <= n

CacheAgrees == \A e \in targetCache : e.found = MatchTargets(e.types)

RegInv ==
    /\ overrides \in Seq(OverrideRecs)
    /\ InOrder(overrides) /\ IdsUpTo(overrides, Len(overrides))
    /\ CacheAgrees
    /\ MostSalientRuns

LEMMA RecFields ==
  ASSUME NEW o \in OverrideRecs
  PROVE  o.id \in Nat /\ o.id # 0 /\ o.salience \in Int /\ o.declines \in BOOLEAN
BY DEF OverrideRecs, Registered

LEMMA BetterOrder ==
  ASSUME NEW o \in OverrideRecs, NEW p \in OverrideRecs, NEW q \in OverrideRecs
  PROVE  /\ Better(o, o)
         /\ Better(o, p) /\ Better(p, q) => Better(o, q)
BY RecFields DEF Better

\* The items kept of a list in order are in order.
LEMMA KeptInOrder ==
  ASSUME NEW s \in Seq(OverrideRecs), InOrder(s), NEW K, NEW n, IdsUpTo(s, n)
  PROVE  InOrder(Kept(s, K)) /\ IdsUpTo(Kept(s, K), n)
<1> DEFINE q == Kept(s, K)
<1>1. PICK f : Selects(f, q, s, K \cap DOMAIN s)
  BY KeptItems
<1> HIDE DEF q
<1>2. \A i \in DOMAIN q : f[i] \in DOMAIN s /\ q[i] = s[f[i]]
  BY <1>1 DEF Selects
<1>3. \A i, j \in DOMAIN q : i < j => f[i] < f[j]
  BY <1>1 DEF Selects
<1>4. InOrder(q) /\ IdsUpTo(q, n)
  BY <1>2, <1>3 DEF InOrder, IdsUpTo
<1>5. QED BY <1>4 DEF q

\* Inserted keeps the order, and makes the list one longer.
LEMMA InsertedInOrder ==
  ASSUME NEW s \in Seq(OverrideRecs), InOrder(s), IdsUpTo(s, Len(s)),
         NEW o \in OverrideRecs, o.id = Len(s) + 1
  PROVE  /\ Inserted(s, o) \in Seq(OverrideRecs)
         /\ InOrder(Inserted(s, o)) /\ IdsUpTo(Inserted(s, o), Len(Inserted(s, o)))
<1> DEFINE L == {i \in DOMAIN s : s[i].salience <= o.salience}
           H == {i \in DOMAIN s : s[i].salience > o.salience}
           a == Kept(s, L)
           b == Kept(s, H)
           c == a \o <<o>>
           r == c \o b
           n == Len(s)
<1>1. Inserted(s, o) = r
  BY DEF Inserted
<1>2. L \cap DOMAIN s = L /\ H \cap DOMAIN s = H /\ L \in SUBSET DOMAIN s /\ H \in SUBSET DOMAIN s
  OBVIOUS
<1>3. a \in Seq(OverrideRecs) /\ b \in Seq(OverrideRecs) /\ n \in Nat /\ DOMAIN s = 1 .. n
  <2> HIDE DEF L, H
  <2>1. a \in Seq(OverrideRecs) /\ b \in Seq(OverrideRecs)
    BY KeptItems
  <2>2. QED BY <2>1
<1>4. InOrder(a) /\ IdsUpTo(a, n) /\ InOrder(b) /\ IdsUpTo(b, n)
  BY KeptInOrder
<1>5. \A i \in DOMAIN s : s[i] \in OverrideRecs /\ s[i].salience \in Int /\ o.salience \in Int
  BY <1>3, RecFields
<1> HIDE DEF L, H
<1>6. PICK f : Selects(f, a, s, L)
  BY <1>2, KeptItems
<1>7. PICK g : Selects(g, b, s, H)
  BY <1>2, KeptItems
<1> HIDE DEF a, b, n
<1>8. \A i \in DOMAIN a : a[i] \in OverrideRecs /\ a[i].salience <= o.salience /\ a[i].id <= n
  BY <1>3, <1>4, <1>6 DEF Selects, L, IdsUpTo
<1>9. \A i \in DOMAIN b : b[i] \in OverrideRecs /\ b[i].salience > o.salience /\ b[i].id <= n
  BY <1>3, <1>4, <1>7 DEF Selects, H, IdsUpTo
<1>10. Len(a) + Len(b) = n
  <2>1. Cardinality(L) = Len(a) /\ IsFiniteSet(L)
    BY <1>2, <1>3, <1>6, SelectsLength
  <2>2. Cardinality(H) = Len(b) /\ IsFiniteSet(H)
    BY <1>2, <1>3, <1>7, SelectsLength
  <2>3. L \cap H = {} /\ L \cup H = 1 .. n
    BY <1>3, <1>5 DEF L, H
  <2>4. Cardinality(L \cup H) = Cardinality(L) + Cardinality(H) - Cardinality(L \cap H)
    BY <2>1, <2>2, FS_Union
  <2>5. Cardinality({}) = 0
    BY FS_EmptySet
  <2>6. Cardinality(1 .. n) = n
    <3>1. 1 \in Int /\ n \in Int
      BY <1>3
    <3>2. Cardinality(1 .. n) = IF 1 > n THEN 0 ELSE n - 1 + 1
      BY <3>1, FS_Interval
    <3>3. QED BY <1>3, <3>2
  <2>7. Len(a) \in Nat /\ Len(b) \in Nat
    BY <1>3
  <2>8. Cardinality(L \cup H) = n /\ Cardinality(L \cap H) = 0
    BY <2>3, <2>5, <2>6
  <2>9. n = Len(a) + Len(b) - 0
    BY <2>1, <2>2, <2>4, <2>8
  <2>10. QED BY <2>7, <2>9
<1>11. /\ c \in Seq(OverrideRecs) /\ Len(c) = Len(a) + 1 /\ Len(a) \in Nat /\ DOMAIN a = 1 .. Len(a)
       /\ \A i \in DOMAIN a : c[i] = a[i]
       /\ c[Len(a) + 1] = o
  <2>1. <<o>> \in Seq(OverrideRecs) /\ Len(<<o>>) = 1 /\ DOMAIN <<o>> = 1 .. 1 /\ <<o>>[1] = o
    OBVIOUS
  <2>2. QED BY <1>3, <2>1, ConcatItems
<1> HIDE DEF c
<1>12. /\ r \in Seq(OverrideRecs) /\ Len(r) = Len(c) + Len(b) /\ Len(b) \in Nat
       /\ \A i \in DOMAIN c : r[i] = c[i]
       /\ \A i \in DOMAIN r :
             \/ i \in DOMAIN c
             \/ i - Len(c) \in DOMAIN b /\ r[i] = b[i - Len(c)] /\ i > Len(c)
  <2>1. c \in Seq(OverrideRecs) /\ b \in Seq(OverrideRecs)
    BY <1>3, <1>11
  <2>2. QED BY <2>1, ConcatItems
<1> HIDE DEF r
<1>13. DOMAIN c = 1 .. Len(a) + 1 /\ DOMAIN r \subseteq Int
  BY <1>11, <1>12
<1>14. \A i \in DOMAIN r :
          \/ i \in DOMAIN a /\ r[i] = a[i]
          \/ i = Len(a) + 1 /\ r[i] = o
          \/ i - (Len(a) + 1) \in DOMAIN b /\ r[i] = b[i - (Len(a) + 1)] /\ i > Len(a) + 1
  <2> SUFFICES ASSUME NEW i \in DOMAIN r
               PROVE  \/ i \in DOMAIN a /\ r[i] = a[i]
                      \/ i = Len(a) + 1 /\ r[i] = o
                      \/ i - (Len(a) + 1) \in DOMAIN b /\ r[i] = b[i - (Len(a) + 1)] /\ i > Len(a) + 1
    OBVIOUS
  <2>1. CASE i \in DOMAIN c
    <3>1. i \in DOMAIN a \/ i = Len(a) + 1
      BY <1>11, <1>13, <2>1
    <3>2. r[i] = c[i]
      BY <1>12, <2>1
    <3>3. QED BY <1>11, <3>1, <3>2
  <2>2. CASE i \notin DOMAIN c
    BY <1>11, <1>12, <2>2
  <2>3. QED BY <2>1, <2>2
<1>15. Len(r) = n + 1
  BY <1>10, <1>11, <1>12
<1>16. ASSUME NEW i \in DOMAIN r PROVE r[i].id <= n + 1
  <2>1. r[i].id <= n \/ r[i] = o
    BY <1>8, <1>9, <1>14
  <2>2. r[i] \in OverrideRecs
    BY <1>12
  <2>3. r[i].id \in Int /\ o.id = n + 1
    BY <2>2, RecFields DEF n
  <2>4. QED BY <1>3, <2>1, <2>3
<1>17. ASSUME NEW i \in DOMAIN r, NEW j \in DOMAIN r, i < j
       PROVE  Better(r[j], r[i]) /\ r[i].id # r[j].id
  <2> DEFINE m == Len(a) + 1
  <2>1. i \in Int /\ j \in Int /\ m \in Int /\ o.id = n + 1 /\ o.id \in Int /\ o.salience \in Int
    BY <1>11, <1>13, RecFields DEF n
  <2>2. r[i] \in OverrideRecs /\ r[j] \in OverrideRecs
    BY <1>12
  <2>3. /\ r[i].id \in Int /\ r[j].id \in Int /\ n \in Int
        /\ r[i].salience \in Int /\ r[j].salience \in Int
    BY <1>3, <2>2, RecFields
  <2>4. CASE i \in DOMAIN a /\ r[i] = a[i]
    <3>1. r[i].salience <= o.salience /\ r[i].id <= n
      BY <1>8, <2>4
    <3>2. CASE j \in DOMAIN a /\ r[j] = a[j]
      BY <1>4, <1>17, <2>4, <3>2 DEF InOrder
    <3>3. CASE r[j] = o
      BY <2>1, <2>3, <3>1, <3>3 DEF Better
    <3>4. CASE j - m \in DOMAIN b /\ r[j] = b[j - m]
      <4>1. r[j].salience > o.salience /\ r[j].id <= n
        BY <1>9, <3>4
      <4>2. r[j].salience > r[i].salience
        BY <2>1, <2>3, <3>1, <4>1
      <4>3. r[i].id # r[j].id
        <5>1. PICK k \in DOMAIN b : r[j] = b[k]
          BY <3>4
        <5>2. f[i] \in L /\ g[k] \in H /\ a[i] = s[f[i]] /\ b[k] = s[g[k]]
          BY <1>6, <1>7, <2>4, <5>1 DEF Selects
        <5>3. f[i] # g[k] /\ f[i] \in DOMAIN s /\ g[k] \in DOMAIN s /\ f[i] \in Int /\ g[k] \in Int
          BY <1>2, <1>3, <1>5, <5>2 DEF L, H
        <5>4. f[i] < g[k] \/ g[k] < f[i]
          BY <5>3
        <5>5. s[f[i]].id # s[g[k]].id
          BY <5>3, <5>4 DEF InOrder
        <5>6. QED BY <2>4, <5>1, <5>2, <5>5
      <4>4. QED BY <4>2, <4>3 DEF Better
    <3>5. QED BY <1>14, <3>2, <3>3, <3>4
  <2>5. CASE i = m /\ r[i] = o
    <3>1. ~ (j \in DOMAIN a) /\ j # m
      BY <1>11, <1>17, <2>1, <2>5
    <3>2. j - m \in DOMAIN b /\ r[j] = b[j - m]
      BY <1>14, <3>1
    <3>3. r[j].salience > o.salience /\ r[j].id <= n
      BY <1>9, <3>2
    <3>4. QED BY <2>1, <2>3, <2>5, <3>3 DEF Better
  <2>6. CASE i - m \in DOMAIN b /\ r[i] = b[i - m] /\ i > m
    <3>1. ~ (j \in DOMAIN a) /\ j # m
      BY <1>11, <1>17, <2>1, <2>6
    <3>2. j - m \in DOMAIN b /\ r[j] = b[j - m]
      BY <1>14, <3>1
    <3>3. i - m < j - m
      BY <1>17, <2>1
    <3>4. QED BY <1>4, <2>6, <3>2, <3>3 DEF InOrder
  <2>7. QED BY <1>14, <2>4, <2>5, <2>6
<1>18. InOrder(r) /\ IdsUpTo(r, Len(r))
  BY <1>15, <1>16, <1>17 DEF InOrder, IdsUpTo
<1>19. QED BY <1>1, <1>12, <1>18

----------------------------------------------------------------------------
\* What may run of the overrides that match the types.
MayRun(types) ==
    {overrides[i] : i \in {j \in DOMAIN overrides :
        ~ overrides[j].declines /\ Matches(overrides[j], types)}}

\* The last of the matches that does not decline is the best that may run.
BestOf(id, S) == IF S = {} THEN id = 0
                 ELSE \E o \in S : id = o.id /\ \A p \in S : Better(o, p)

LEMMA LastIsBest ==
  ASSUME overrides \in Seq(OverrideRecs), InOrder(overrides), NEW types
  PROVE  /\ BestOf(LastAccepting(MatchTargets(types)), MayRun(types))
         /\ LastAccepting(MatchTargets(types)) = 0 <=> MayRun(types) = {}
<1> DEFINE K == {i \in DOMAIN overrides : Matches(overrides[i], types)}
           q == MatchTargets(types)
           A == {i \in DOMAIN q : ~ q[i].declines}
<1>1. q = Kept(overrides, K) /\ K \cap DOMAIN overrides = K
  BY DEF MatchTargets
<1> HIDE DEF K
<1>2. q \in Seq(OverrideRecs)
  BY <1>1, KeptItems
<1>3. PICK f : Selects(f, q, overrides, K)
  BY <1>1, KeptItems
<1> HIDE DEF q
<1>4. \A i \in DOMAIN q : q[i] \in OverrideRecs /\ f[i] \in K /\ q[i] = overrides[f[i]]
  BY <1>2, <1>3 DEF Selects
<1>5. \A i \in A : q[i] \in MayRun(types)
  BY <1>4 DEF MayRun, K
<1>6. ASSUME NEW o \in MayRun(types) PROVE \E i \in A : q[i] = o
  <2>1. PICK j \in DOMAIN overrides : o = overrides[j] /\ ~ overrides[j].declines
                                      /\ Matches(overrides[j], types)
    BY DEF MayRun
  <2>2. PICK i \in DOMAIN q : f[i] = j
    BY <1>3, <2>1 DEF Selects, K
  <2>3. QED BY <1>4, <2>1, <2>2
<1>7. LastAccepting(q) = IF A = {} THEN 0
                         ELSE q[CHOOSE i \in A : \A j \in A : j <= i].id
  BY DEF LastAccepting
<1>8. CASE A = {}
  <2>1. MayRun(types) = {} /\ LastAccepting(q) = 0
    BY <1>6, <1>7, <1>8
  <2>2. QED BY <2>1 DEF BestOf, q
<1>9. CASE A # {}
  <2> DEFINE m == CHOOSE i \in A : \A j \in A : j <= i
  <2>1. m \in A /\ \A j \in A : j <= m
    <3>1. A \in SUBSET Nat /\ IsFiniteSet(A)
      <4>1. Len(q) \in Nat /\ DOMAIN q = 1 .. Len(q)
        BY <1>2
      <4>2. 1 \in Int /\ Len(q) \in Int
        BY <4>1
      <4>3. IsFiniteSet(1 .. Len(q))
        BY <4>2, FS_Interval
      <4>4. A \subseteq 1 .. Len(q)
        BY <4>1
      <4>5. IsFiniteSet(A)
        BY <4>3, <4>4, FS_Subset
      <4>6. QED BY <4>1, <4>4, <4>5
    <3>2. \E i \in A : \A j \in A : j <= i
      BY <1>9, <3>1, GreatestNat
    <3>3. QED BY <3>2
  <2> HIDE DEF m
  <2>2. LastAccepting(q) = q[m].id
    BY <1>7, <1>9 DEF m
  <2>3. q[m] \in MayRun(types) /\ q[m].id # 0
    BY <1>4, <1>5, <2>1, RecFields
  <2>4. ASSUME NEW p \in MayRun(types) PROVE Better(q[m], p)
    <3>1. PICK i \in A : q[i] = p
      BY <1>6
    <3>2. f[i] \in DOMAIN overrides /\ f[m] \in DOMAIN overrides
      BY <1>4, <2>1 DEF K
    <3>3. i = m \/ i < m
      <4>1. DOMAIN q \subseteq Int
        BY <1>2
      <4>2. i \in Int /\ m \in Int /\ i <= m
        BY <2>1, <4>1
      <4>3. QED BY <4>2
    <3>4. CASE i = m
      BY <1>4, <3>1, <3>4, BetterOrder
    <3>5. CASE i < m
      <4>1. f[i] < f[m]
        BY <1>3, <2>1, <3>5 DEF Selects
      <4>2. QED BY <1>4, <2>1, <3>1, <3>2, <4>1 DEF InOrder
    <3>6. QED BY <3>3, <3>4, <3>5
  <2>5. BestOf(LastAccepting(q), MayRun(types))
    BY <2>2, <2>3, <2>4 DEF BestOf
  <2>6. MayRun(types) # {} /\ LastAccepting(q) # 0
    BY <2>2, <2>3
  <2>7. QED BY <2>5, <2>6 DEF q
<1>10. QED BY <1>8, <1>9

\* A trampoline makes one attempt or two.
LEMMA OneAttemptOrTwo == \A op, args : Len(Attempts(op, args)) \in {1, 2}
<1> SUFFICES ASSUME NEW op, NEW args PROVE Len(Attempts(op, args)) \in {1, 2}
  OBVIOUS
<1>1. \A x : Len(<<x>>) = 1 /\ \A y : Len(<<x, y>>) = 2
  OBVIOUS
<1>2. CASE op \in {"all_gather", "all_reduce", "cat", "conv2d", "einsum_2args"}
  BY <1>1, <1>2 DEF Attempts, AttemptsAtoE
<1>3. CASE op \in {"elementwise", "embedding_lookup", "equal", "expand", "get_index"}
  BY <1>1, <1>3 DEF Attempts, AttemptsEtoG
<1>4. CASE op \in {"flatten", "gather", "gemm", "group_norm_affine", "index_copy_"}
  BY <1>1, <1>4 DEF Attempts, AttemptsFtoI
<1>5. CASE op \in {"index_put_", "index_select", "interpolate", "layer_norm", "linear"}
  BY <1>1, <1>5 DEF Attempts, AttemptsItoL
<1>6. CASE op \in {"matmul", "permute", "mean", "module_register_buffer", "rms_norm",
                   "repeat", "replicate"}
  BY <1>1, <1>6 DEF Attempts, AttemptsMtoR
<1>7. CASE op \in {"scaled_dot_product_attention", "reshape", "reshard",
                   "reshard_split", "reshard_like"}
  BY <1>1, <1>7 DEF Attempts, AttemptsReshard
<1>8. CASE op \in {"unshard", "unsqueeze", "view", "view_as_complex",
                   "view_as_real", "squeeze"}
  BY <1>1, <1>8 DEF Attempts, AttemptsUtoV
<1>9. CASE /\ op \notin {"all_gather", "all_reduce", "cat", "conv2d", "einsum_2args"}
           /\ op \notin {"elementwise", "embedding_lookup", "equal", "expand", "get_index"}
           /\ op \notin {"flatten", "gather", "gemm", "group_norm_affine", "index_copy_"}
           /\ op \notin {"index_put_", "index_select", "interpolate", "layer_norm", "linear"}
           /\ op \notin {"matmul", "permute", "mean", "module_register_buffer", "rms_norm",
                         "repeat", "replicate"}
           /\ op \notin {"scaled_dot_product_attention", "reshape", "reshard",
                         "reshard_split", "reshard_like"}
           /\ op \notin {"unshard", "unsqueeze", "view", "view_as_complex",
                         "view_as_real", "squeeze"}
  BY <1>1, <1>9 DEF Attempts, AttemptsStoU
<1>10. QED BY <1>2, <1>3, <1>4, <1>5, <1>6, <1>7, <1>8, <1>9

\* What find_overrides returns matches as the overrides stand, cached or not.
LEMMA FindsMatches ==
  ASSUME NEW cache, \A e \in cache : e.found = MatchTargets(e.types), NEW types
  PROVE  /\ FoundTargets(cache, types) = MatchTargets(types)
         /\ \A e \in CacheWith(cache, types) : e.found = MatchTargets(e.types)
<1>1. \A e \in Cached(cache, types) : e.found = MatchTargets(types)
  BY DEF Cached
<1>2. QED BY <1>1 DEF FoundTargets, CacheWith

----------------------------------------------------------------------------
(***************************************************************************)
(* RegInv is inductive.                                                    *)
(***************************************************************************)

\* A cache cleared, or extended by what matches, agrees with the overrides.
LEMMA RegStarts == RegInit => RegInv
<1> SUFFICES ASSUME RegInit PROVE RegInv
  OBVIOUS
<1>1. overrides = << >> /\ targetCache = {} /\ selected = << >>
  BY DEF RegInit
<1>2. << >> \in Seq(OverrideRecs) /\ DOMAIN (<< >>) = {}
  OBVIOUS
<1>3. QED BY <1>1, <1>2 DEF RegInv, InOrder, IdsUpTo, CacheAgrees, MostSalientRuns

LEMMA OverrideKeeps ==
  ASSUME RegInv, NEW s \in TypeSpecs, NEW salience \in 0 .. 1, NEW declines \in BOOLEAN,
         Override(s, salience, declines)
  PROVE  RegInv'
<1> DEFINE o == Registered(s, salience, declines, Len(overrides) + 1)
<1>1. overrides' = Inserted(overrides, o) /\ targetCache' = {} /\ selected' = << >>
  BY DEF Override, CacheCleared, Registered
<1>2. overrides \in Seq(OverrideRecs) /\ Len(overrides) + 1 \in Nat \ {0}
  BY DEF RegInv
<1>3. o \in OverrideRecs
  BY <1>2 DEF OverrideRecs
<1>4. o.id = Len(overrides) + 1
  BY DEF Registered
<1> HIDE DEF o
<1>5. /\ overrides' \in Seq(OverrideRecs)
      /\ InOrder(overrides') /\ IdsUpTo(overrides', Len(overrides'))
  BY <1>1, <1>2, <1>3, <1>4, InsertedInOrder DEF RegInv
<1>6. CacheAgrees' /\ MostSalientRuns'
  BY <1>1 DEF CacheAgrees, MostSalientRuns
<1>7. QED BY <1>5, <1>6 DEF RegInv, InOrder, IdsUpTo

LEMMA CallOpKeeps ==
  ASSUME RegInv, NEW args, CallOp(args)
  PROVE  RegInv'
<1> DEFINE tries == Attempts(regOp, args)
           types(n) == TypesAt(args, tries[n])
           cache1 == CacheWith(targetCache, types(1))
           first == LastAccepting(FoundTargets(targetCache, types(1)))
           second == Len(tries) = 2 /\ first = 0
           last == LastAccepting(FoundTargets(cache1, types(2)))
           none == MayRun(types(1)) = {}
<1>1. /\ selected' = <<[args |-> args, id |-> IF second THEN last ELSE first]>>
      /\ targetCache' = IF second THEN CacheWith(cache1, types(2)) ELSE cache1
      /\ regOp' = regOp /\ overrides' = overrides
  BY DEF CallOp
<1>2. Len(tries) = 1 \/ Len(tries) = 2
  BY OneAttemptOrTwo
<1>3. /\ FoundTargets(targetCache, types(1)) = MatchTargets(types(1))
      /\ \A e \in cache1 : e.found = MatchTargets(e.types)
  BY FindsMatches DEF RegInv, CacheAgrees
<1> HIDE DEF cache1
<1>4. /\ FoundTargets(cache1, types(2)) = MatchTargets(types(2))
      /\ \A e \in CacheWith(cache1, types(2)) : e.found = MatchTargets(e.types)
  BY <1>3, FindsMatches
<1>5. overrides \in Seq(OverrideRecs) /\ InOrder(overrides)
  BY DEF RegInv
<1>6. BestOf(first, MayRun(types(1))) /\ (first = 0 <=> none)
  BY <1>3, <1>5, LastIsBest
<1>7. BestOf(last, MayRun(types(2)))
  BY <1>4, <1>5, LastIsBest
<1>8. \A e \in targetCache' : e.found = MatchTargets(e.types)
  BY <1>1, <1>3, <1>4
<1>9. CacheAgrees'
  <2>1. \A t : MatchTargets(t)' = MatchTargets(t)
    BY <1>1 DEF MatchTargets
  <2>2. QED BY <1>8, <2>1 DEF CacheAgrees
<1> HIDE DEF first, last, tries
<1>10. selected'[1].args = args /\ selected'[1].id = IF second THEN last ELSE first
  BY <1>1
<1>11. BestOf(selected'[1].id, MayRun(types(IF none THEN Len(tries) ELSE 1)))
  <2> HIDE DEF types
  <2>1. CASE second
    <3>1. none /\ Len(tries) = 2
      BY <1>6, <2>1
    <3> HIDE DEF none
    <3>2. QED BY <1>7, <1>10, <2>1, <3>1
  <2>2. CASE ~ second
    <3>1. (IF none THEN Len(tries) ELSE 1) = 1
      BY <1>2, <1>6, <2>2
    <3> HIDE DEF none
    <3>2. QED BY <1>6, <1>10, <2>2, <3>1
  <2>3. QED BY <2>1, <2>2
<1>12. MostSalientRuns'
  <2>1. \A n : Candidates(args, n)' = MayRun(types(n))
    BY <1>1 DEF Candidates, MayRun, tries
  <2>2. selected'[1].args = args /\ Len(Attempts(regOp, args))' = Len(tries)
    BY <1>1, <1>10 DEF tries
  <2> HIDE DEF types
  <2> DEFINE n == IF none THEN Len(tries) ELSE 1
  <2>3. IF MayRun(types(n)) = {} THEN selected'[1].id = 0
        ELSE \E o \in MayRun(types(n)) :
                /\ selected'[1].id = o.id
                /\ \A p \in MayRun(types(n)) : Better(o, p)
    BY <1>11 DEF BestOf
  <2> HIDE DEF n
  <2>4. QED BY <2>1, <2>2, <2>3 DEF MostSalientRuns, n
<1>13. QED BY <1>1, <1>9, <1>12 DEF RegInv, InOrder, IdsUpTo

LEMMA RegStep == RegInv /\ [RegNext]_regVars => RegInv'
<1> SUFFICES ASSUME RegInv, [RegNext]_regVars PROVE RegInv'
  OBVIOUS
<1>1. ASSUME NEW s \in TypeSpecs, NEW salience \in 0 .. 1, NEW declines \in BOOLEAN,
             Override(s, salience, declines)
      PROVE  RegInv'
  BY <1>1, OverrideKeeps
<1>2. ASSUME NEW args \in Calls[regOp], CallOp(args) PROVE RegInv'
  BY <1>2, CallOpKeeps
<1>3. CASE UNCHANGED regVars
  <2>1. UNCHANGED <<regOp, overrides, targetCache, selected>>
    BY <1>3 DEF regVars
  <2>2. \A t : MatchTargets(t)' = MatchTargets(t)
    BY <2>1 DEF MatchTargets
  <2>3. MostSalientRuns' <=> MostSalientRuns
    BY <2>1 DEF MostSalientRuns, Candidates
  <2>4. CacheAgrees'
    BY <2>1, <2>2 DEF CacheAgrees, RegInv
  <2>5. QED BY <2>1, <2>3, <2>4 DEF RegInv, InOrder, IdsUpTo
<1>4. QED BY <1>1, <1>2, <1>3 DEF RegNext

\* A call runs the most salient of the overrides that match its arguments and
\* do not decline, the last registered of those, whatever was registered and
\* called before, and however the answers are cached (OpDispatcher's
\* find_overrides and the trampolines): for any specifications and calls.
THEOREM DispatchFindsMostSalient == RegSpec => []MostSalientRuns
<1>1. RegInv => MostSalientRuns
  BY DEF RegInv
<1>2. QED BY <1>1, RegStarts, RegStep, PTL DEF RegSpec
=============================================================================
