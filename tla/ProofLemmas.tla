---------------------------- MODULE ProofLemmas ----------------------------
(***************************************************************************)
(* What the proofs share: lists item by item, induction over numbers and   *)
(* over the subsets of a finite set, from the well-foundedness of their    *)
(* orders, and what follows from it: recursive functions on 0 .. n exist,  *)
(* sums over finite sets do what sums do, and what is kept of a list are   *)
(* the items at the given places, in their order.                          *)
(***************************************************************************)
EXTENDS Integers, Sequences, FiniteSets, Functions, Lists, FiniteSetTheorems,
        WellFoundedInduction, TLAPS

\* Tails of sequences, item by item.
LEMMA TailItems ==
  ASSUME NEW S, NEW s \in Seq(S), s # << >>
  PROVE  /\ Head(s) = s[1] /\ s[1] \in S /\ 1 \in DOMAIN s
         /\ Tail(s) \in Seq(S)
         /\ \A i \in DOMAIN Tail(s) : i + 1 \in DOMAIN s /\ Tail(s)[i] = s[i + 1] /\ i \in Int /\ i > 0
         /\ \A i \in DOMAIN s : i = 1 \/ (i - 1 \in DOMAIN Tail(s) /\ Tail(s)[i - 1] = s[i])
  OBVIOUS

\* A sequence with one item more, item by item.
LEMMA AppendItems ==
  ASSUME NEW S, NEW s \in Seq(S), NEW x \in S
  PROVE  /\ Append(s, x) \in Seq(S)
         /\ Len(s) \in Nat /\ DOMAIN s = 1 .. Len(s)
         /\ Len(Append(s, x)) = Len(s) + 1
         /\ DOMAIN Append(s, x) = 1 .. (Len(s) + 1)
         /\ \A i \in DOMAIN s : Append(s, x)[i] = s[i]
         /\ Append(s, x)[Len(s) + 1] = x
  OBVIOUS

\* Concatenations, item by item.
LEMMA ConcatItems ==
  ASSUME NEW S, NEW s \in Seq(S), NEW t \in Seq(S)
  PROVE  /\ s \o t \in Seq(S)
         /\ Len(s) \in Nat /\ Len(t) \in Nat /\ Len(s \o t) = Len(s) + Len(t)
         /\ DOMAIN s = 1 .. Len(s) /\ DOMAIN t = 1 .. Len(t)
         /\ DOMAIN (s \o t) = 1 .. (Len(s) + Len(t))
         /\ \A i \in DOMAIN s : i \in DOMAIN (s \o t) /\ (s \o t)[i] = s[i]
         /\ \A i \in DOMAIN t : Len(s) + i \in DOMAIN (s \o t) /\ (s \o t)[Len(s) + i] = t[i]
         /\ \A i \in DOMAIN (s \o t) :
               \/ i \in DOMAIN s
               \/ i - Len(s) \in DOMAIN t /\ (s \o t)[i] = t[i - Len(s)] /\ i > Len(s)
  OBVIOUS

----------------------------------------------------------------------------
(***************************************************************************)
(* Induction.                                                              *)
(***************************************************************************)

\* A set of natural numbers has a least element.
LEMMA LeastNat ==
  ASSUME NEW T \in SUBSET Nat, T # {}
  PROVE  \E m \in T : \A t \in T : m <= t
<1>1. PICK m \in T : \A t \in T : ~(<<t, m>> \in OpToRel(<, Nat))
  BY NatLessThanWellFounded, WFMin
<1>2. \A t \in T : <<t, m>> \in OpToRel(<, Nat) <=> t < m
  BY DEF OpToRel
<1>3. \A t \in T : ~(t < m)
  BY <1>1, <1>2, Zenon
<1>4. QED BY <1>3

\* A set that holds 0 and, with every number below n, the next one.
LEMMA UpTo ==
  ASSUME NEW n \in Nat, NEW T, 0 \in T, \A k \in 0 .. n : k \in T /\ k # n => k + 1 \in T
  PROVE  0 .. n \subseteq T
<1> SUFFICES ASSUME (0 .. n) \ T # {} PROVE FALSE
  OBVIOUS
<1>0. (0 .. n) \ T \in SUBSET Nat
  OBVIOUS
<1>1. PICK m \in (0 .. n) \ T : \A t \in (0 .. n) \ T : m <= t
  BY <1>0, LeastNat
<1>2. m # 0
  BY <1>1
<1>3. m - 1 \in T
  BY <1>1, <1>2
<1>4. QED BY <1>1, <1>2, <1>3

\* f is what G makes of a, in n steps.
Iterates(f, n, S, a, G) ==
    f \in [0 .. n -> S] /\ f[0] = a /\ \A k \in 1 .. n : f[k] = G[<<k, f[k - 1]>>]

\* A function on 0 .. n can be defined by recursion.
LEMMA Recursion ==
  ASSUME NEW n \in Nat, NEW S, NEW a \in S, NEW G \in [(0 .. n) \X S -> S]
  PROVE  \E f : Iterates(f, n, S, a, G)
<1> DEFINE Defines(f, m) == f[0] = a /\ \A k \in 1 .. m : f[k] = G[<<k, f[k - 1]>>]
           T == {m \in 0 .. n : \E f \in [0 .. m -> S] : Defines(f, m)}
<1>1. 0 \in T
  <2> DEFINE f == [k \in 0 .. 0 |-> a]
  <2>1. f \in [0 .. 0 -> S]
    OBVIOUS
  <2>2. Defines(f, 0)
    OBVIOUS
  <2>3. 0 \in 0 .. n
    OBVIOUS
  <2> HIDE DEF f
  <2>4. QED BY <2>1, <2>2, <2>3
<1>2. ASSUME NEW m \in 0 .. n, m \in T, m # n PROVE m + 1 \in T
  <2>1. PICK f \in [0 .. m -> S] : Defines(f, m)
    BY <1>2
  <2> DEFINE g == [k \in 0 .. m + 1 |-> IF k = m + 1 THEN G[<<m + 1, f[m]>>] ELSE f[k]]
  <2>2. m + 1 \in 0 .. n /\ m \in 0 .. m
    BY <1>2
  <2>3. G[<<m + 1, f[m]>>] \in S
    BY <2>2
  <2>4. g \in [0 .. m + 1 -> S]
    BY <2>3
  <2>5. g[0] = a
    BY <2>1
  <2>6. ASSUME NEW k \in 1 .. m + 1 PROVE g[k] = G[<<k, g[k - 1]>>]
    <3>1. CASE k = m + 1
      <4>1. m \in 0 .. m + 1 /\ m + 1 \in 0 .. m + 1 /\ k - 1 = m /\ m # m + 1
        BY <3>1
      <4>2. g[m + 1] = G[<<m + 1, f[m]>>] /\ g[m] = f[m]
        BY <4>1
      <4>3. QED BY <3>1, <4>1, <4>2
    <3>2. CASE k # m + 1
      <4>1. k \in 1 .. m /\ k \in 0 .. m + 1 /\ k - 1 \in 0 .. m + 1
        BY <3>2
      <4>2. g[k] = f[k] /\ g[k - 1] = f[k - 1]
        BY <3>2, <4>1
      <4>3. QED BY <2>1, <4>1, <4>2
    <3>3. QED BY <3>1, <3>2
  <2>7. Defines(g, m + 1)
    BY <2>5, <2>6
  <2> HIDE DEF g, Defines
  <2>8. \E h \in [0 .. m + 1 -> S] : Defines(h, m + 1)
    BY <2>4, <2>7
  <2>9. QED BY <2>2, <2>8
<1>3. n \in T
  <2> HIDE DEF T
  <2>1. QED BY <1>1, <1>2, UpTo
<1>4. QED BY <1>3 DEF Iterates

\* Subsets of a finite set are good if each is that whose T \ {x} are all good.
LEMMA BySubsets ==
  ASSUME NEW S, IsFiniteSet(S), NEW Good,
         \A T \in SUBSET S : (\A x \in T : T \ {x} \in Good) => T \in Good
  PROVE  SUBSET S \subseteq Good
<1> SUFFICES ASSUME (SUBSET S) \ Good # {} PROVE FALSE
  OBVIOUS
<1>1. IsWellFoundedOn(StrictSubsetOrdering(S), SUBSET S)
  <2>1. FiniteSubsetsOf(S) = SUBSET S
    BY FS_FiniteSubsetsOfFinite
  <2>2. IsWellFoundedOn(StrictSubsetOrdering(S), FiniteSubsetsOf(S))
    BY FS_StrictSubsetOrderingWellFounded
  <2>3. QED BY <2>1, <2>2
<1>2. PICK T \in (SUBSET S) \ Good : \A U \in (SUBSET S) \ Good : ~(<<U, T>> \in StrictSubsetOrdering(S))
  BY <1>1, WFMin
<1>3. ASSUME NEW x \in T PROVE T \ {x} \in Good
  <2>1. <<T \ {x}, T>> \in StrictSubsetOrdering(S) /\ T \ {x} \in SUBSET S
    BY <1>2 DEF StrictSubsetOrdering
  <2>2. QED BY <1>2, <2>1
<1>4. QED BY <1>2, <1>3

\* A finite set of natural numbers has a greatest element.
LEMMA GreatestNat ==
  ASSUME NEW S \in SUBSET Nat, IsFiniteSet(S), S # {}
  PROVE  \E m \in S : \A t \in S : t <= m
<1> DEFINE Has(T) == \E m \in T : \A t \in T : t <= m
           Good == {T \in SUBSET S : T = {} \/ Has(T)}
<1>1. ASSUME NEW T \in SUBSET S, \A x \in T : T \ {x} \in Good PROVE T \in Good
  <2>1. CASE T = {}
    BY <2>1
  <2>2. CASE T # {}
    <3>1. PICK x \in T : TRUE
      BY <2>2
    <3>2. CASE T \ {x} = {}
      <4>1. x <= x /\ \A t \in T : t = x
        BY <3>2
      <4>2. QED BY <4>1
    <3>3. CASE Has(T \ {x})
      <4>1. PICK m \in T \ {x} : \A t \in T \ {x} : t <= m
        BY <3>3
      <4>2. m \in Nat /\ x \in Nat
        OBVIOUS
      <4>3. CASE x <= m
        BY <4>1, <4>3
      <4>4. CASE m <= x
        <5>1. ASSUME NEW t \in T PROVE t <= x
          BY <4>1, <4>2, <4>4
        <5>2. QED BY <5>1
      <4>5. QED BY <4>2, <4>3, <4>4
    <3>4. QED BY <1>1, <3>2, <3>3
  <2>3. QED BY <2>1, <2>2
<1> HIDE DEF Good
<1>2. S \in Good
  BY <1>1, BySubsets
<1>3. QED BY <1>2 DEF Good

\* s lists the numbers of S in increasing order.
Ascends(s) == \A i, j \in DOMAIN s : i < j => s[i] < s[j]

\* A finite set of natural numbers can be listed in increasing order.
LEMMA Listing ==
  ASSUME NEW S \in SUBSET Nat, IsFiniteSet(S)
  PROVE  \E s \in [1 .. Cardinality(S) -> S] : Ascends(s)
<1> DEFINE Listed(T) == \E s \in [1 .. Cardinality(T) -> T] : Ascends(s)
           Good == {T \in SUBSET S : Listed(T)}
<1>1. ASSUME NEW T \in SUBSET S, \A x \in T : T \ {x} \in Good PROVE Listed(T)
  <2>1. CASE T = {}
    <3>1. Cardinality(T) = 0
      BY <2>1, FS_EmptySet
    <3>2. << >> \in [1 .. Cardinality(T) -> T] /\ Ascends(<< >>)
      BY <3>1 DEF Ascends
    <3>3. QED BY <3>2
  <2>2. CASE T # {}
    <3>1. IsFiniteSet(T)
      BY FS_Subset
    <3>2. PICK m \in T : \A t \in T : t <= m
      BY <2>2, <3>1, GreatestNat
    <3> DEFINE n == Cardinality(T \ {m})
    <3>3. n \in Nat /\ Cardinality(T) = n + 1
      <4>1. Cardinality(T) \in Nat /\ IsFiniteSet(T \ {m}) /\ n = Cardinality(T) - 1
        BY <3>1, FS_CardinalityType, FS_RemoveElement
      <4>2. n \in Nat
        BY <4>1, FS_CardinalityType
      <4> HIDE DEF n
      <4>3. QED BY <4>1, <4>2
    <3>4. PICK s \in [1 .. n -> T \ {m}] : Ascends(s)
      BY <1>1
    <3> HIDE DEF n
    <3> DEFINE r == [i \in 1 .. n + 1 |-> IF i = n + 1 THEN m ELSE s[i]]
    <3>5. r \in [1 .. n + 1 -> T]
      <4>1. ASSUME NEW i \in 1 .. n + 1, i # n + 1 PROVE s[i] \in T
        <5>1. i \in 1 .. n
          BY <3>3, <4>1
        <5>2. QED BY <5>1
      <4>2. QED BY <4>1
    <3>6. ASSUME NEW i \in 1 .. n + 1, NEW j \in 1 .. n + 1, i < j PROVE r[i] < r[j]
      <4>1. i \in 1 .. n /\ r[i] = s[i] /\ s[i] \in T \ {m}
        BY <3>3, <3>6
      <4>2. CASE j = n + 1
        <5>1. r[j] = m /\ s[i] \in Nat /\ m \in Nat /\ s[i] # m /\ s[i] <= m
          BY <3>2, <4>1, <4>2
        <5> HIDE DEF r
        <5>2. QED BY <4>1, <5>1
      <4>3. CASE j # n + 1
        <5>1. j \in 1 .. n /\ r[j] = s[j]
          BY <3>3, <4>3
        <5> HIDE DEF r
        <5>2. QED BY <3>4, <3>6, <4>1, <5>1 DEF Ascends
      <4>4. QED BY <4>2, <4>3
    <3>7. DOMAIN r = 1 .. n + 1
      OBVIOUS
    <3> HIDE DEF r
    <3>8. Ascends(r)
      BY <3>6, <3>7 DEF Ascends
    <3>9. QED BY <3>3, <3>5, <3>8
  <2>3. QED BY <2>1, <2>2
<1>2. S \in Good
  <2>1. \A T \in SUBSET S : (\A x \in T : T \ {x} \in Good) => T \in Good
    BY <1>1
  <2> HIDE DEF Good
  <2>2. QED BY <2>1, BySubsets
<1>3. QED BY <1>2

----------------------------------------------------------------------------
(***************************************************************************)
(* Sums.  The units that the members of S have, one by one, are as many as *)
(* the sum says.                                                           *)
(***************************************************************************)
Units(m, S) == {p \in S \X Nat : p[2] \in 1 .. m[p[1]]}

\* The units of one member more.
LEMMA UnitsStep ==
  ASSUME NEW S, NEW m \in [S -> Nat], NEW T \in SUBSET S, IsFiniteSet(T), NEW x \in T,
         IsFiniteSet(Units(m, T \ {x}))
  PROVE  /\ IsFiniteSet(Units(m, T))
         /\ Cardinality(Units(m, T)) = m[x] + Cardinality(Units(m, T \ {x}))
<1> DEFINE X == {x} \X (1 .. m[x])
           H == Units(m, T \ {x})
<1>1. m[x] \in Nat
  OBVIOUS
<1>2. IsFiniteSet(1 .. m[x]) /\ Cardinality(1 .. m[x]) = m[x]
  BY <1>1, FS_Interval
<1>3. IsFiniteSet(X) /\ Cardinality(X) = m[x]
  <2>1. IsFiniteSet({x}) /\ Cardinality({x}) = 1
    BY FS_Singleton
  <2>2. IsFiniteSet(X) /\ Cardinality(X) = Cardinality({x}) * Cardinality(1 .. m[x])
    BY <1>2, <2>1, FS_Product
  <2>3. Cardinality(X) = 1 * m[x]
    BY <1>2, <2>1, <2>2, Zenon
  <2> HIDE DEF X
  <2>4. QED BY <1>1, <2>2, <2>3
<1>4. Units(m, T) = X \cup H /\ X \cap H = {}
  BY <1>1 DEF Units
<1> HIDE DEF X, H
<1>5. IsFiniteSet(H) /\ Cardinality(H) \in Nat /\ Cardinality(X \cap H) = 0
  <2>1. IsFiniteSet(H)
    BY DEF H
  <2>2. QED BY <1>4, <2>1, FS_EmptySet, FS_CardinalityType
<1>6. /\ IsFiniteSet(X \cup H)
      /\ Cardinality(X \cup H) = Cardinality(X) + Cardinality(H) - Cardinality(X \cap H)
  BY <1>3, <1>5, FS_Union
<1>7. Cardinality(X \cup H) = m[x] + Cardinality(H)
  BY <1>1, <1>3, <1>5, <1>6
<1>8. QED BY <1>4, <1>6, <1>7 DEF H

\* The units of finitely many members are finitely many.
LEMMA UnitsFinite ==
  ASSUME NEW S, IsFiniteSet(S), NEW m \in [S -> Nat], NEW T \in SUBSET S
  PROVE  IsFiniteSet(Units(m, T))
<1> DEFINE Good == {U \in SUBSET S : IsFiniteSet(Units(m, U))}
<1>1. ASSUME NEW U \in SUBSET S, \A x \in U : U \ {x} \in Good
      PROVE  U \in Good
  <2>1. CASE U = {}
    <3>1. Units(m, U) = {}
      BY <2>1 DEF Units
    <3>2. QED BY <3>1, FS_EmptySet
  <2>2. CASE U # {}
    <3>1. IsFiniteSet(U)
      BY FS_Subset
    <3>2. QED BY <1>1, <2>2, <3>1, UnitsStep
  <2>3. QED BY <2>1, <2>2
<1> HIDE DEF Good
<1>2. SUBSET S \subseteq Good
  BY <1>1, BySubsets
<1>3. QED BY <1>2 DEF Good

\* What a sum counts.
LEMMA SumCounts ==
  ASSUME NEW R, NEW m \in [R -> Nat], NEW S \in SUBSET R, IsFiniteSet(S)
  PROVE  /\ SumFunctionOnSet(m, S) = Cardinality(Units(m, S))
         /\ SumFunctionOnSet(m, S) \in Nat
<1> DEFINE ch(s) == CHOOSE x \in s : TRUE
           Def(f) == [s \in SUBSET S |-> IF s = {} THEN 0 ELSE m[ch(s)] + f[s \ {ch(s)}]]
           B == CHOOSE f : f = Def(f)
           C == [s \in SUBSET S |-> Cardinality(Units(m, s))]
<1>0. \A s \in SUBSET S : IsFiniteSet(Units(m, s)) /\ IsFiniteSet(s)
  <2> TAKE s \in SUBSET S
  <2> DEFINE n == [x \in S |-> m[x]]
  <2>1. n \in [S -> Nat]
    OBVIOUS
  <2>2. IsFiniteSet(Units(n, s))
    BY <2>1, UnitsFinite
  <2>3. Units(n, s) = Units(m, s)
    BY DEF Units
  <2>4. QED BY <2>2, <2>3, FS_Subset
<1>1. SumFunctionOnSet(m, S) = B[S]
  BY DEF SumFunctionOnSet, FoldFunctionOnSet, MapThenFoldSet
<1>2. ASSUME NEW s \in SUBSET S, s # {}
      PROVE  ch(s) \in s /\ C[s] = m[ch(s)] + C[s \ {ch(s)}]
  <2>1. ch(s) \in s
    BY <1>2
  <2>2. s \ {ch(s)} \in SUBSET S /\ IsFiniteSet(s)
    BY FS_Subset
  <2>3. Cardinality(Units(m, s)) = m[ch(s)] + Cardinality(Units(m, s \ {ch(s)}))
    <3> HIDE DEF ch
    <3>1. s \in SUBSET R
      OBVIOUS
    <3>2. QED BY <1>0, <2>1, <2>2, <3>1, UnitsStep
  <2>4. QED BY <2>1, <2>2, <2>3
<1>3. C[{}] = 0
  <2>1. Units(m, {}) = {}
    BY DEF Units
  <2>2. QED BY <2>1, FS_EmptySet
<1>4. C = Def(C)
  <2>1. \A s \in SUBSET S : C[s] = IF s = {} THEN 0 ELSE m[ch(s)] + C[s \ {ch(s)}]
    BY <1>2, <1>3
  <2>2. C = [s \in SUBSET S |-> C[s]]
    OBVIOUS
  <2> HIDE DEF C, ch
  <2>3. QED BY <2>1, <2>2
<1>5. B = Def(B)
  <2> HIDE DEF Def
  <2>1. QED BY <1>4
<1> HIDE DEF B, C
<1>6. \A s \in SUBSET S : B[s] = IF s = {} THEN 0 ELSE m[ch(s)] + B[s \ {ch(s)}]
  <2> HIDE DEF ch
  <2>1. QED BY <1>5
<1> DEFINE Good == {s \in SUBSET S : B[s] = C[s]}
<1>7. ASSUME NEW s \in SUBSET S, \A x \in s : s \ {x} \in Good
      PROVE  s \in Good
  <2>1. CASE s = {}
    BY <1>3, <1>6, <2>1
  <2>2. CASE s # {}
    <3> HIDE DEF ch
    <3>1. QED BY <1>2, <1>6, <1>7, <2>2
  <2>3. QED BY <2>1, <2>2
<1>8. SUBSET S \subseteq Good
  <2> HIDE DEF Good
  <2>1. QED BY <1>7, BySubsets
<1>9. B[S] = C[S] /\ C[S] = Cardinality(Units(m, S))
  BY <1>8 DEF C
<1>10. Cardinality(Units(m, S)) \in Nat
  BY <1>0, FS_CardinalityType
<1>11. QED BY <1>1, <1>9, <1>10

\* A sum whose function changes at one place.
LEMMA SumAt ==
  ASSUME NEW S, IsFiniteSet(S), NEW m \in [S -> Nat], NEW x \in S, NEW v \in Nat
  PROVE  SumFunctionOnSet([m EXCEPT ![x] = v], S) + m[x] = SumFunctionOnSet(m, S) + v
<1> DEFINE n == [m EXCEPT ![x] = v]
           T == S \ {x}
<1>1. n \in [S -> Nat] /\ n[x] = v /\ m[x] \in Nat
  OBVIOUS
<1>2. Units(n, T) = Units(m, T)
  BY DEF Units
<1>3. IsFiniteSet(Units(m, T))
  BY UnitsFinite
<1>4. Cardinality(Units(m, T)) \in Nat
  BY <1>3, FS_CardinalityType
<1> HIDE DEF n
<1>5. Cardinality(Units(m, S)) = m[x] + Cardinality(Units(m, T))
  BY <1>3, UnitsStep
<1>6. Cardinality(Units(n, S)) = v + Cardinality(Units(m, T))
  BY <1>1, <1>2, <1>3, UnitsStep
<1>7. /\ SumFunctionOnSet(m, S) = Cardinality(Units(m, S))
      /\ SumFunctionOnSet(n, S) = Cardinality(Units(n, S))
  BY <1>1, SumCounts
<1> HIDE DEF T
<1>8. SumFunctionOnSet(n, S) + m[x] = SumFunctionOnSet(m, S) + v
  BY <1>1, <1>4, <1>5, <1>6, <1>7
<1>9. QED BY <1>8 DEF n

\* A sum of which a part is taken away.
Zeroed(m, S, T) == [x \in S |-> IF x \in T THEN 0 ELSE m[x]]

LEMMA SumSplits ==
  ASSUME NEW S, IsFiniteSet(S), NEW m \in [S -> Nat], NEW T \in SUBSET S
  PROVE  /\ Zeroed(m, S, T) \in [S -> Nat]
         /\ SumFunctionOnSet(m, S) = SumFunctionOnSet(m, T) + SumFunctionOnSet(Zeroed(m, S, T), S)
<1> DEFINE n == Zeroed(m, S, T)
           U == Units(m, T)
           V == Units(n, S)
<1>1. n \in [S -> Nat] /\ IsFiniteSet(T)
  BY FS_Subset DEF Zeroed
<1>2. IsFiniteSet(U) /\ IsFiniteSet(V)
  BY <1>1, UnitsFinite
<1>3. U \cap V = {} /\ Units(m, S) = U \cup V
  <2>1. \A x \in S : n[x] = IF x \in T THEN 0 ELSE m[x]
    BY DEF Zeroed
  <2> HIDE DEF n
  <2>2. ASSUME NEW p \in S \X Nat
        PROVE  /\ p[2] \in 1 .. n[p[1]] => p[1] \notin T /\ p[2] \in 1 .. m[p[1]]
               /\ p[2] \in 1 .. m[p[1]] /\ p[1] \notin T => p[2] \in 1 .. n[p[1]]
    BY <2>1
  <2>3. QED BY <2>2 DEF Units
<1>4. Cardinality(U \cup V) = Cardinality(U) + Cardinality(V) - Cardinality(U \cap V)
  BY <1>2, FS_Union
<1>5. Cardinality(U \cap V) = 0
  BY <1>3, FS_EmptySet
<1>6. /\ SumFunctionOnSet(m, S) = Cardinality(Units(m, S))
      /\ SumFunctionOnSet(m, T) = Cardinality(U) /\ SumFunctionOnSet(m, T) \in Nat
      /\ SumFunctionOnSet(n, S) = Cardinality(V) /\ SumFunctionOnSet(n, S) \in Nat
  BY <1>1, SumCounts
<1> HIDE DEF n, U, V
<1>7. SumFunctionOnSet(m, S) = SumFunctionOnSet(m, T) + SumFunctionOnSet(n, S)
  BY <1>3, <1>4, <1>5, <1>6
<1>8. QED BY <1>1, <1>7 DEF n

\* A sum of nothing.
LEMMA SumOfNothing ==
  ASSUME NEW S, IsFiniteSet(S), NEW m \in [S -> Nat], \A x \in S : m[x] = 0
  PROVE  SumFunctionOnSet(m, S) = 0
<1>1. Units(m, S) = {}
  BY DEF Units
<1>2. QED BY <1>1, SumCounts, FS_EmptySet

----------------------------------------------------------------------------
(***************************************************************************)
(* What is kept of a list.                                                 *)
(***************************************************************************)

\* q is the items of s at the places K holds, in order: f says which is which.
Selects(f, q, s, K) ==
    /\ f \in [DOMAIN q -> K]
    /\ \A i \in DOMAIN q : q[i] = s[f[i]]
    /\ \A i, j \in DOMAIN q : i < j => f[i] < f[j]
    /\ \A k \in K : \E i \in DOMAIN q : f[i] = k

\* One place more.
LEMMA SelectsMore ==
  ASSUME NEW S, NEW s \in Seq(S), NEW q \in Seq(S), NEW k \in DOMAIN s,
         NEW K \in SUBSET (1 .. k - 1), NEW f, Selects(f, q, s, K)
  PROVE  \E g : Selects(g, Append(q, s[k]), s, K \cup {k})
<1> DEFINE n == Len(q)
           g == [i \in 1 .. n + 1 |-> IF i = n + 1 THEN k ELSE f[i]]
           r == Append(q, s[k])
<1>1. n \in Nat /\ DOMAIN q = 1 .. n /\ s[k] \in S /\ k \in Nat \ {0}
  OBVIOUS
<1>2. DOMAIN r = 1 .. n + 1 /\ r[n + 1] = s[k] /\ \A i \in 1 .. n : r[i] = q[i]
  BY <1>1, AppendItems
<1>3. \A i \in 1 .. n : f[i] \in K /\ f[i] \in 1 .. k - 1 /\ q[i] = s[f[i]]
  BY <1>1 DEF Selects
<1>4. \A i \in 1 .. n + 1 : i = n + 1 \/ i \in 1 .. n
  BY <1>1
<1>5. n + 1 \in 1 .. n + 1 /\ \A i \in 1 .. n : i \in 1 .. n + 1 /\ i # n + 1
  BY <1>1
<1>6. g[n + 1] = k /\ \A i \in 1 .. n : g[i] = f[i]
  BY <1>5
<1>7. DOMAIN g = 1 .. n + 1 /\ g \in [1 .. n + 1 -> K \cup {k}]
  BY <1>3, <1>4
<1> HIDE DEF g, r, n
<1>8. \A i \in 1 .. n + 1 : r[i] = s[g[i]]
  BY <1>2, <1>3, <1>4, <1>6
<1>9. ASSUME NEW i \in 1 .. n + 1, NEW j \in 1 .. n + 1, i < j PROVE g[i] < g[j]
  <2>1. i \in 1 .. n
    BY <1>1, <1>9
  <2>2. CASE j \in 1 .. n
    <3>1. f[i] < f[j]
      BY <1>1, <1>9, <2>1, <2>2 DEF Selects
    <3>2. QED BY <1>6, <2>1, <2>2, <3>1
  <2>3. CASE j = n + 1
    <3>1. f[i] < k
      BY <1>1, <1>3, <2>1
    <3>2. QED BY <1>6, <2>1, <2>3, <3>1
  <2>4. QED BY <1>4, <2>2, <2>3
<1>10. \A x \in K \cup {k} : \E i \in 1 .. n + 1 : g[i] = x
  BY <1>1, <1>5, <1>6 DEF Selects
<1>11. Selects(g, r, s, K \cup {k})
  BY <1>2, <1>7, <1>8, <1>9, <1>10 DEF Selects
<1>12. QED BY <1>11 DEF r

\* What is kept of a list: some of its items, in their order.
LEMMA KeptItems ==
  ASSUME NEW S, NEW s \in Seq(S), NEW K
  PROVE  Kept(s, K) \in Seq(S) /\ \E f : Selects(f, Kept(s, K), s, K \cap DOMAIN s)
<1> DEFINE n == Len(s)
           Q == Seq(S)
           a == << >>
           Step(k, q) == IF k \in K THEN Append(q, s[k]) ELSE q
           Def(f) == [k \in 0 .. n |-> IF k = 0 THEN a
                                       ELSE IF k \in K THEN Append(f[k - 1], s[k]) ELSE f[k - 1]]
           G == [p \in (0 .. n) \X Q |-> IF p[1] = 0 THEN a ELSE Step(p[1], p[2])]
           B == CHOOSE f : f = Def(f)
<1>1. Kept(s, K) = B[n]
  BY DEF Kept
<1>2. n \in Nat /\ a \in Q /\ DOMAIN s = 1 .. n
  OBVIOUS
<1>3. \A k \in 1 .. n : \A q \in Q : Step(k, q) \in Q
  <2>1. \A k \in 1 .. n : s[k] \in S
    OBVIOUS
  <2>2. QED BY <2>1
<1> HIDE DEF n
<1>4. G \in [(0 .. n) \X Q -> Q]
  <2> HIDE DEF Q, Step, a
  <2>1. \A p \in (0 .. n) \X Q : p[1] # 0 => p[1] \in 1 .. n
    BY <1>2
  <2>2. QED BY <1>2, <1>3, <2>1
<1>5. PICK f \in [0 .. n -> Q] : f[0] = a /\ \A k \in 1 .. n : f[k] = G[<<k, f[k - 1]>>]
  <2> HIDE DEF G, Q, a
  <2>1. PICK f : Iterates(f, n, Q, a, G)
    BY <1>2, <1>4, Recursion
  <2>2. QED BY <2>1 DEF Iterates
<1>6. \A k \in 1 .. n : f[k] = Step(k, f[k - 1])
  <2> SUFFICES ASSUME NEW k \in 1 .. n PROVE f[k] = Step(k, f[k - 1])
    OBVIOUS
  <2>1. k \in 0 .. n /\ k - 1 \in 0 .. n /\ k # 0
    BY <1>2
  <2>2. <<k, f[k - 1]>> \in (0 .. n) \X Q
    BY <2>1
  <2> HIDE DEF Step, a
  <2>3. QED BY <1>5, <2>1, <2>2
<1>7. f = Def(f)
  <2> HIDE DEF a
  <2>1. \A k \in 0 .. n : f[k] = IF k = 0 THEN a ELSE Step(k, f[k - 1])
    <3> HIDE DEF Step
    <3>1. QED BY <1>2, <1>5, <1>6
  <2>2. f = [k \in 0 .. n |-> f[k]]
    OBVIOUS
  <2>3. QED BY <2>1, <2>2
<1>8. B = Def(B)
  <2> HIDE DEF Def
  <2>1. QED BY <1>7
<1> HIDE DEF B
<1>9. B[0] = a /\ \A k \in 1 .. n : B[k] = Step(k, B[k - 1])
  <2> HIDE DEF a
  <2>1. \A k \in 0 .. n : B[k] = IF k = 0 THEN a ELSE Step(k, B[k - 1])
    BY <1>8
  <2> HIDE DEF Def, Step
  <2>2. 0 \in 0 .. n /\ \A k \in 1 .. n : k \in 0 .. n /\ k # 0
    BY <1>2
  <2>3. QED BY <2>1, <2>2
<1> DEFINE Good(k) == B[k] \in Q /\ \E g : Selects(g, B[k], s, K \cap (1 .. k))
           T == {k \in 0 .. n : Good(k)}
<1>10. 0 \in T
  <2>1. K \cap (1 .. 0) = {} /\ DOMAIN a = {} /\ 0 \in 0 .. n
    BY <1>2
  <2>2. Selects(a, a, s, {})
    BY <2>1 DEF Selects
  <2> HIDE DEF a
  <2>3. Good(0)
    BY <1>2, <1>9, <2>1, <2>2
  <2> HIDE DEF Good
  <2>4. QED BY <2>1, <2>3
<1>11. ASSUME NEW k \in 0 .. n, k \in T, k # n PROVE k + 1 \in T
  <2> HIDE DEF a
  <2>1. k + 1 \in 1 .. n /\ k + 1 \in 0 .. n /\ (k + 1) - 1 = k /\ k + 1 \in DOMAIN s
    BY <1>2, <1>11
  <2>2. Good(k)
    BY <1>11
  <2> PICK g : Selects(g, B[k], s, K \cap (1 .. k))
    BY <2>2
  <2>3. B[k + 1] = Step(k + 1, B[k])
    BY <1>9, <2>1
  <2>4. B[k + 1] \in Q
    <3> HIDE DEF Q, Step
    <3>1. QED BY <1>3, <2>1, <2>2, <2>3
  <2>5. CASE k + 1 \in K
    <3>1. K \cap (1 .. k + 1) = (K \cap (1 .. k)) \cup {k + 1}
      BY <2>1, <2>5
    <3>2. K \cap (1 .. k) \in SUBSET (1 .. (k + 1) - 1)
      BY <2>1
    <3>3. B[k + 1] = Append(B[k], s[k + 1])
      BY <2>3, <2>5
    <3>4. \E h : Selects(h, Append(B[k], s[k + 1]), s, (K \cap (1 .. k)) \cup {k + 1})
      BY <2>1, <2>2, <3>2, SelectsMore
    <3>5. Good(k + 1)
      BY <2>4, <3>1, <3>3, <3>4
    <3> HIDE DEF Good
    <3>6. QED BY <2>1, <3>5
  <2>6. CASE k + 1 \notin K
    <3>1. K \cap (1 .. k + 1) = K \cap (1 .. k)
      BY <2>1, <2>6
    <3>2. B[k + 1] = B[k]
      BY <2>3, <2>6
    <3>3. Good(k + 1)
      BY <2>2, <3>1, <3>2
    <3> HIDE DEF Good
    <3>4. QED BY <2>1, <3>3
  <2>7. QED BY <2>5, <2>6
<1>12. Good(n)
  <2>1. 0 .. n \subseteq T
    <3> HIDE DEF T
    <3>1. QED BY <1>2, <1>10, <1>11, UpTo
  <2> HIDE DEF Good
  <2>2. QED BY <1>2, <2>1
<1>13. QED BY <1>1, <1>2, <1>12

\* What is kept of a list is as long as the places it is kept from are many.
LEMMA SelectsLength ==
  ASSUME NEW S, NEW s \in Seq(S), NEW q \in Seq(S), NEW K \in SUBSET (DOMAIN s), NEW f,
         Selects(f, q, s, K)
  PROVE  IsFiniteSet(K) /\ Cardinality(K) = Len(q)
<1>1. Len(q) \in Nat /\ DOMAIN q = 1 .. Len(q) /\ K \subseteq Int
  OBVIOUS
<1>2. IsFiniteSet(1 .. Len(q)) /\ Cardinality(1 .. Len(q)) = Len(q)
  <2>1. 1 \in Int /\ Len(q) \in Int
    BY <1>1
  <2>2. IsFiniteSet(1 .. Len(q))
    BY <2>1, FS_Interval
  <2>3. Cardinality(1 .. Len(q)) = IF 1 > Len(q) THEN 0 ELSE Len(q) - 1 + 1
    BY <2>1, FS_Interval
  <2>4. QED BY <1>1, <2>2, <2>3
<1>3. f \in Injection(1 .. Len(q), K) /\ f \in Surjection(1 .. Len(q), K)
  <2>1. f \in [1 .. Len(q) -> K]
    BY <1>1 DEF Selects
  <2>2. ASSUME NEW i \in 1 .. Len(q), NEW j \in 1 .. Len(q), f[i] = f[j] PROVE i = j
    <3>1. ~ (f[i] < f[j]) /\ ~ (f[j] < f[i])
      BY <1>1, <2>1, <2>2
    <3>2. ~ (i < j) /\ ~ (j < i)
      BY <1>1, <3>1 DEF Selects
    <3>3. QED BY <3>2
  <2>3. \A k \in K : \E i \in 1 .. Len(q) : f[i] = k
    BY <1>1 DEF Selects
  <2>4. QED BY <2>1, <2>2, <2>3 DEF Injection, Surjection, IsInjective
<1>4. QED BY <1>2, <1>3, FS_Surjection
=============================================================================
