---------------------------- MODULE CacheProofs ----------------------------
(***************************************************************************)
(* Proofs about the two attention caches: about BaseCache, for every       *)
(* number of pages, every page size and every set of allocations, and      *)
(* about TrieCache, for every pool, every page size, all prompts and all   *)
(* generated tokens, and any finite set of allocations.                    *)
(***************************************************************************)
EXTENDS BaseCache, TrieCache, ProofLemmas


(***************************************************************************)
(* Facts about the lists of the page pool.                                 *)
(***************************************************************************)

\* The first m - n elements of a stack of height m.
Below(s, m, n) == SubSeq(s, 1, m - n)

\* Its last n elements, last one first.
Top(s, m, n) == [i \in 1 .. n |-> s[m + 1 - i]]

\* n calls of pop(): what they return and what they leave behind are two lists
\* that split the stack between them, without repetition if it had none.
LEMMA PopSplits ==
    ASSUME NEW S, NEW s \in Seq(S), NEW n \in Nat, n <= Len(s)
    PROVE  LET rest == Below(s, Len(s), n)
               top == Top(s, Len(s), n)
           IN  /\ rest \in Seq(S) /\ top \in Seq(S)
               /\ Len(rest) = Len(s) - n /\ Len(top) = n
               /\ IsInjective(s) => /\ IsInjective(rest) /\ IsInjective(top)
                                    /\ Range(rest) \cap Range(top) = {}
                                    /\ Range(s) = Range(rest) \cup Range(top)
<1> DEFINE m == Len(s)
           rest == Below(s, Len(s), n)
           top == Top(s, Len(s), n)
<1>1. /\ rest \in Seq(S) /\ Len(rest) = m - n
      /\ m \in Nat /\ n <= m
      /\ DOMAIN s = 1 .. m /\ DOMAIN rest = 1 .. m - n
      /\ \A i \in 1 .. m - n : rest[i] = s[i]
  BY DEF Below
<1>2. /\ top \in [1 .. n -> S] /\ DOMAIN top = 1 .. n
      /\ \A i \in 1 .. n : top[i] = s[m + 1 - i]
  BY DEF Top
<1>3. top \in Seq(S) /\ Len(top) = n
  BY <1>2
<1> HIDE DEF m, rest, top
<1>4. ASSUME IsInjective(s)
      PROVE  IsInjective(rest) /\ IsInjective(top) /\ Range(rest) \cap Range(top) = {}
  <2>1. \A i, j \in 1 .. m : s[i] = s[j] => i = j
    BY <1>1, <1>4 DEF IsInjective
  <2>2. IsInjective(rest) /\ IsInjective(top)
    BY <1>1, <1>2, <2>1 DEF IsInjective
  <2>3. \A i \in 1 .. m - n, j \in 1 .. n : rest[i] # top[j]
    BY <1>1, <1>2, <2>1
  <2>4. QED
    BY <1>1, <1>2, <2>2, <2>3 DEF Range
<1>5. ASSUME NEW i \in 1 .. m
      PROVE  s[i] \in Range(rest) \cup Range(top)
  <2>1. CASE i <= m - n
    BY <1>1, <2>1 DEF Range
  <2>2. CASE i > m - n
    <3>1. m + 1 - i \in 1 .. n /\ top[m + 1 - i] = s[i]
      BY <1>1, <1>2, <2>2
    <3>2. QED
      BY <1>2, <3>1 DEF Range
  <2>3. QED
    BY <1>1, <2>1, <2>2
<1>6. Range(rest) \cup Range(top) \subseteq Range(s)
  <2>1. \A i \in 1 .. m - n : rest[i] \in Range(s)
    BY <1>1 DEF Range
  <2>2. \A i \in 1 .. n : m + 1 - i \in 1 .. m /\ top[i] = s[m + 1 - i]
    BY <1>1, <1>2
  <2>3. \A i \in 1 .. n : top[i] \in Range(s)
    BY <1>1, <2>2 DEF Range
  <2>4. QED
    BY <1>1, <1>2, <2>1, <2>3 DEF Range
<1>7. Range(s) = Range(rest) \cup Range(top)
  <2>1. Range(s) \subseteq Range(rest) \cup Range(top)
    BY <1>1, <1>5 DEF Range
  <2>2. QED
    BY <2>1, <1>6
<1>8. QED
  BY <1>1, <1>3, <1>4, <1>7 DEF m, rest, top

\* list.extend(): the elements of a concatenation, and when it repeats none.
LEMMA ConcatJoins ==
    ASSUME NEW S, NEW s \in Seq(S), NEW t \in Seq(S)
    PROVE  /\ s \o t \in Seq(S)
           /\ Len(s \o t) = Len(s) + Len(t)
           /\ Range(s \o t) = Range(s) \cup Range(t)
           /\ IsInjective(s) /\ IsInjective(t) /\ Range(s) \cap Range(t) = {}
                => IsInjective(s \o t)
<1>1. /\ s \o t \in Seq(S) /\ Len(s \o t) = Len(s) + Len(t)
      /\ DOMAIN s = 1 .. Len(s) /\ DOMAIN t = 1 .. Len(t)
      /\ DOMAIN (s \o t) = 1 .. Len(s) + Len(t)
      /\ \A i \in 1 .. Len(s) : (s \o t)[i] = s[i]
      /\ \A i \in 1 .. Len(t) : (s \o t)[Len(s) + i] = t[i]
  OBVIOUS
<1>2. \A i \in 1 .. Len(s) + Len(t) :
         \/ i \in 1 .. Len(s) /\ (s \o t)[i] = s[i]
         \/ i - Len(s) \in 1 .. Len(t) /\ (s \o t)[i] = t[i - Len(s)]
  BY <1>1
<1>3. Range(s \o t) \subseteq Range(s) \cup Range(t)
  BY <1>1, <1>2 DEF Range
<1>4. Range(s) \subseteq Range(s \o t)
  <2>1. ASSUME NEW i \in 1 .. Len(s)
        PROVE  i \in DOMAIN (s \o t) /\ (s \o t)[i] = s[i]
    BY <1>1
  <2>2. QED
    BY <1>1, <2>1 DEF Range
<1>5. Range(t) \subseteq Range(s \o t)
  <2>1. ASSUME NEW i \in 1 .. Len(t)
        PROVE  Len(s) + i \in DOMAIN (s \o t) /\ (s \o t)[Len(s) + i] = t[i]
    BY <1>1
  <2>2. QED
    BY <1>1, <2>1 DEF Range
<1>6. ASSUME IsInjective(s), IsInjective(t), Range(s) \cap Range(t) = {}
      PROVE  IsInjective(s \o t)
  <2>1. \A i \in 1 .. Len(s), j \in 1 .. Len(t) : s[i] # t[j]
    BY <1>1, <1>6 DEF Range
  <2>2. QED
    BY <1>1, <1>2, <1>6, <2>1 DEF IsInjective
<1>7. QED
  BY <1>1, <1>3, <1>4, <1>5, <1>6

\* math.ceil(n / tokens_per_page) pages are enough for n tokens.
LEMMA PagesForEnough ==
    ASSUME NEW n \in Nat
    PROVE  PagesFor(n) \in Nat /\ PagesFor(n) * TokensPerPage >= n
<1> DEFINE t == TokensPerPage
           q == (n + t - 1) \div t
<1>1. t \in Nat /\ t > 0
  BY BaseCacheAssumption
<1>2. q \in Int /\ q >= 0 /\ n + t - 1 < (q + 1) * t
  BY <1>1
<1>3. (q + 1) * t = q * t + t
  BY <1>1, <1>2
<1>4. QED
  BY <1>1, <1>2, <1>3 DEF PagesFor

----------------------------------------------------------------------------
(***************************************************************************)
(* Type correctness.                                                       *)
(***************************************************************************)

\* What acquire_free_pages does to the pool.
LEMMA AcquireFreePages ==
    ASSUME PoolTypeOK, NEW n \in Nat, acquire_free_pages(n)
    PROVE  /\ PoolTypeOK'
           /\ PoppedPages(n) \in Seq(Pages) /\ Len(PoppedPages(n)) = n
           /\ IsInjective(available_pages) =>
                 /\ IsInjective(available_pages') /\ IsInjective(PoppedPages(n))
                 /\ Range(available_pages') \cap Range(PoppedPages(n)) = {}
                 /\ Range(available_pages) =
                        Range(available_pages') \cup Range(PoppedPages(n))
<1>1. /\ available_pages \in Seq(Pages) /\ n <= Len(available_pages)
      /\ available_pages' = Below(available_pages, Len(available_pages), n)
      /\ PoppedPages(n) = Top(available_pages, Len(available_pages), n)
  BY DEF PoolTypeOK, acquire_free_pages, CanAcquire, PoppedPages, Below, Top
<1>2. QED
  BY <1>1, PopSplits DEF PoolTypeOK

\* What free_pages does to the pool.
LEMMA FreePages ==
    ASSUME PoolTypeOK, NEW s \in Seq(Pages), free_pages(s)
    PROVE  /\ PoolTypeOK'
           /\ Range(available_pages') = Range(available_pages) \cup Range(s)
           /\ /\ IsInjective(available_pages) /\ IsInjective(s)
              /\ Range(available_pages) \cap Range(s) = {}
              => IsInjective(available_pages')
  BY ConcatJoins DEF PoolTypeOK, free_pages

\* What extend_allocation asks the pool for is a number of pages.
LEMMA MissingNat ==
    ASSUME TypeOK, NEW a \in Allocs, NEW n \in Nat, Missing(a, n) > 0
    PROVE  Missing(a, n) \in Nat /\ Len(pages[a]) + Missing(a, n) = PagesFor(n)
<1>1. pages[a] \in Seq(Pages)
  BY DEF TypeOK
<1>2. Len(pages[a]) \in Nat /\ PagesFor(n) \in Nat
  BY <1>1, PagesForEnough
<1>3. QED
  BY <1>2 DEF Missing

\* Every step keeps the types.
LEMMA TypeStep == TypeOK /\ [Next]_vars => TypeOK'
<1> SUFFICES ASSUME TypeOK, [Next]_vars PROVE TypeOK'
  OBVIOUS
<1> USE DEF TypeOK, Status
<1>1. ASSUME NEW a \in Allocs, NEW n \in 0 .. MaxTokens,
             NEW x \in 0 .. MaxExtraSlots, acquire_pages_for_tokens(a, n, x)
      PROVE  TypeOK'
  <2>0. n \in Nat /\ x \in Nat
    BY BaseCacheAssumption
  <2>1. PagesFor(n) \in Nat
    BY <2>0, PagesForEnough
  <2>2. PoolTypeOK' /\ PoppedPages(PagesFor(n)) \in Seq(Pages)
    BY <1>1, <2>1, AcquireFreePages DEF acquire_pages_for_tokens
  <2>3. QED
    BY <1>1, <2>0, <2>2 DEF acquire_pages_for_tokens, Remember
<1>2. ASSUME NEW a \in Allocs, NEW n \in 0 .. MaxTokens,
             NEW x \in 0 .. MaxExtraSlots, ExtendInPlace(a, n, x)
      PROVE  TypeOK'
  BY <1>2, BaseCacheAssumption DEF ExtendInPlace, Remember, PoolTypeOK
<1>3. ASSUME NEW a \in Allocs, NEW n \in 0 .. MaxTokens,
             NEW x \in 0 .. MaxExtraSlots, ExtendGrows(a, n, x)
      PROVE  TypeOK'
  <2>1. n \in Nat /\ x \in Nat /\ n + x \in Nat /\ Missing(a, n + x) \in Nat
    BY <1>3, BaseCacheAssumption, MissingNat DEF ExtendGrows
  <2>2. PoolTypeOK' /\ PoppedPages(Missing(a, n + x)) \in Seq(Pages)
    BY <1>3, <2>1, AcquireFreePages DEF ExtendGrows
  <2>3. pages[a] \o PoppedPages(Missing(a, n + x)) \in Seq(Pages)
    BY <2>2, ConcatJoins
  <2>4. QED
    BY <1>3, <2>1, <2>2, <2>3 DEF ExtendGrows, Remember
<1>4. ASSUME NEW a \in Allocs, ReleaseLive(a) PROVE TypeOK'
  <2>1. PoolTypeOK'
    BY <1>4, FreePages DEF ReleaseLive
  <2>2. QED
    BY <1>4, <2>1 DEF ReleaseLive, Remember
<1>5. ASSUME NEW a \in Allocs, copy_page(a) PROVE TypeOK'
  <2>1. PoolTypeOK' /\ PoppedPages(1)[1] \in Pages
    BY <1>5, AcquireFreePages DEF copy_page
  <2>2. QED
    BY <1>5, <2>1 DEF copy_page
<1>6. ASSUME NEW p \in Pages, FreeCopy(p) PROVE TypeOK'
  <2>0. <<p>> \in Seq(Pages)
    OBVIOUS
  <2>1. PoolTypeOK'
    BY <1>6, <2>0, FreePages DEF FreeCopy
  <2>2. QED
    BY <1>6, <2>1 DEF FreeCopy
<1>7. ASSUME UNCHANGED vars PROVE TypeOK'
  BY <1>7 DEF vars, PoolTypeOK
<1>8. QED
  BY <1>1, <1>2, <1>3, <1>4, <1>5, <1>6, <1>7
     DEF Next, Acquire, extend_allocation, publish_pages_for_tokens, release_pages,
         AcquireFails, ExtendFails, ReleaseAgain, CopyPageFails

\* Initially: range(alloc_page_count), every page once.
LEMMA InitiallyAllFree ==
    ASSUME Init
    PROVE  TypeOK /\ IsInjective(available_pages) /\ Range(available_pages) = Pages
<1>1. /\ available_pages \in [1 .. AllocPageCount -> Pages]
      /\ DOMAIN available_pages = 1 .. AllocPageCount
      /\ \A i \in 1 .. AllocPageCount : available_pages[i] = i - 1
  BY AllocPageCountAssumption DEF Init, PoolInit, Pages
<1>2. available_pages \in Seq(Pages)
  BY <1>1, AllocPageCountAssumption
<1>3. IsInjective(available_pages)
  BY <1>1 DEF IsInjective
<1>4. \A p \in Pages : p + 1 \in 1 .. AllocPageCount /\ available_pages[p + 1] = p
  BY <1>1, AllocPageCountAssumption DEF Pages
<1>5. Range(available_pages) = Pages
  BY <1>1, <1>4 DEF Range
<1>6. QED
  BY <1>2, <1>3, <1>5 DEF Init, TypeOK, PoolTypeOK, Status

\* The state of the pool and of its allocations always has its type: in
\* particular only pages of the pool are ever handed out or taken back.
THEOREM TypeCorrect == Spec => []TypeOK
<1>1. Init => TypeOK
  BY InitiallyAllFree
<1>2. QED
  BY <1>1, TypeStep, PTL DEF Spec

----------------------------------------------------------------------------
(***************************************************************************)
(* Conservation of pages.  PagesConserved is inductive once the types are  *)
(* known: what keeps it so is that a page is only ever popped from a list  *)
(* that holds it once, and only given back by the one owner it has.        *)
(***************************************************************************)

\* Every step of the cache keeps each page with its one owner.
LEMMA ConservedStep == TypeOK /\ PagesConserved /\ [Next]_vars => PagesConserved'
<1> SUFFICES ASSUME TypeOK, PagesConserved, [Next]_vars PROVE PagesConserved'
  OBVIOUS
<1>0. /\ PoolTypeOK /\ IsInjective(available_pages)
      /\ \A a \in Allocs : pages[a] \in Seq(Pages)
      /\ status \in [Allocs -> Status] /\ pages \in [Allocs -> Seq(Pages)]
  BY DEF TypeOK, PagesConserved, PagesNeverShared
<1>1. ASSUME NEW a \in Allocs, NEW n \in 0 .. MaxTokens,
             NEW x \in 0 .. MaxExtraSlots, acquire_pages_for_tokens(a, n, x)
      PROVE  PagesConserved'
  <2> DEFINE P == PoppedPages(PagesFor(n))
  <2>0. n \in Nat
    BY BaseCacheAssumption
  <2>1. PagesFor(n) \in Nat
    BY <2>0, PagesForEnough
  <2>2. /\ IsInjective(available_pages') /\ IsInjective(P)
        /\ Range(available_pages') \cap Range(P) = {}
        /\ Range(available_pages) = Range(available_pages') \cup Range(P)
    BY <1>0, <1>1, <2>1, AcquireFreePages DEF acquire_pages_for_tokens
  <2>3. /\ Live(a)' /\ pages'[a] = P /\ Owned(a)' = Range(P)
        /\ Owned(a) = {} /\ copies' = copies
    BY <1>0, <1>1 DEF acquire_pages_for_tokens, Live, Owned
  <2>4. ASSUME NEW b \in Allocs, b # a
        PROVE  Owned(b)' = Owned(b) /\ Live(b)' = Live(b) /\ pages'[b] = pages[b]
    BY <1>0, <1>1, <2>4 DEF acquire_pages_for_tokens, Live, Owned
  <2> HIDE DEF P
  <2>5. PagesNeverShared'
    BY <2>2, <2>3, <2>4 DEF PagesConserved, PagesNeverShared
  <2>6. PagesNeverLost'
    BY <2>2, <2>3, <2>4 DEF PagesConserved, PagesNeverLost
  <2>7. QED
    BY <2>5, <2>6 DEF PagesConserved
<1>2. ASSUME NEW a \in Allocs, NEW n \in 0 .. MaxTokens,
             NEW x \in 0 .. MaxExtraSlots, ExtendGrows(a, n, x)
      PROVE  PagesConserved'
  <2> DEFINE P == PoppedPages(Missing(a, n + x))
  <2>1. n + x \in Nat /\ Missing(a, n + x) \in Nat
    BY <1>2, BaseCacheAssumption, MissingNat DEF ExtendGrows
  <2>2. /\ IsInjective(available_pages') /\ IsInjective(P) /\ P \in Seq(Pages)
        /\ Range(available_pages') \cap Range(P) = {}
        /\ Range(available_pages) = Range(available_pages') \cup Range(P)
    BY <1>0, <1>2, <2>1, AcquireFreePages DEF ExtendGrows
  <2>3. /\ Live(a) /\ Live(a)' /\ pages'[a] = pages[a] \o P /\ copies' = copies
        /\ Owned(a) = Range(pages[a]) /\ Owned(a)' = Range(pages[a] \o P)
    BY <1>0, <1>2 DEF ExtendGrows, Live, Owned
  <2>4. ASSUME NEW b \in Allocs, b # a
        PROVE  Owned(b)' = Owned(b) /\ Live(b)' = Live(b) /\ pages'[b] = pages[b]
    BY <1>0, <1>2, <2>4 DEF ExtendGrows, Live, Owned
  <2> HIDE DEF P
  <2>5. IsInjective(pages[a]) /\ Owned(a) \cap Range(P) = {}
    BY <2>2, <2>3 DEF PagesConserved, PagesNeverShared
  <2>6. IsInjective(pages'[a]) /\ Owned(a)' = Owned(a) \cup Range(P)
    BY <1>0, <2>2, <2>3, <2>5, ConcatJoins
  <2>7. PagesNeverShared'
    <3>1. \A b \in Allocs : Live(b)' => IsInjective(pages'[b])
      BY <2>4, <2>6 DEF PagesConserved, PagesNeverShared
    <3>2. \A b \in Allocs :
             Owned(b)' \cap (Range(available_pages') \cup copies') = {}
      BY <2>2, <2>3, <2>4, <2>6 DEF PagesConserved, PagesNeverShared
    <3>3. \A b, c \in Allocs : b # c => Owned(b)' \cap Owned(c)' = {}
      BY <2>2, <2>4, <2>6 DEF PagesConserved, PagesNeverShared
    <3>4. Range(available_pages') \cap copies' = {}
      BY <2>2, <2>3 DEF PagesConserved, PagesNeverShared
    <3>5. QED
      BY <2>2, <3>1, <3>2, <3>3, <3>4 DEF PagesNeverShared
  <2>8. PagesNeverLost'
    BY <2>2, <2>3, <2>4, <2>6 DEF PagesConserved, PagesNeverLost
  <2>9. QED
    BY <2>7, <2>8 DEF PagesConserved
<1>3. ASSUME NEW a \in Allocs, ReleaseLive(a) PROVE PagesConserved'
  <2>1. /\ Live(a) /\ ~Live(a)' /\ Owned(a) = Range(pages[a]) /\ Owned(a)' = {}
        /\ copies' = copies
    BY <1>0, <1>3 DEF ReleaseLive, Live, Owned
  <2>2. ASSUME NEW b \in Allocs, b # a
        PROVE  Owned(b)' = Owned(b) /\ Live(b)' = Live(b) /\ pages'[b] = pages[b]
    BY <1>0, <1>3, <2>2 DEF ReleaseLive, Live, Owned
  <2>3. IsInjective(pages[a]) /\ Range(available_pages) \cap Range(pages[a]) = {}
    BY <2>1 DEF PagesConserved, PagesNeverShared
  <2>4. /\ IsInjective(available_pages')
        /\ Range(available_pages') = Range(available_pages) \cup Owned(a)
    BY <1>0, <1>3, <2>1, <2>3, FreePages DEF ReleaseLive
  <2>5. PagesNeverShared'
    BY <2>1, <2>2, <2>4 DEF PagesConserved, PagesNeverShared
  <2>6. PagesNeverLost'
    BY <2>1, <2>2, <2>4 DEF PagesConserved, PagesNeverLost
  <2>7. QED
    BY <2>5, <2>6 DEF PagesConserved
<1>4. ASSUME NEW a \in Allocs, copy_page(a) PROVE PagesConserved'
  <2> DEFINE P == PoppedPages(1)
  <2>1. /\ IsInjective(available_pages') /\ P \in Seq(Pages) /\ Len(P) = 1
        /\ Range(available_pages') \cap Range(P) = {}
        /\ Range(available_pages) = Range(available_pages') \cup Range(P)
    BY <1>0, <1>4, AcquireFreePages DEF copy_page
  <2>2. copies' = copies \cup {P[1]}
    BY <1>4 DEF copy_page
  <2> HIDE DEF P
  <2>3. Range(P) = {P[1]}
    BY <2>1 DEF Range
  <2>4. ASSUME NEW b \in Allocs
        PROVE  Owned(b)' = Owned(b) /\ Live(b)' = Live(b) /\ pages'[b] = pages[b]
    BY <1>4 DEF copy_page, Live, Owned
  <2>5. PagesNeverShared'
    BY <2>1, <2>2, <2>3, <2>4 DEF PagesConserved, PagesNeverShared
  <2>6. PagesNeverLost'
    BY <2>1, <2>2, <2>3, <2>4 DEF PagesConserved, PagesNeverLost
  <2>7. QED
    BY <2>5, <2>6 DEF PagesConserved
<1>5. ASSUME NEW p \in Pages, FreeCopy(p) PROVE PagesConserved'
  <2>1. <<p>> \in Seq(Pages) /\ Range(<<p>>) = {p} /\ IsInjective(<<p>>)
    BY DEF Range, IsInjective
  <2>2. p \in copies /\ copies' = copies \ {p}
    BY <1>5 DEF FreeCopy
  <2>3. Range(available_pages) \cap Range(<<p>>) = {}
    BY <2>1, <2>2 DEF PagesConserved, PagesNeverShared
  <2>4. /\ IsInjective(available_pages')
        /\ Range(available_pages') = Range(available_pages) \cup {p}
    BY <1>0, <1>5, <2>1, <2>3, FreePages DEF FreeCopy
  <2>5. ASSUME NEW b \in Allocs
        PROVE  Owned(b)' = Owned(b) /\ Live(b)' = Live(b) /\ pages'[b] = pages[b]
    BY <1>5 DEF FreeCopy, Live, Owned
  <2>6. PagesNeverShared'
    BY <2>2, <2>4, <2>5 DEF PagesConserved, PagesNeverShared
  <2>7. PagesNeverLost'
    BY <2>2, <2>4, <2>5 DEF PagesConserved, PagesNeverLost
  <2>8. QED
    BY <2>6, <2>7 DEF PagesConserved
<1>6. ASSUME UNCHANGED <<available_pages, status, pages, copies>>
      PROVE  PagesConserved'
  BY <1>6 DEF PagesConserved, PagesNeverShared, PagesNeverLost, Owned, Live
<1>7. QED
  BY <1>1, <1>2, <1>3, <1>4, <1>5, <1>6
     DEF Next, Acquire, extend_allocation, publish_pages_for_tokens, release_pages,
         AcquireFails, ExtendInPlace, ExtendFails, ReleaseAgain, CopyPageFails, vars

\* For every number of pages and of allocations, no sequence of calls makes a
\* page belong to two owners or to none.
THEOREM Conservation == Spec => []PagesConserved
<1>1. Init => PagesConserved
  BY InitiallyAllFree
     DEF Init, PagesConserved, PagesNeverShared, PagesNeverLost, Owned, Live
<1>2. QED
  BY <1>1, TypeCorrect, ConservedStep, PTL DEF Spec

----------------------------------------------------------------------------
(***************************************************************************)
(* Room for the tokens.                                                    *)
(***************************************************************************)

\* Pages that are enough for some tokens are enough with more of them.
LEMMA MorePagesMoreRoom ==
    ASSUME NEW n \in Nat, NEW k \in Nat, k >= PagesFor(n)
    PROVE  k * TokensPerPage >= n
<1> DEFINE t == TokensPerPage
           q == PagesFor(n)
<1>1. t \in Nat /\ q \in Nat /\ q * t >= n
  BY PagesForEnough, BaseCacheAssumption
<1> HIDE DEF t, q
<1>2. PICK d \in Nat : k = q + d
  <2>1. k - q \in Nat /\ k = q + (k - q)
    BY <1>1 DEF q
  <2>2. QED
    BY <2>1
<1>3. k * t = q * t + d * t /\ d * t >= 0 /\ q * t \in Nat /\ d * t \in Nat
  BY <1>1, <1>2
<1>4. QED
  BY <1>1, <1>3 DEF t

\* Every step of the cache leaves room for the tokens of each live allocation.
LEMMA RoomStep == TypeOK /\ PagesHoldTokens /\ [Next]_vars => PagesHoldTokens'
<1> SUFFICES ASSUME TypeOK, PagesHoldTokens, [Next]_vars,
                    NEW b \in Allocs, Live(b)'
             PROVE  Len(pages'[b]) * TokensPerPage >= tokens'[b]
  BY DEF PagesHoldTokens
<1>0. /\ PoolTypeOK /\ status \in [Allocs -> Status]
      /\ pages \in [Allocs -> Seq(Pages)]
      /\ tokens \in [Allocs -> Nat] /\ extra \in [Allocs -> Nat]
      /\ Live(b) => Len(pages[b]) * TokensPerPage >= tokens[b]
  BY DEF TypeOK, PagesHoldTokens
<1>1. ASSUME NEW a \in Allocs, NEW n \in 0 .. MaxTokens,
             NEW x \in 0 .. MaxExtraSlots, acquire_pages_for_tokens(a, n, x)
      PROVE  Len(pages'[b]) * TokensPerPage >= tokens'[b]
  <2>0. n \in Nat
    BY BaseCacheAssumption
  <2>1. PagesFor(n) \in Nat /\ PagesFor(n) * TokensPerPage >= n
    BY <2>0, PagesForEnough
  <2>2. Len(PoppedPages(PagesFor(n))) = PagesFor(n)
    BY <1>0, <1>1, <2>1, AcquireFreePages DEF acquire_pages_for_tokens
  <2>3. CASE b = a
    BY <1>0, <1>1, <2>1, <2>2, <2>3 DEF acquire_pages_for_tokens, Remember
  <2>4. CASE b # a
    BY <1>0, <1>1, <2>4 DEF acquire_pages_for_tokens, Remember, Live
  <2>5. QED
    BY <2>3, <2>4
<1>2. ASSUME NEW a \in Allocs, NEW n \in 0 .. MaxTokens,
             NEW x \in 0 .. MaxExtraSlots,
             ExtendInPlace(a, n, x) \/ ExtendGrows(a, n, x)
      PROVE  Len(pages'[b]) * TokensPerPage >= tokens'[b]
  <2>1. n \in Nat /\ n + x \in Nat /\ n + x >= n
    BY BaseCacheAssumption
  <2>2. PagesFor(n + x) \in Nat /\ Len(pages[a]) \in Nat
    <3>1. pages[a] \in Seq(Pages)
      BY <1>0
    <3>2. Len(pages[a]) \in Nat
      BY <3>1
    <3>3. PagesFor(n + x) \in Nat
      BY <2>1, PagesForEnough
    <3>4. QED
      BY <3>2, <3>3
  <2>3. Len(pages'[a]) \in Nat /\ Len(pages'[a]) >= PagesFor(n + x)
    <3>1. CASE ExtendInPlace(a, n, x)
      BY <2>2, <3>1 DEF ExtendInPlace, Missing
    <3>2. CASE ExtendGrows(a, n, x)
      <4> DEFINE P == PoppedPages(Missing(a, n + x))
      <4>1. /\ Missing(a, n + x) \in Nat
            /\ Len(pages[a]) + Missing(a, n + x) = PagesFor(n + x)
        BY <2>1, <3>2, MissingNat DEF ExtendGrows
      <4>2. P \in Seq(Pages) /\ Len(P) = Missing(a, n + x)
        BY <1>0, <3>2, <4>1, AcquireFreePages DEF ExtendGrows
      <4>3. pages'[a] = pages[a] \o P
        BY <1>0, <3>2 DEF ExtendGrows
      <4>4. QED
        BY <1>0, <2>2, <4>1, <4>2, <4>3, ConcatJoins
    <3>3. QED
      BY <1>2, <3>1, <3>2
  <2>4. CASE b = a
    <3>1. tokens'[b] = n
      BY <1>0, <1>2, <2>4 DEF ExtendInPlace, ExtendGrows, Remember
    <3>2. Len(pages'[a]) * TokensPerPage >= n + x
      BY <2>1, <2>3, MorePagesMoreRoom
    <3>3. TokensPerPage \in Nat
      BY BaseCacheAssumption
    <3>4. QED
      BY <2>1, <2>3, <2>4, <3>1, <3>2, <3>3
  <2>5. CASE b # a
    BY <1>0, <1>2, <2>5 DEF ExtendInPlace, ExtendGrows, Remember, Live
  <2>6. QED
    BY <2>4, <2>5
<1>3. ASSUME NEW a \in Allocs, ReleaseLive(a)
      PROVE  Len(pages'[b]) * TokensPerPage >= tokens'[b]
  <2>1. b # a
    BY <1>0, <1>3 DEF ReleaseLive, Live
  <2>2. QED
    BY <1>0, <1>3, <2>1 DEF ReleaseLive, Remember, Live
<1>4. ASSUME UNCHANGED <<status, pages, tokens>>
      PROVE  Len(pages'[b]) * TokensPerPage >= tokens'[b]
  BY <1>0, <1>4 DEF Live
<1>5. QED
  BY <1>1, <1>2, <1>3, <1>4
     DEF Next, Acquire, extend_allocation, publish_pages_for_tokens, release_pages,
         AcquireFails, ExtendFails, ReleaseAgain, copy_page, CopyPageFails, FreeCopy,
         vars

\* A live allocation has a slot for every token it was given, for every page
\* size: the rounding of acquire and extend never loses the last page.
THEOREM Room == Spec => []PagesHoldTokens
<1>1. Init => PagesHoldTokens
  BY DEF Init, PagesHoldTokens, Live
<1>2. QED
  BY <1>1, TypeCorrect, RoomStep, PTL DEF Spec

----------------------------------------------------------------------------
(***************************************************************************)
(* The cache implements the page ledger.                                   *)
(***************************************************************************)

\* One holder's set of pages changes, the others' do not.
LEMMA HoldingsChange ==
    ASSUME NEW h \in Holders, NEW S,
           (IF h = "caller" THEN copies' ELSE Owned(h)') = S,
           h # "caller" => copies' = copies,
           \A b \in Allocs : b # h => Owned(b)' = Owned(b)
    PROVE  Holdings' = [Holdings EXCEPT ![h] = S]
  BY BaseCacheAssumption DEF Holdings, Holders

\* Every step of the cache is a Grant, a Return or a stutter of the ledger.
LEMMA LedgerStep ==
    TypeOK /\ PagesConserved /\ [Next]_vars => [Ledger!LedgerNext]_(Ledger!ledgerVars)
<1> SUFFICES ASSUME TypeOK, PagesConserved, [Next]_vars
             PROVE  Ledger!LedgerNext \/ UNCHANGED <<Range(available_pages), Holdings>>
  BY DEF Ledger!ledgerVars
<1>0. /\ PoolTypeOK /\ IsInjective(available_pages)
      /\ status \in [Allocs -> Status] /\ pages \in [Allocs -> Seq(Pages)]
      /\ copies \subseteq Pages
  BY DEF TypeOK, PagesConserved, PagesNeverShared
<1>1. ASSUME NEW h \in Holders, NEW S \in SUBSET Pages,
             S \subseteq Range(available_pages),
             Range(available_pages') = Range(available_pages) \ S,
             Holdings' = [Holdings EXCEPT ![h] = @ \cup S]
      PROVE  Ledger!LedgerNext
  BY <1>1 DEF Ledger!LedgerNext, Ledger!Grant
<1>2. ASSUME NEW h \in Holders, NEW S \in SUBSET Pages,
             S \subseteq Holdings[h],
             Range(available_pages') = Range(available_pages) \cup S,
             Holdings' = [Holdings EXCEPT ![h] = @ \ S]
      PROVE  Ledger!LedgerNext
  BY <1>2 DEF Ledger!LedgerNext, Ledger!Return
<1>3. \A a \in Allocs : a \in Holders /\ a # "caller" /\ Holdings[a] = Owned(a)
  BY BaseCacheAssumption DEF Holders, Holdings
<1>4. "caller" \in Holders /\ Holdings["caller"] = copies
  BY DEF Holders, Holdings
<1>5. ASSUME NEW a \in Allocs, NEW n \in 0 .. MaxTokens,
             NEW x \in 0 .. MaxExtraSlots, acquire_pages_for_tokens(a, n, x)
      PROVE  Ledger!LedgerNext
  <2> DEFINE P == PoppedPages(PagesFor(n))
  <2>0. n \in Nat
    BY BaseCacheAssumption
  <2>1. PagesFor(n) \in Nat
    BY <2>0, PagesForEnough
  <2>2. /\ P \in Seq(Pages)
        /\ Range(available_pages') \cap Range(P) = {}
        /\ Range(available_pages) = Range(available_pages') \cup Range(P)
    BY <1>0, <1>5, <2>1, AcquireFreePages DEF acquire_pages_for_tokens
  <2>3. Owned(a)' = Range(P) /\ Owned(a) = {} /\ copies' = copies
    BY <1>0, <1>5 DEF acquire_pages_for_tokens, Live, Owned
  <2>4. \A b \in Allocs : b # a => Owned(b)' = Owned(b)
    BY <1>0, <1>5 DEF acquire_pages_for_tokens, Live, Owned
  <2>5. Range(P) \subseteq Pages
    BY <2>2 DEF Range
  <2> HIDE DEF P
  <2>6. Holdings' = [Holdings EXCEPT ![a] = Range(P)]
    BY <1>3, <2>3, <2>4, HoldingsChange
  <2>7. Holdings' = [Holdings EXCEPT ![a] = @ \cup Range(P)]
    BY <1>3, <2>3, <2>6
  <2>8. QED
    BY <1>1, <1>3, <2>2, <2>5, <2>7
<1>6. ASSUME NEW a \in Allocs, NEW n \in 0 .. MaxTokens,
             NEW x \in 0 .. MaxExtraSlots, ExtendGrows(a, n, x)
      PROVE  Ledger!LedgerNext
  <2> DEFINE P == PoppedPages(Missing(a, n + x))
  <2>1. n + x \in Nat /\ Missing(a, n + x) \in Nat
    BY <1>6, BaseCacheAssumption, MissingNat DEF ExtendGrows
  <2>2. /\ P \in Seq(Pages)
        /\ Range(available_pages') \cap Range(P) = {}
        /\ Range(available_pages) = Range(available_pages') \cup Range(P)
    BY <1>0, <1>6, <2>1, AcquireFreePages DEF ExtendGrows
  <2>3. /\ Owned(a) = Range(pages[a]) /\ Owned(a)' = Range(pages[a] \o P)
        /\ copies' = copies
    BY <1>0, <1>6 DEF ExtendGrows, Live, Owned
  <2>4. \A b \in Allocs : b # a => Owned(b)' = Owned(b)
    BY <1>0, <1>6 DEF ExtendGrows, Live, Owned
  <2>5. Range(P) \subseteq Pages
    BY <2>2 DEF Range
  <2> HIDE DEF P
  <2>6. Owned(a)' = Owned(a) \cup Range(P)
    BY <1>0, <2>2, <2>3, ConcatJoins
  <2>7. Holdings' = [Holdings EXCEPT ![a] = Owned(a) \cup Range(P)]
    BY <1>3, <2>3, <2>4, <2>6, HoldingsChange
  <2>8. Holdings' = [Holdings EXCEPT ![a] = @ \cup Range(P)]
    BY <1>3, <2>7
  <2>9. QED
    BY <1>1, <1>3, <2>2, <2>5, <2>8
<1>7. ASSUME NEW a \in Allocs, ReleaseLive(a)
      PROVE  Ledger!LedgerNext
  <2>1. Owned(a) = Range(pages[a]) /\ Owned(a)' = {} /\ copies' = copies
    BY <1>0, <1>7 DEF ReleaseLive, Live, Owned
  <2>2. \A b \in Allocs : b # a => Owned(b)' = Owned(b)
    BY <1>0, <1>7 DEF ReleaseLive, Live, Owned
  <2>3. pages[a] \in Seq(Pages)
    BY <1>0
  <2>4. Range(available_pages') = Range(available_pages) \cup Owned(a)
    BY <1>0, <1>7, <2>1, <2>3, FreePages DEF ReleaseLive
  <2>5. Holdings' = [Holdings EXCEPT ![a] = {}]
    BY <1>3, <2>1, <2>2, HoldingsChange
  <2>6. Holdings' = [Holdings EXCEPT ![a] = @ \ Owned(a)]
    BY <1>3, <2>5
  <2>7. Owned(a) \subseteq Pages
    BY <2>1, <2>3 DEF Range
  <2>8. QED
    BY <1>2, <1>3, <2>4, <2>6, <2>7
<1>8. ASSUME NEW a \in Allocs, copy_page(a)
      PROVE  Ledger!LedgerNext
  <2> DEFINE P == PoppedPages(1)
  <2>1. /\ P \in Seq(Pages) /\ Len(P) = 1
        /\ Range(available_pages') \cap Range(P) = {}
        /\ Range(available_pages) = Range(available_pages') \cup Range(P)
    BY <1>0, <1>8, AcquireFreePages DEF copy_page
  <2>2. copies' = copies \cup {P[1]}
    BY <1>8 DEF copy_page
  <2>3. \A b \in Allocs : Owned(b)' = Owned(b)
    BY <1>8 DEF copy_page, Live, Owned
  <2> HIDE DEF P
  <2>4. Range(P) = {P[1]} /\ P[1] \in Pages
    BY <2>1 DEF Range
  <2>5. Holdings' = [Holdings EXCEPT !["caller"] = copies \cup {P[1]}]
    BY <1>4, <2>2, <2>3, HoldingsChange
  <2>6. Holdings' = [Holdings EXCEPT !["caller"] = @ \cup {P[1]}]
    BY <1>4, <2>5
  <2>7. QED
    BY <1>1, <1>4, <2>1, <2>4, <2>6
<1>9. ASSUME NEW p \in Pages, FreeCopy(p)
      PROVE  Ledger!LedgerNext
  <2>1. <<p>> \in Seq(Pages) /\ Range(<<p>>) = {p}
    BY DEF Range
  <2>2. p \in copies /\ copies' = copies \ {p}
    BY <1>9 DEF FreeCopy
  <2>3. \A b \in Allocs : Owned(b)' = Owned(b)
    BY <1>9 DEF FreeCopy, Live, Owned
  <2>4. Range(available_pages') = Range(available_pages) \cup {p}
    BY <1>0, <1>9, <2>1, FreePages DEF FreeCopy
  <2>5. Holdings' = [Holdings EXCEPT !["caller"] = copies \ {p}]
    BY <1>4, <2>2, <2>3, HoldingsChange
  <2>6. Holdings' = [Holdings EXCEPT !["caller"] = @ \ {p}]
    BY <1>4, <2>5
  <2>7. {p} \in SUBSET Pages /\ {p} \subseteq Holdings["caller"]
    BY <1>4, <2>2
  <2>8. QED
    BY <1>2, <1>4, <2>4, <2>6, <2>7
<1>10. ASSUME UNCHANGED <<available_pages, status, pages, copies>>
       PROVE  UNCHANGED <<Range(available_pages), Holdings>>
  BY <1>10 DEF Holdings, Owned, Live
<1>11. QED
  BY <1>5, <1>6, <1>7, <1>8, <1>9, <1>10
     DEF Next, Acquire, extend_allocation, publish_pages_for_tokens, release_pages,
         AcquireFails, ExtendInPlace, ExtendFails, ReleaseAgain, CopyPageFails, vars

\* BasePagedAttentionCache implements PageLedger: seen from outside, every call
\* either moves some free pages to one holder, or pages of one holder back, or
\* changes nothing.
THEOREM LedgerRefinement == Spec => ImplementsLedger
<1>1. Init => Ledger!LedgerInit
  BY InitiallyAllFree DEF Init, Ledger!LedgerInit, Holdings, Holders, Owned, Live
<1>2. QED
  BY <1>1, TypeCorrect, Conservation, LedgerStep, PTL
     DEF Spec, ImplementsLedger, Ledger!LedgerSpec

----------------------------------------------------------------------------
(***************************************************************************)
(* TrieCache.  The invariant: attached nodes, which have not been evicted, *)
(* are those a lookup may reach, every live allocation holds one of them   *)
(* (or the root) and is counted by it, and no page is in two of three      *)
(* places: the free list, an attached node, the unpublished part of an     *)
(* allocation.                                                             *)
(***************************************************************************)

\* The keys of the children dicts, the nodes, and the dicts.
Keys == {BlockAt(s, i) : s \in Seq(Token), i \in Int} \cup {NoBlock}
NodeRec == [block : Keys, page : Pool!Pages \cup {None}, parent : Nodes \cup {None}, ref : Int]
Dicts == UNION {[D -> Nodes] : D \in SUBSET Keys}
AllocRec == [live : BOOLEAN, tokens : Seq(Token), last : Nodes, pages : Seq(Pool!Pages),
             published : Nat, same : BOOLEAN]

LEMMA DictOf ==
  ASSUME NEW f, f \in Dicts
  PROVE  f = [x \in DOMAIN f |-> f[x]] /\ DOMAIN f \subseteq Keys /\ \A x \in DOMAIN f : f[x] \in Nodes
BY DEF Dicts

LEMMA DictIs ==
  ASSUME NEW D, D \subseteq Keys, NEW f \in [D -> Nodes]
  PROVE  f \in Dicts
BY DEF Dicts

LEMMA TrieNumbers == /\ Root = 0 /\ None = -1 /\ MaxNodes \in Nat /\ Nodes = 0 .. MaxNodes
                     /\ Root \in Nodes /\ None \notin Nodes /\ PoolPages \in Nat
                     /\ None \notin Pool!Pages
BY TrieCacheAssumption DEF Root, None, Nodes, Pool!Pages

\* Among the first k nodes, those that have a parent.
AttachedIn(nodes, k) == {n \in 1 .. k : nodes[n].parent # None}

\* A dict refers to a node only from the parent of the node, under its block.
LinksIn(nodes, kids, k) ==
    \A m \in Nodes : \A b \in DOMAIN kids[m] :
        /\ kids[m][b] \in 1 .. k
        /\ nodes[kids[m][b]].parent = m /\ nodes[kids[m][b]].block = b

ParentsIn(nodes, k) == \A n \in 1 .. k : nodes[n].parent \in (0 .. k) \cup {None}

TrieTypes ==
    /\ free_list \in Seq(Pool!Pages) /\ node \in [Nodes -> NodeRec] /\ children \in [Nodes -> Dicts]
    /\ born \in 0 .. MaxNodes /\ leaves \subseteq 1 .. born /\ lru \in Seq(Nodes)
    /\ alloc \in [TrieAllocs -> AllocRec] /\ \A a \in TrieAllocs : alloc[a].last \in 0 .. born

Attached == AttachedIn(node, born)

\* Every live allocation is counted by a node that has not been evicted.
RefsSound == \A n \in Nodes : node[n].ref >= Cardinality(NodeHolders(n))
HeldAttached == \A a \in TrieAllocs : alloc[a].live => alloc[a].last \in Attached \cup {Root}

\* Where pages are: free, of one attached node, or in one allocation.
NodesApart(nodes, k) ==
    /\ \A n \in AttachedIn(nodes, k) : nodes[n].page \in Pool!Pages
    /\ \A m, n \in AttachedIn(nodes, k) : nodes[m].page = nodes[n].page => m = n
FreeApart(free, nodes, k) ==
    /\ \A i, j \in DOMAIN free : free[i] = free[j] => i = j
    /\ \A n \in AttachedIn(nodes, k) : \A i \in DOMAIN free : free[i] # nodes[n].page

\* The places of the pages that an allocation alone writes to.
Unpublished(al) == {i \in DOMAIN al.pages : al.live /\ i > al.published}
PrivateApart ==
    \A a \in TrieAllocs : \A i \in Unpublished(alloc[a]) :
        /\ \A j \in DOMAIN free_list : free_list[j] # alloc[a].pages[i]
        /\ \A n \in Attached : node[n].page # alloc[a].pages[i]
        /\ \A c \in TrieAllocs : \A j \in Unpublished(alloc[c]) :
              alloc[a].pages[i] = alloc[c].pages[j] => a = c /\ i = j

TrieInv ==
    /\ TrieTypes /\ ParentsIn(node, born) /\ LinksIn(node, children, born)
    /\ RefsSound /\ HeldAttached
    /\ NodesApart(node, born) /\ FreeApart(free_list, node, born) /\ PrivateApart

----------------------------------------------------------------------------
(***************************************************************************)
(* Lists, and the oldest entry of a heap.                                  *)
(***************************************************************************)

LEMMA RemoveItems ==
  ASSUME NEW S, NEW s \in Seq(S), NEW i \in DOMAIN s
  PROVE  /\ RemoveAt(s, i) \in Seq(S)
         /\ \A k \in DOMAIN RemoveAt(s, i) : \E j \in DOMAIN s : RemoveAt(s, i)[k] = s[j]
<1>1. Len(s) \in Nat /\ DOMAIN s = 1 .. Len(s) /\ i \in 1 .. Len(s)
  OBVIOUS
<1>2. PICK t \in Seq(S) : /\ t = SubSeq(s, 1, i - 1)
                          /\ \A k \in DOMAIN t : k \in DOMAIN s /\ t[k] = s[k]
  <2>1. SubSeq(s, 1, i - 1) \in Seq(S)
    BY <1>1
  <2>2. \A k \in DOMAIN SubSeq(s, 1, i - 1) : k \in DOMAIN s /\ SubSeq(s, 1, i - 1)[k] = s[k]
    BY <1>1
  <2>3. QED BY <2>1, <2>2
<1>3. PICK u \in Seq(S) : /\ u = SubSeq(s, i + 1, Len(s))
                          /\ \A k \in DOMAIN u : k + i \in DOMAIN s /\ u[k] = s[k + i]
  <2>1. SubSeq(s, i + 1, Len(s)) \in Seq(S)
    BY <1>1
  <2>2. \A k \in DOMAIN SubSeq(s, i + 1, Len(s)) :
           k + i \in DOMAIN s /\ SubSeq(s, i + 1, Len(s))[k] = s[k + i]
    BY <1>1
  <2>3. QED BY <2>1, <2>2
<1>4. RemoveAt(s, i) = t \o u
  BY <1>2, <1>3 DEF RemoveAt
<1>5. \A k \in DOMAIN (t \o u) : \/ k \in DOMAIN t /\ (t \o u)[k] = t[k]
                                 \/ k - Len(t) \in DOMAIN u /\ (t \o u)[k] = u[k - Len(t)]
  <2>1. ASSUME NEW k \in DOMAIN (t \o u), k \in DOMAIN t
        PROVE  (t \o u)[k] = t[k]
    BY <2>1, ConcatItems
  <2>2. ASSUME NEW k \in DOMAIN (t \o u), k \notin DOMAIN t
        PROVE  k - Len(t) \in DOMAIN u /\ (t \o u)[k] = u[k - Len(t)]
    BY <2>2, ConcatItems
  <2>3. QED BY <2>1, <2>2
<1>6. t \o u \in Seq(S)
  BY ConcatItems
<1>7. ASSUME NEW k \in DOMAIN (t \o u) PROVE \E j \in DOMAIN s : (t \o u)[k] = s[j]
  BY <1>2, <1>3, <1>5, <1>7
<1>8. QED BY <1>4, <1>6, <1>7

LEMMA PositionNat ==
  ASSUME NEW order \in Seq(Nodes), NEW x
  PROVE  Position(order, x) \in Nat
<1>1. PICK I : I = {k \in 1 .. Len(order) : order[k] = x}
  OBVIOUS
<1>2. I \in SUBSET Nat
  BY <1>1
<1>3. I # {} => Min(I) \in Nat
  <2>1. SUFFICES ASSUME I # {} PROVE Min(I) \in Nat
    OBVIOUS
  <2>2. \E m \in I : \A t \in I : m <= t
    BY <1>2, <2>1, LeastNat
  <2>3. Min(I) \in I
    BY <2>2 DEF Min
  <2>4. QED BY <1>2, <2>3
<1>4. Position(order, x) = IF I # {} THEN Min(I) ELSE 0
  BY <1>1 DEF SelectInSeq, Position
<1>5. QED BY <1>3, <1>4

LEMMA OldestExists ==
  ASSUME NEW order \in Seq(Nodes), NEW heap \in Seq(Nodes), heap # << >>
  PROVE  OldestEntry(heap, order) \in DOMAIN heap
<1>1. PICK pos : pos = [i \in DOMAIN heap |-> Position(order, heap[i])]
  OBVIOUS
<1>2. \A i \in DOMAIN heap : pos[i] = Position(order, heap[i]) /\ pos[i] \in Nat
  BY <1>1, PositionNat
<1>3. DOMAIN heap \in SUBSET Nat /\ 1 \in DOMAIN heap
  OBVIOUS
<1>4. PICK m \in {pos[i] : i \in DOMAIN heap} : \A t \in {pos[i] : i \in DOMAIN heap} : m <= t
  <2>1. {pos[i] : i \in DOMAIN heap} \in SUBSET Nat /\ {pos[i] : i \in DOMAIN heap} # {}
    BY <1>2, <1>3
  <2>2. QED BY <2>1, LeastNat
<1>5. PICK i \in {k \in DOMAIN heap : pos[k] = m} : \A k \in {k \in DOMAIN heap : pos[k] = m} : i <= k
  <2>1. {k \in DOMAIN heap : pos[k] = m} \in SUBSET Nat /\ {k \in DOMAIN heap : pos[k] = m} # {}
    BY <1>3, <1>4
  <2>2. QED BY <2>1, LeastNat
<1>6. \A j \in DOMAIN heap : pos[i] <= pos[j] /\ (heap[i] = heap[j] => i <= j)
  <2>1. ASSUME NEW j \in DOMAIN heap, heap[i] = heap[j] PROVE i <= j
    <3>1. pos[i] = pos[j]
      BY <1>2, <1>5, <2>1
    <3>2. QED BY <1>5, <3>1
  <2>2. QED BY <1>4, <1>5, <2>1
<1>7. \E k \in DOMAIN heap :
         \A j \in DOMAIN heap : /\ Position(order, heap[k])
                                      <= Position(order, heap[j])
                                /\ heap[k] = heap[j] => k <= j
  BY <1>2, <1>5, <1>6
<1>8. QED BY <1>7 DEF OldestEntry

----------------------------------------------------------------------------
(***************************************************************************)
(* The walk down the trie, the access order and what a lookup can reach.   *)
(***************************************************************************)

\* One step of the walk.
WalkStep(toks, i, path) ==
    LET cur == IF path = << >> THEN Root ELSE Last(path)
        b == BlockAt(toks, i)
    IN  IF Len(path) = i - 1 /\ b \in DOMAIN children[cur]
        THEN Append(path, children[cur][b])
        ELSE path

LEMMA WalkStepIn ==
  ASSUME TrieTypes, LinksIn(node, children, born), NEW toks, NEW i \in Nat,
         NEW path \in Seq(Attached)
  PROVE  /\ WalkStep(toks, i, path) \in Seq(Attached)
         /\ Len(path) < i => Len(WalkStep(toks, i, path)) <= i
<1>0. born \in Nat /\ 1 .. born \subseteq Nodes /\ Attached \subseteq Nodes /\ Root \in Nodes
  BY TrieNumbers DEF TrieTypes, Attached, AttachedIn
<1>1. Len(path) \in Nat /\ DOMAIN path = 1 .. Len(path)
  OBVIOUS
<1>2. PICK cur : cur = IF path = << >> THEN Root ELSE Last(path)
  OBVIOUS
<1>3. cur \in Nodes
  BY <1>0, <1>1, <1>2 DEF Last
<1>4. PICK b : b = BlockAt(toks, i)
  OBVIOUS
<1>5. b \in DOMAIN children[cur] => children[cur][b] \in Attached
  <2>1. SUFFICES ASSUME b \in DOMAIN children[cur] PROVE children[cur][b] \in Attached
    OBVIOUS
  <2>2. children[cur][b] \in 1 .. born /\ node[children[cur][b]].parent = cur
    BY <1>3, <2>1 DEF LinksIn
  <2>3. cur # None
    BY <1>3, TrieNumbers
  <2>4. QED BY <2>2, <2>3 DEF Attached, AttachedIn
<1>6. WalkStep(toks, i, path) = IF Len(path) = i - 1 /\ b \in DOMAIN children[cur]
                                  THEN Append(path, children[cur][b]) ELSE path
  BY <1>2, <1>4 DEF WalkStep
<1>7. CASE Len(path) = i - 1 /\ b \in DOMAIN children[cur]
  <2>1. PICK x \in Attached : x = children[cur][b]
    BY <1>5, <1>7
  <2>2. WalkStep(toks, i, path) = Append(path, x)
    BY <1>6, <1>7, <2>1
  <2>3. QED BY <1>1, <1>7, <2>2, AppendItems
<1>8. CASE ~(Len(path) = i - 1 /\ b \in DOMAIN children[cur])
  BY <1>1, <1>6, <1>8
<1>9. QED BY <1>7, <1>8

\* What holds of no path at all, and after each step of the walk if before it,
\* holds of the path that _match finds.
LEMMA WalkHolds ==
  ASSUME TrieTypes, LinksIn(node, children, born), NEW toks \in Seq(Token), NEW T,
         <<0, << >>>> \in T,
         \A i \in 1 .. FullBlocks(toks) : \A path \in Seq(Attached) :
            <<i - 1, path>> \in T => <<i, WalkStep(toks, i, path)>> \in T
  PROVE  /\ MatchedPath(toks) \in Seq(Attached) /\ FullBlocks(toks) \in Nat
         /\ <<FullBlocks(toks), MatchedPath(toks)>> \in T
<1> DEFINE n == FullBlocks(toks)
           S == Seq(Attached)
           a == << >>
           Def(f) == [i \in 0 .. n |-> IF i = 0 THEN a ELSE WalkStep(toks, i, f[i - 1])]
           G == [p \in (0 .. n) \X S |-> WalkStep(toks, p[1], p[2])]
           B == CHOOSE f : f = Def(f)
<1>1. MatchedPath(toks) = B[n]
  BY DEF MatchedPath, WalkStep
<1>2. n \in Nat /\ a \in S
  BY TrieCacheAssumption DEF FullBlocks
<1>3. \A i \in Nat : \A s \in S : WalkStep(toks, i, s) \in S
  BY WalkStepIn
<1> HIDE DEF n, a
<1>4. G \in [(0 .. n) \X S -> S]
  <2> HIDE DEF S
  <2>1. \A i \in 0 .. n : i \in Nat
    BY <1>2
  <2>2. QED BY <1>3, <2>1
<1>5. PICK f \in [0 .. n -> S] : f[0] = a /\ \A k \in 1 .. n : f[k] = G[<<k, f[k - 1]>>]
  <2> HIDE DEF G, S
  <2>1. PICK f : Iterates(f, n, S, a, G)
    BY <1>2, <1>4, Recursion
  <2>2. QED BY <2>1 DEF Iterates
<1>6. \A k \in 1 .. n : f[k] = WalkStep(toks, k, f[k - 1])
  <2> SUFFICES ASSUME NEW k \in 1 .. n PROVE f[k] = WalkStep(toks, k, f[k - 1])
    OBVIOUS
  <2>1. k \in 0 .. n /\ k - 1 \in 0 .. n
    BY <1>2
  <2>2. <<k, f[k - 1]>> \in (0 .. n) \X S
    BY <2>1
  <2>3. QED BY <1>5, <2>2
<1>7. f = Def(f)
  <2>1. \A k \in 0 .. n : f[k] = IF k = 0 THEN a ELSE WalkStep(toks, k, f[k - 1])
    BY <1>2, <1>5, <1>6
  <2>2. f = [k \in 0 .. n |-> f[k]]
    OBVIOUS
  <2>3. QED BY <2>1, <2>2
<1>8. B = Def(B)
  <2> HIDE DEF Def
  <2>1. QED BY <1>7
<1> HIDE DEF B
<1>9. B[0] = a /\ \A k \in 1 .. n : B[k] = WalkStep(toks, k, B[k - 1])
  <2>1. \A k \in 0 .. n : B[k] = IF k = 0 THEN a ELSE WalkStep(toks, k, B[k - 1])
    BY <1>8
  <2> HIDE DEF Def
  <2>2. 0 \in 0 .. n /\ \A k \in 1 .. n : k \in 0 .. n /\ k # 0
    BY <1>2
  <2>3. QED BY <2>1, <2>2
<1> DEFINE U == {k \in 0 .. n : B[k] \in S /\ <<k, B[k]>> \in T}
<1>10. 0 \in U
  <2>1. 0 \in 0 .. n /\ B[0] \in S /\ <<0, B[0]>> \in T
    BY <1>2, <1>9 DEF a
  <2>2. QED BY <2>1
<1>11. ASSUME NEW k \in 0 .. n, k \in U, k # n PROVE k + 1 \in U
  <2>1. /\ k + 1 \in 1 .. n /\ k + 1 \in Nat /\ (k + 1) - 1 = k
        /\ B[k] \in S /\ <<(k + 1) - 1, B[k]>> \in T
    BY <1>2, <1>11
  <2>2. B[k + 1] = WalkStep(toks, k + 1, B[k])
    BY <1>9, <2>1
  <2>3. <<k + 1, WalkStep(toks, k + 1, B[k])>> \in T
    BY <2>1 DEF n
  <2> HIDE DEF S
  <2>4. B[k + 1] \in S
    BY <1>3, <2>1, <2>2
  <2>5. <<k + 1, B[k + 1]>> \in T /\ k + 1 \in 0 .. n
    BY <1>2, <2>1, <2>2, <2>3
  <2>6. QED BY <2>4, <2>5
<1>12. n \in U
  <2>1. 0 .. n \subseteq U
    <3> HIDE DEF U
    <3>1. QED BY <1>2, <1>10, <1>11, UpTo
  <2>2. QED BY <1>2, <2>1
<1>13. QED BY <1>1, <1>2, <1>12 DEF n

\* _match finds attached nodes, at most one per full block.
LEMMA PathAttached ==
  ASSUME TrieTypes, LinksIn(node, children, born), NEW toks \in Seq(Token)
  PROVE  /\ MatchedPath(toks) \in Seq(Attached)
         /\ Len(MatchedPath(toks)) <= FullBlocks(toks)
<1> DEFINE Short(i, path) == Len(path) <= i
           T == {e \in Nat \X Seq(Attached) : Short(e[1], e[2])}
<1>1. <<0, << >>>> \in T
  <2>0. << >> \in Seq(Attached) /\ Len(<< >>) = 0
    OBVIOUS
  <2>1. PICK q \in Seq(Attached) : q = << >> /\ Len(q) = 0
    BY <2>0
  <2>2. Short(0, q)
    BY <2>1
  <2> HIDE DEF Short
  <2>3. <<0, q>> \in T
    BY <2>2
  <2>4. QED BY <2>1, <2>3
<1>2. ASSUME NEW i \in 1 .. FullBlocks(toks), NEW path \in Seq(Attached), <<i - 1, path>> \in T
      PROVE  <<i, WalkStep(toks, i, path)>> \in T
  <2>1. i \in Nat /\ Len(path) < i
    BY <1>2
  <2>2. WalkStep(toks, i, path) \in Seq(Attached) /\ Len(WalkStep(toks, i, path)) <= i
    BY <2>1, WalkStepIn
  <2>3. QED BY <2>1, <2>2
<1> HIDE DEF T
<1>3. MatchedPath(toks) \in Seq(Attached) /\ <<FullBlocks(toks), MatchedPath(toks)>> \in T
  BY <1>1, <1>2, WalkHolds
<1>4. QED BY <1>3 DEF T

\* The nodes of an access order stay nodes when it is touched.
LEMMA TouchNodes ==
  ASSUME NEW order \in Seq(Nodes), NEW path \in Seq(Nodes)
  PROVE  Touch(order, path) \in Seq(Nodes)
<1> DEFINE n == Len(order)
           S == Seq(Nodes)
           a == << >>
           Step(i, s) == IF order[i] \in Range(path) THEN s ELSE Append(s, order[i])
           Def(f) == [i \in 0 .. n |-> IF i = 0 THEN a
                                       ELSE IF order[i] \in Range(path) THEN f[i - 1]
                                       ELSE Append(f[i - 1], order[i])]
           G == [p \in (0 .. n) \X S |-> IF p[1] = 0 THEN a ELSE Step(p[1], p[2])]
           B == CHOOSE f : f = Def(f)
<1>1. Touch(order, path) = B[n] \o path
  BY DEF Touch
<1>2. n \in Nat /\ a \in S
  OBVIOUS
<1>3. \A i \in 1 .. n : \A s \in S : Step(i, s) \in S
  <2>1. \A i \in 1 .. n : order[i] \in Nodes
    OBVIOUS
  <2>2. QED BY <2>1
<1> HIDE DEF n, a
<1>4. G \in [(0 .. n) \X S -> S]
  <2> HIDE DEF S, Step
  <2>1. \A p \in (0 .. n) \X S : p[1] # 0 => p[1] \in 1 .. n
    BY <1>2
  <2>2. QED BY <1>2, <1>3, <2>1
<1>5. PICK f \in [0 .. n -> S] : f[0] = a /\ \A k \in 1 .. n : f[k] = G[<<k, f[k - 1]>>]
  <2> HIDE DEF G, S
  <2>1. PICK f : Iterates(f, n, S, a, G)
    BY <1>2, <1>4, Recursion
  <2>2. QED BY <2>1 DEF Iterates
<1>6. \A k \in 1 .. n : f[k] = Step(k, f[k - 1])
  <2> SUFFICES ASSUME NEW k \in 1 .. n PROVE f[k] = Step(k, f[k - 1])
    OBVIOUS
  <2>1. k \in 0 .. n /\ k - 1 \in 0 .. n /\ k # 0
    BY <1>2
  <2>2. <<k, f[k - 1]>> \in (0 .. n) \X S
    BY <2>1
  <2> HIDE DEF Step
  <2>3. QED BY <1>5, <2>1, <2>2
<1>7. f = Def(f)
  <2>1. \A k \in 0 .. n : f[k] = IF k = 0 THEN a ELSE Step(k, f[k - 1])
    <3> HIDE DEF Step
    <3>1. QED BY <1>2, <1>5, <1>6
  <2>2. f = [k \in 0 .. n |-> f[k]]
    OBVIOUS
  <2>3. QED BY <2>1, <2>2
<1>8. B = Def(B)
  <2> HIDE DEF Def
  <2>1. QED BY <1>7
<1> HIDE DEF B
<1>9. B[0] = a /\ \A k \in 1 .. n : B[k] = Step(k, B[k - 1])
  <2>1. \A k \in 0 .. n : B[k] = IF k = 0 THEN a ELSE Step(k, B[k - 1])
    BY <1>8
  <2> HIDE DEF Def, Step
  <2>2. 0 \in 0 .. n /\ \A k \in 1 .. n : k \in 0 .. n /\ k # 0
    BY <1>2
  <2>3. QED BY <2>1, <2>2
<1> DEFINE T == {k \in 0 .. n : B[k] \in S}
<1>10. 0 \in T
  <2>1. 0 \in 0 .. n /\ B[0] \in S
    BY <1>2, <1>9
  <2>2. QED BY <2>1
<1>11. ASSUME NEW k \in 0 .. n, k \in T, k # n PROVE k + 1 \in T
  <2>1. k + 1 \in 1 .. n /\ k + 1 \in 0 .. n /\ (k + 1) - 1 = k /\ B[k] \in S
    BY <1>2, <1>11
  <2> HIDE DEF S, Step
  <2>2. B[k + 1] = Step(k + 1, B[k])
    BY <1>9, <2>1
  <2>3. B[k + 1] \in S
    BY <1>3, <2>1, <2>2
  <2>4. QED BY <2>1, <2>3
<1>12. B[n] \in S
  <2>1. 0 .. n \subseteq T
    <3> HIDE DEF T
    <3>1. QED BY <1>2, <1>10, <1>11, UpTo
  <2>2. QED BY <1>2, <2>1
<1>13. QED BY <1>1, <1>12, ConcatItems

\* A set of nodes in which each is linked from another, but the root.
Rooted(s) ==
    Root \in s /\ \A n \in s \ {Root} : \E m \in s : \E b \in DOMAIN children[m] : children[m][b] = n

\* What _match can find is attached, and linked from what it can find.
LEMMA ReachableAttached ==
  ASSUME TrieTypes, LinksIn(node, children, born)
  PROVE  Reachable \subseteq Attached /\ Rooted(Reachable \cup {Root})
<1> DEFINE n == MaxNodes
           S == {s \in SUBSET (Attached \cup {Root}) : Rooted(s)}
           a == {Root}
           Step(s) == s \cup UNION {Range(children[m]) : m \in s}
           Def(f) == [i \in 0 .. n |-> IF i = 0 THEN a ELSE Step(f[i - 1])]
           G == [p \in (0 .. n) \X S |-> Step(p[2])]
           B == CHOOSE f : f = Def(f)
<1>1. Reachable = B[n] \ {Root}
  BY DEF Reachable
<1>2. n \in Nat /\ a \in S
  BY TrieCacheAssumption DEF Rooted
<1>3. \A s \in S : Step(s) \in S
  <2>0. Attached \cup {Root} \subseteq Nodes
    BY TrieNumbers DEF TrieTypes, Attached, AttachedIn
  <2>1. ASSUME NEW m \in Nodes PROVE Range(children[m]) \subseteq Attached
    <3>1. ASSUME NEW b \in DOMAIN children[m] PROVE children[m][b] \in Attached
      <4>1. children[m][b] \in 1 .. born /\ node[children[m][b]].parent = m
        BY DEF LinksIn
      <4>2. m # None
        BY TrieNumbers
      <4>3. QED BY <4>1, <4>2 DEF Attached, AttachedIn
    <3>2. QED BY <3>1 DEF Range
  <2>2. ASSUME NEW s \in S PROVE Step(s) \subseteq Attached \cup {Root}
    BY <2>0, <2>1
  <2>3. ASSUME NEW s \in S PROVE Rooted(Step(s))
    <3>1. Rooted(s) /\ s \subseteq Step(s)
      OBVIOUS
    <3>2. ASSUME NEW x \in Step(s), x # Root
          PROVE  \E m \in s : \E b \in DOMAIN children[m] : children[m][b] = x
      <4>1. CASE x \in s
        BY <3>1, <3>2, <4>1 DEF Rooted
      <4>2. CASE x \notin s
        BY <3>2, <4>2 DEF Range
      <4>3. QED BY <4>1, <4>2
    <3> HIDE DEF Step
    <3>3. QED BY <3>1, <3>2 DEF Rooted
  <2> HIDE DEF Step
  <2>4. QED BY <2>2, <2>3
<1> HIDE DEF n, a
<1>4. G \in [(0 .. n) \X S -> S]
  <2> HIDE DEF S, Step
  <2>1. QED BY <1>3
<1>5. PICK f \in [0 .. n -> S] : f[0] = a /\ \A k \in 1 .. n : f[k] = G[<<k, f[k - 1]>>]
  <2> HIDE DEF G, S
  <2>1. PICK f : Iterates(f, n, S, a, G)
    BY <1>2, <1>4, Recursion
  <2>2. QED BY <2>1 DEF Iterates
<1>6. \A k \in 1 .. n : f[k] = Step(f[k - 1])
  <2> SUFFICES ASSUME NEW k \in 1 .. n PROVE f[k] = Step(f[k - 1])
    OBVIOUS
  <2>1. k \in 0 .. n /\ k - 1 \in 0 .. n
    BY <1>2
  <2> HIDE DEF Step, S
  <2>2. <<k, f[k - 1]>> \in (0 .. n) \X S
    BY <2>1
  <2>3. QED BY <1>5, <2>2
<1>7. f = Def(f)
  <2> HIDE DEF Step, S
  <2>1. \A k \in 0 .. n : f[k] = IF k = 0 THEN a ELSE Step(f[k - 1])
    BY <1>2, <1>5, <1>6
  <2>2. f = [k \in 0 .. n |-> f[k]]
    OBVIOUS
  <2>3. QED BY <2>1, <2>2
<1>8. B = Def(B)
  <2> HIDE DEF Def
  <2>1. QED BY <1>7
<1> HIDE DEF B, S, Step
<1>9. B[0] = a /\ \A k \in 1 .. n : B[k] = Step(B[k - 1])
  BY <1>2, <1>8
<1> DEFINE T == {k \in 0 .. n : B[k] \in S}
<1>10. 0 \in T
  <2>1. 0 \in 0 .. n /\ B[0] \in S
    BY <1>2, <1>9
  <2>2. QED BY <2>1
<1>11. ASSUME NEW k \in 0 .. n, k \in T, k # n PROVE k + 1 \in T
  <2>1. k + 1 \in 1 .. n /\ k + 1 \in 0 .. n /\ (k + 1) - 1 = k /\ B[k] \in S
    BY <1>2, <1>11
  <2>2. B[k + 1] = Step(B[k])
    BY <1>9, <2>1
  <2>3. B[k + 1] \in S
    BY <1>3, <2>1, <2>2
  <2>4. QED BY <2>1, <2>3
<1>12. B[n] \in S
  <2>1. 0 .. n \subseteq T
    <3> HIDE DEF T
    <3>1. QED BY <1>2, <1>10, <1>11, UpTo
  <2>2. QED BY <1>2, <2>1
<1>13. Reachable \cup {Root} = B[n]
  BY <1>1, <1>12 DEF S, Rooted
<1>14. QED BY <1>1, <1>12, <1>13 DEF S

----------------------------------------------------------------------------
(***************************************************************************)
(* Eviction.                                                               *)
(***************************************************************************)

\* The states of the loop of _evict_pages.
LoopRec == [heap : Seq(Nodes), leaves : SUBSET Nodes, node : [Nodes -> NodeRec],
            children : [Nodes -> Dicts], evicted : Seq(Pool!Pages \cup {None}),
            error : {"ok", "KeyError", "AttributeError"}]

\* What no part of the loop breaks: only unused nodes are unlinked, and nothing
\* else of a node changes.
OnlyUnlinks(after, before) ==
    \A n \in Nodes : /\ after[n].block = before[n].block /\ after[n].page = before[n].page
                     /\ after[n].ref = before[n].ref
                     /\ \/ after[n].parent = before[n].parent
                        \/ after[n].parent = None /\ before[n].ref <= 0

Evicting(st, nodes) ==
    /\ st \in LoopRec
    /\ OnlyUnlinks(st.node, nodes)
    /\ \A i \in DOMAIN st.heap : st.heap[i] \in 1 .. born /\ nodes[st.heap[i]].ref <= 0
    /\ st.leaves \subseteq 1 .. born
    /\ LinksIn(st.node, st.children, born)

\* The pages evicted are of different nodes, which were attached and no longer are.
EvictedApart(st, nodes) ==
    /\ \A i \in DOMAIN st.evicted :
          \E n \in AttachedIn(nodes, born) : st.node[n].parent = None /\ st.evicted[i] = nodes[n].page
    /\ \A i, j \in DOMAIN st.evicted : st.evicted[i] = st.evicted[j] => i = j

LEMMA PoppedKeeps ==
  ASSUME NEW nodes, NEW st, Evicting(st, nodes), NEW i \in DOMAIN st.heap
  PROVE  /\ Evicting(Popped(st, i), nodes)
         /\ Popped(st, i).node = st.node /\ Popped(st, i).error = st.error
         /\ Popped(st, i).evicted = Append(st.evicted, st.node[st.heap[i]].page)
<1>1. st \in LoopRec /\ st.heap \in Seq(Nodes)
  BY DEF Evicting, LoopRec
<1>2. PICK h \in Seq(Nodes) : h = RemoveAt(st.heap, i) /\ \A k \in DOMAIN h : \E j \in DOMAIN st.heap : h[k] = st.heap[j]
  BY <1>1, RemoveItems
<1>3. st.heap[i] \in Nodes /\ st.node[st.heap[i]].page \in Pool!Pages \cup {None}
  BY <1>1 DEF LoopRec, NodeRec
<1>4. PICK e \in Seq(Pool!Pages \cup {None}) : e = Append(st.evicted, st.node[st.heap[i]].page)
  BY <1>1, <1>3, AppendItems DEF LoopRec
<1>5. PICK s : s = Popped(st, i)
  OBVIOUS
<1>6. /\ s \in LoopRec /\ s.heap = h /\ s.node = st.node /\ s.children = st.children
      /\ s.leaves = st.leaves /\ s.error = st.error /\ s.evicted = e
  BY <1>1, <1>2, <1>4, <1>5 DEF Popped, LoopRec
<1>7. Evicting(s, nodes)
  BY <1>2, <1>6 DEF Evicting
<1>8. QED BY <1>4, <1>5, <1>6, <1>7

LEMMA UnlinkedKeeps ==
  ASSUME TrieTypes, NEW nodes, NEW st, Evicting(st, nodes), NEW leaf \in Nodes, nodes[leaf].ref <= 0
  PROVE  /\ Evicting(Unlinked(st, leaf), nodes)
         /\ Unlinked(st, leaf).evicted = st.evicted
         /\ Unlinked(st, leaf).error = "ok" =>
               /\ st.error = "ok"
               /\ st.node[leaf].parent # None => Unlinked(st, leaf).node = [st.node EXCEPT ![leaf].parent = None]
<1> DEFINE parent == st.node[leaf].parent
           b == st.node[leaf].block
<1>1. st \in LoopRec /\ st.node \in [Nodes -> NodeRec] /\ st.children \in [Nodes -> Dicts]
  BY DEF Evicting, LoopRec
<1>2. parent \in Nodes \cup {None} /\ st.node[leaf] \in NodeRec
  BY <1>1 DEF NodeRec
<1>3. CASE parent = None
  BY <1>3 DEF Unlinked
<1>4. CASE parent # None /\ b \notin DOMAIN st.children[parent]
  <2>1. PICK s : s = Unlinked(st, leaf)
    OBVIOUS
  <2>2. /\ s \in LoopRec /\ s.error = "KeyError" /\ s.node = st.node /\ s.children = st.children
        /\ s.leaves = st.leaves /\ s.heap = st.heap /\ s.evicted = st.evicted
    BY <1>1, <1>4, <2>1 DEF Unlinked, LoopRec
  <2>3. Evicting(s, nodes)
    BY <2>2 DEF Evicting
  <2>4. QED BY <2>1, <2>2, <2>3
<1>5. CASE parent # None /\ b \in DOMAIN st.children[parent]
  <2>1. PICK s : s = Unlinked(st, leaf)
    OBVIOUS
  <2>2. PICK kids : kids = [st.children EXCEPT ![parent] = [x \in DOMAIN st.children[parent] \ {b} |-> st.children[parent][x]]]
    OBVIOUS
  <2>3. PICK nds : nds = [st.node EXCEPT ![leaf].parent = None]
    OBVIOUS
  <2>4. /\ s = [st EXCEPT !.children = kids, !.node = nds]
    BY <1>1, <1>5, <2>1, <2>2, <2>3 DEF Unlinked, Restrict, LoopRec
  <2>5. nds \in [Nodes -> NodeRec] /\ \A n \in Nodes : nds[n] = [st.node[n] EXCEPT !.parent = IF n = leaf THEN None ELSE @]
    <3>1. [st.node[leaf] EXCEPT !.parent = None] \in NodeRec
      BY <1>2 DEF NodeRec
    <3>2. nds = [st.node EXCEPT ![leaf] = [st.node[leaf] EXCEPT !.parent = None]]
      BY <2>3
    <3>3. \A n \in Nodes : n # leaf => nds[n] = st.node[n] /\ st.node[n] \in NodeRec
      BY <1>1, <3>2
    <3>4. \A n \in Nodes : n # leaf => nds[n] = [st.node[n] EXCEPT !.parent = st.node[n].parent]
      BY <3>3 DEF NodeRec
    <3>5. QED BY <1>1, <3>1, <3>2, <3>4
  <2>6. /\ kids \in [Nodes -> Dicts]
        /\ \A m \in Nodes : \A x \in DOMAIN kids[m] :
              /\ x \in DOMAIN st.children[m] /\ kids[m][x] = st.children[m][x]
              /\ ~(m = parent /\ x = b)
    <3>1. PICK d : d = [x \in DOMAIN st.children[parent] \ {b} |-> st.children[parent][x]]
      OBVIOUS
    <3>2. parent \in Nodes /\ st.children[parent] \in Dicts
      BY <1>1, <1>2, <1>5
    <3>3. d \in Dicts
      <4>1. /\ DOMAIN st.children[parent] \subseteq Keys
            /\ \A x \in DOMAIN st.children[parent] : st.children[parent][x] \in Nodes
        BY <3>2, DictOf
      <4>2. d \in [DOMAIN st.children[parent] \ {b} -> Nodes]
        BY <3>1, <4>1
      <4>3. DOMAIN st.children[parent] \ {b} \subseteq Keys
        BY <4>1
      <4>4. QED BY <4>2, <4>3, DictIs
    <3>4. kids = [st.children EXCEPT ![parent] = d]
      BY <2>2, <3>1
    <3>5. kids \in [Nodes -> Dicts] /\ \A m \in Nodes : kids[m] = IF m = parent THEN d ELSE st.children[m]
      BY <1>1, <3>2, <3>3, <3>4
    <3>6. DOMAIN d = DOMAIN st.children[parent] \ {b} /\ \A x \in DOMAIN d : d[x] = st.children[parent][x]
      BY <3>1
    <3>7. QED BY <3>2, <3>5, <3>6
  <2>7. /\ s \in LoopRec /\ s.error = st.error /\ s.node = nds /\ s.children = kids
        /\ s.leaves = st.leaves /\ s.heap = st.heap /\ s.evicted = st.evicted
    BY <1>1, <2>4, <2>5, <2>6 DEF LoopRec
  <2>8. \A n \in Nodes : /\ nds[n].block = st.node[n].block /\ nds[n].page = st.node[n].page
                         /\ nds[n].ref = st.node[n].ref
                         /\ nds[n].parent = IF n = leaf THEN None ELSE st.node[n].parent
    <3>1. \A n \in Nodes : st.node[n] \in NodeRec
      BY <1>1
    <3>2. QED BY <2>5, <3>1 DEF NodeRec
  <2>9. LinksIn(nds, kids, born)
    <3> SUFFICES ASSUME NEW m \in Nodes, NEW x \in DOMAIN kids[m]
                 PROVE  /\ kids[m][x] \in 1 .. born
                        /\ nds[kids[m][x]].parent = m /\ nds[kids[m][x]].block = x
      BY DEF LinksIn
    <3>1. x \in DOMAIN st.children[m] /\ kids[m][x] = st.children[m][x] /\ ~(m = parent /\ x = b)
      BY <2>6
    <3>2. /\ kids[m][x] \in 1 .. born /\ st.node[kids[m][x]].parent = m /\ st.node[kids[m][x]].block = x
      BY <3>1 DEF Evicting, LinksIn
    <3>3. kids[m][x] \in Nodes
      BY <3>2, TrieNumbers DEF TrieTypes
    <3>4. kids[m][x] # leaf
      BY <3>1, <3>2
    <3>5. QED BY <2>8, <3>2, <3>3, <3>4
  <2>10. OnlyUnlinks(nds, nodes)
    BY <2>8 DEF Evicting, OnlyUnlinks
  <2>11. Evicting(s, nodes)
    BY <2>7, <2>9, <2>10 DEF Evicting
  <2>12. QED BY <2>1, <2>3, <2>7, <2>11
<1>6. QED BY <1>3, <1>4, <1>5

LEMMA LeafRemovedKeeps ==
  ASSUME NEW nodes, NEW st, Evicting(st, nodes), NEW leaf
  PROVE  /\ Evicting(LeafRemoved(st, leaf), nodes)
         /\ LeafRemoved(st, leaf).evicted = st.evicted /\ LeafRemoved(st, leaf).node = st.node
         /\ LeafRemoved(st, leaf).error = "ok" => st.error = "ok"
<1>1. st \in LoopRec
  BY DEF Evicting
<1>2. PICK s : s = LeafRemoved(st, leaf)
  OBVIOUS
<1>3. CASE st.error # "ok"
  BY <1>3 DEF LeafRemoved
<1>4. CASE st.error = "ok" /\ leaf \in st.leaves
  <2>1. /\ s \in LoopRec /\ s.error = st.error /\ s.node = st.node /\ s.children = st.children
        /\ s.leaves = st.leaves \ {leaf} /\ s.heap = st.heap /\ s.evicted = st.evicted
    BY <1>1, <1>2, <1>4 DEF LeafRemoved, LoopRec
  <2>2. Evicting(s, nodes)
    BY <2>1 DEF Evicting
  <2>3. QED BY <1>2, <2>1, <2>2
<1>5. CASE st.error = "ok" /\ leaf \notin st.leaves
  <2>1. /\ s \in LoopRec /\ s.error = "KeyError" /\ s.node = st.node /\ s.children = st.children
        /\ s.leaves = st.leaves /\ s.heap = st.heap /\ s.evicted = st.evicted
    BY <1>1, <1>2, <1>5 DEF LeafRemoved, LoopRec
  <2>2. Evicting(s, nodes)
    BY <2>1 DEF Evicting
  <2>3. QED BY <1>2, <2>1, <2>2
<1>6. QED BY <1>3, <1>4, <1>5

LEMMA ParentKeeps ==
  ASSUME TrieTypes, NEW nodes, NEW st, Evicting(st, nodes), NEW parent \in (0 .. born) \cup {None}
  PROVE  /\ Evicting(ParentBecomesLeaf(st, parent), nodes)
         /\ ParentBecomesLeaf(st, parent).evicted = st.evicted
         /\ ParentBecomesLeaf(st, parent).node = st.node
         /\ ParentBecomesLeaf(st, parent).error = "ok" => st.error = "ok" /\ parent # None
<1>1. st \in LoopRec
  BY DEF Evicting
<1>2. PICK s : s = ParentBecomesLeaf(st, parent)
  OBVIOUS
<1>3. CASE st.error # "ok"
  BY <1>3 DEF ParentBecomesLeaf
<1>4. CASE st.error = "ok" /\ parent = None
  <2>1. /\ s \in LoopRec /\ s.error = "AttributeError" /\ s.node = st.node /\ s.children = st.children
        /\ s.leaves = st.leaves /\ s.heap = st.heap /\ s.evicted = st.evicted
    BY <1>1, <1>2, <1>4 DEF ParentBecomesLeaf, LoopRec
  <2>2. Evicting(s, nodes)
    BY <2>1 DEF Evicting
  <2>3. QED BY <1>2, <2>1, <2>2
<1>5. CASE st.error = "ok" /\ parent # None /\ (parent = Root \/ DOMAIN st.children[parent] # {})
  BY <1>5 DEF ParentBecomesLeaf
<1>6. CASE st.error = "ok" /\ parent # None /\ ~(parent = Root \/ DOMAIN st.children[parent] # {})
  <2>1. parent \in 1 .. born /\ parent \in Nodes
    BY <1>6, TrieNumbers DEF TrieTypes
  <2>2. PICK h : h = IF st.node[parent].ref <= 0 THEN Append(st.heap, parent) ELSE st.heap
    OBVIOUS
  <2>3. st.heap \in Seq(Nodes) /\ st.node[parent].ref = nodes[parent].ref
    BY <1>1, <2>1 DEF LoopRec, Evicting, OnlyUnlinks
  <2>4. h \in Seq(Nodes) /\ \A i \in DOMAIN h : h[i] \in 1 .. born /\ nodes[h[i]].ref <= 0
    <3>1. CASE st.node[parent].ref <= 0
      <4>1. h = Append(st.heap, parent)
        BY <2>2, <3>1
      <4>2. h \in Seq(Nodes)
        BY <2>1, <2>3, <4>1, AppendItems
      <4>3. ASSUME NEW i \in DOMAIN h PROVE h[i] \in 1 .. born /\ nodes[h[i]].ref <= 0
        <5>1. (i \in DOMAIN st.heap /\ h[i] = st.heap[i]) \/ h[i] = parent
          BY <2>1, <2>3, <4>1, AppendItems
        <5>2. QED BY <2>1, <2>3, <3>1, <5>1 DEF Evicting
      <4>4. QED BY <4>2, <4>3
    <3>2. CASE ~(st.node[parent].ref <= 0)
      BY <2>2, <2>3, <3>2 DEF Evicting
    <3>3. QED BY <3>1, <3>2
  <2>5. s = [st EXCEPT !.leaves = @ \cup {parent}, !.heap = h]
    BY <1>1, <1>2, <1>6, <2>2 DEF ParentBecomesLeaf, LoopRec
  <2>6. /\ s \in LoopRec /\ s.error = st.error /\ s.node = st.node /\ s.children = st.children
        /\ s.leaves = st.leaves \cup {parent} /\ s.heap = h /\ s.evicted = st.evicted
    BY <1>1, <2>1, <2>4, <2>5 DEF LoopRec
  <2>7. Evicting(s, nodes)
    BY <2>1, <2>4, <2>6 DEF Evicting
  <2>8. QED BY <1>2, <1>6, <2>6, <2>7
<1>7. QED BY <1>3, <1>4, <1>5, <1>6

\* What the loop keeps: a page is evicted with its node.
EvictLoop(nodes) == {st \in LoopRec : Evicting(st, nodes) /\ (st.error = "ok" => EvictedApart(st, nodes))}

LEMMA EvictOneKeeps ==
  ASSUME TrieTypes, NEW nodes \in [Nodes -> NodeRec], ParentsIn(nodes, born), NodesApart(nodes, born),
         NEW order \in Seq(Nodes), NEW st \in EvictLoop(nodes)
  PROVE  EvictOne(st, order) \in EvictLoop(nodes)
<1>0. born \in Nat /\ 1 .. born \subseteq Nodes /\ None = -1
  BY TrieNumbers DEF TrieTypes
<1>1. CASE st.heap = << >> \/ st.error # "ok"
  BY <1>1 DEF EvictOne
<1>2. CASE st.heap # << >> /\ st.error = "ok"
  <2>1. PICK i \in DOMAIN st.heap : i = OldestEntry(st.heap, order)
    BY <1>2, OldestExists DEF EvictLoop, LoopRec
  <2>2. PICK leaf \in 1 .. born : leaf = st.heap[i] /\ nodes[leaf].ref <= 0
    BY <2>1 DEF EvictLoop, Evicting
  <2>3. PICK parent : parent = st.node[leaf].parent
    OBVIOUS
  <2>4. PICK s1 : s1 = Popped(st, i)
    OBVIOUS
  <2>5. PICK s2 : s2 = Unlinked(s1, leaf)
    OBVIOUS
  <2>6. PICK s3 : s3 = LeafRemoved(s2, leaf)
    OBVIOUS
  <2>7. PICK s4 : s4 = ParentBecomesLeaf(s3, parent)
    OBVIOUS
  <2>8. EvictOne(st, order) = s4
    BY <1>2, <2>1, <2>2, <2>3, <2>4, <2>5, <2>6, <2>7 DEF EvictOne, EvictEntry
  <2>9. /\ Evicting(s1, nodes) /\ s1.node = st.node /\ s1.error = st.error
        /\ s1.evicted = Append(st.evicted, st.node[leaf].page)
    BY <2>1, <2>2, <2>4, PoppedKeeps DEF EvictLoop
  <2>10. /\ Evicting(s2, nodes) /\ s2.evicted = s1.evicted
         /\ s2.error = "ok" => /\ s1.error = "ok"
                               /\ parent # None => s2.node = [s1.node EXCEPT ![leaf].parent = None]
    <3>1. leaf \in Nodes /\ nodes[leaf].ref <= 0 /\ Evicting(s1, nodes)
      BY <1>0, <2>2, <2>9
    <3>2. /\ Evicting(Unlinked(s1, leaf), nodes) /\ Unlinked(s1, leaf).evicted = s1.evicted
          /\ Unlinked(s1, leaf).error = "ok" =>
                /\ s1.error = "ok"
                /\ s1.node[leaf].parent # None => Unlinked(s1, leaf).node = [s1.node EXCEPT ![leaf].parent = None]
      BY <3>1, UnlinkedKeeps
    <3>3. s1.node[leaf].parent = parent
      BY <2>3, <2>9
    <3>4. QED BY <2>5, <3>2, <3>3
  <2>11. /\ Evicting(s3, nodes) /\ s3.evicted = s2.evicted /\ s3.node = s2.node
         /\ s3.error = "ok" => s2.error = "ok"
    BY <2>6, <2>10, LeafRemovedKeeps
  <2>12. parent \in (0 .. born) \cup {None} /\ (parent # None => nodes[leaf].parent = parent)
    BY <1>0, <2>2, <2>3 DEF EvictLoop, Evicting, OnlyUnlinks, ParentsIn
  <2>13. /\ Evicting(s4, nodes) /\ s4.evicted = s3.evicted /\ s4.node = s3.node
         /\ s4.error = "ok" => s3.error = "ok" /\ parent # None
    BY <2>7, <2>11, <2>12, ParentKeeps
  <2>14. ASSUME s4.error = "ok" PROVE EvictedApart(s4, nodes)
    <3>1. /\ parent # None /\ nodes[leaf].parent # None
          /\ s4.node = [st.node EXCEPT ![leaf].parent = None]
      BY <2>9, <2>10, <2>11, <2>12, <2>13, <2>14
    <3>2. leaf \in Nodes /\ leaf \in AttachedIn(nodes, born)
      BY <1>0, <3>1 DEF AttachedIn
    <3>3. st.node \in [Nodes -> NodeRec] /\ st.evicted \in Seq(Pool!Pages \cup {None})
      BY DEF EvictLoop, LoopRec
    <3>4. \A n \in Nodes : st.node[n].parent = None \/ n = leaf => s4.node[n].parent = None
      BY <3>1, <3>2, <3>3 DEF NodeRec
    <3>5. PICK p \in Pool!Pages : p = nodes[leaf].page
      BY <3>2 DEF NodesApart
    <3>6. s4.evicted = Append(st.evicted, p) /\ p \in Pool!Pages \cup {None}
      BY <2>9, <2>10, <2>11, <2>13, <3>2, <3>5 DEF EvictLoop, Evicting, OnlyUnlinks
    <3>7. EvictedApart(st, nodes)
      BY <1>2 DEF EvictLoop
    <3>8. PICK e : e = st.evicted
      OBVIOUS
    <3>9. /\ DOMAIN s4.evicted = 1 .. Len(e) + 1 /\ Len(e) \in Nat /\ DOMAIN e = 1 .. Len(e)
          /\ \A k \in DOMAIN e : s4.evicted[k] = e[k]
          /\ s4.evicted[Len(e) + 1] = p
      BY <3>3, <3>6, <3>8, AppendItems
    <3>10. \A k \in DOMAIN e : \E n \in AttachedIn(nodes, born) \ {leaf} :
                s4.node[n].parent = None /\ e[k] = nodes[n].page
      <4>1. SUFFICES ASSUME NEW k \in DOMAIN e
                     PROVE \E n \in AttachedIn(nodes, born) \ {leaf} : s4.node[n].parent = None /\ e[k] = nodes[n].page
        OBVIOUS
      <4>2. PICK n \in AttachedIn(nodes, born) : st.node[n].parent = None /\ e[k] = nodes[n].page
        BY <3>7, <3>8 DEF EvictedApart
      <4>3. n # leaf /\ n \in Nodes
        BY <1>0, <2>3, <3>1, <4>2 DEF AttachedIn
      <4>4. QED BY <3>4, <4>2, <4>3
    <3>11. \A k \in DOMAIN e : e[k] # p
      BY <3>2, <3>5, <3>10 DEF NodesApart
    <3>12. \A k, l \in DOMAIN e : e[k] = e[l] => k = l
      BY <3>7, <3>8 DEF EvictedApart
    <3>13. ASSUME NEW k \in DOMAIN s4.evicted
           PROVE \E n \in AttachedIn(nodes, born) : s4.node[n].parent = None /\ s4.evicted[k] = nodes[n].page
      <4>1. CASE k = Len(e) + 1
        BY <3>2, <3>4, <3>5, <3>9, <4>1
      <4>2. CASE k # Len(e) + 1
        <5>1. k \in DOMAIN e
          BY <3>9, <4>2
        <5>2. QED BY <3>9, <3>10, <5>1
      <4>3. QED BY <4>1, <4>2
    <3>14. ASSUME NEW k \in DOMAIN s4.evicted, NEW l \in DOMAIN s4.evicted, s4.evicted[k] = s4.evicted[l]
           PROVE k = l
      <4>1. (k \in DOMAIN e \/ k = Len(e) + 1) /\ (l \in DOMAIN e \/ l = Len(e) + 1)
        BY <3>9
      <4>2. QED BY <3>9, <3>11, <3>12, <3>14, <4>1
    <3>15. QED BY <3>13, <3>14 DEF EvictedApart
  <2>15. s4 \in LoopRec
    BY <2>13 DEF Evicting
  <2>16. QED BY <2>8, <2>13, <2>14, <2>15 DEF EvictLoop
<1>3. QED BY <1>1, <1>2

\* The heap that the loop begins with.
LEMMA FirstHeap ==
  ASSUME TrieTypes, NEW nodes
  PROVE  /\ SetToSeq(UnusedLeaves(nodes)) \in Seq(Nodes)
         /\ \A i \in DOMAIN SetToSeq(UnusedLeaves(nodes)) :
               /\ SetToSeq(UnusedLeaves(nodes))[i] \in 1 .. born
               /\ nodes[SetToSeq(UnusedLeaves(nodes))[i]].ref <= 0
<1> DEFINE U == UnusedLeaves(nodes)
<1>1. U \subseteq 1 .. born /\ \A n \in U : nodes[n].ref <= 0
  BY DEF TrieTypes, UnusedLeaves
<1>2. born \in Nat /\ 1 .. born \subseteq Nodes
  BY TrieNumbers DEF TrieTypes
<1> HIDE DEF U
<1>3. U \in SUBSET Nat /\ IsFiniteSet(U)
  <2>1. IsFiniteSet(1 .. born)
    BY <1>2, FS_Interval
  <2>2. IsFiniteSet(U)
    BY <1>1, <2>1, FS_Subset
  <2>3. QED BY <1>1, <1>2, <2>2
<1>4. Cardinality(U) \in Nat
  BY <1>3, FS_CardinalityType
<1>5. PICK s \in [1 .. Cardinality(U) -> U] : Ascends(s)
  BY <1>3, Listing
<1>6. IsInjective(s)
  <2>1. ASSUME NEW i \in DOMAIN s, NEW j \in DOMAIN s, s[i] = s[j] PROVE i = j
    <3>1. i \in Nat /\ j \in Nat /\ s[i] \in Nat /\ s[j] \in Nat
      <4>1. i \in 1 .. Cardinality(U) /\ j \in 1 .. Cardinality(U) /\ s[i] \in U /\ s[j] \in U
        OBVIOUS
      <4>2. i \in Nat /\ j \in Nat
        BY <1>4, <4>1
      <4>3. s[i] \in Nat /\ s[j] \in Nat
        BY <1>3, <4>1
      <4>4. QED BY <4>2, <4>3
    <3>2. (i < j => s[i] < s[j]) /\ (j < i => s[j] < s[i])
      BY <1>5 DEF Ascends
    <3>3. QED BY <2>1, <3>1, <3>2
  <2>2. QED BY <2>1 DEF IsInjective
<1>7. SetToSeq(U) \in [1 .. Cardinality(U) -> U]
  BY <1>5, <1>6 DEF SetToSeq
<1>8. SetToSeq(U) \in Seq(U) /\ \A i \in DOMAIN SetToSeq(U) : SetToSeq(U)[i] \in U
  BY <1>4, <1>7
<1>9. SetToSeq(U) \in Seq(Nodes)
  <2>1. U \subseteq Nodes
    BY <1>1, <1>2
  <2>2. QED BY <1>4, <1>7, <2>1
<1>10. QED BY <1>1, <1>8, <1>9 DEF U

\* _evict_pages: what the loop has kept.
LEMMA EvictKeeps ==
  ASSUME TrieTypes, NEW nodes \in [Nodes -> NodeRec], LinksIn(nodes, children, born),
         ParentsIn(nodes, born), NodesApart(nodes, born),
         NEW order \in Seq(Nodes), NEW n \in Nat
  PROVE  Evict(nodes, order, n) \in EvictLoop(nodes)
<1> DEFINE S == EvictLoop(nodes)
           a == [heap |-> SetToSeq(UnusedLeaves(nodes)), leaves |-> leaves, node |-> nodes,
                 children |-> children, evicted |-> << >>, error |-> "ok"]
           Def(f) == [k \in 0 .. n |-> IF k = 0 THEN a ELSE EvictOne(f[k - 1], order)]
           G == [p \in (0 .. n) \X S |-> EvictOne(p[2], order)]
           B == CHOOSE f : f = Def(f)
<1>1. Evict(nodes, order, n) = B[n]
  BY DEF Evict
<1>2. a \in S
  <2>1. PICK h \in Seq(Nodes) : /\ h = SetToSeq(UnusedLeaves(nodes))
                                /\ \A i \in DOMAIN h : h[i] \in 1 .. born /\ nodes[h[i]].ref <= 0
    BY FirstHeap
  <2>2. /\ a = [heap |-> h, leaves |-> leaves, node |-> nodes,
                children |-> children, evicted |-> << >>, error |-> "ok"]
    BY <2>1
  <2>3. << >> \in Seq(Pool!Pages \cup {None}) /\ DOMAIN << >> = {}
    OBVIOUS
  <2>4. leaves \in SUBSET Nodes /\ leaves \subseteq 1 .. born /\ children \in [Nodes -> Dicts]
    BY TrieNumbers DEF TrieTypes
  <2>5. /\ a \in LoopRec /\ a.heap = h /\ a.leaves = leaves /\ a.node = nodes /\ a.children = children
        /\ a.evicted = << >>
    <3> HIDE DEF a
    <3>1. QED BY <2>1, <2>2, <2>3, <2>4 DEF LoopRec
  <2> HIDE DEF a
  <2>6. OnlyUnlinks(nodes, nodes)
    BY DEF OnlyUnlinks
  <2>7. Evicting(a, nodes)
    BY <2>1, <2>4, <2>5, <2>6 DEF Evicting
  <2>8. EvictedApart(a, nodes)
    BY <2>3, <2>5 DEF EvictedApart
  <2>9. QED BY <2>5, <2>7, <2>8 DEF EvictLoop
<1>3. \A s \in S : EvictOne(s, order) \in S
  BY EvictOneKeeps
<1> HIDE DEF a, S
<1>4. G \in [(0 .. n) \X S -> S]
  BY <1>3
<1>5. PICK f \in [0 .. n -> S] : f[0] = a /\ \A k \in 1 .. n : f[k] = G[<<k, f[k - 1]>>]
  <2> HIDE DEF G
  <2>1. PICK f : Iterates(f, n, S, a, G)
    BY <1>2, <1>4, Recursion
  <2>2. QED BY <2>1 DEF Iterates
<1>6. \A k \in 1 .. n : f[k] = EvictOne(f[k - 1], order)
  <2> SUFFICES ASSUME NEW k \in 1 .. n PROVE f[k] = EvictOne(f[k - 1], order)
    OBVIOUS
  <2>1. k \in 0 .. n /\ k - 1 \in 0 .. n
    OBVIOUS
  <2>2. <<k, f[k - 1]>> \in (0 .. n) \X S
    BY <2>1
  <2>3. QED BY <1>5, <2>2
<1>7. f = Def(f)
  <2>1. \A k \in 0 .. n : f[k] = IF k = 0 THEN a ELSE EvictOne(f[k - 1], order)
    BY <1>5, <1>6
  <2>2. f = [k \in 0 .. n |-> f[k]]
    OBVIOUS
  <2>3. QED BY <2>1, <2>2
<1>8. B = Def(B)
  <2> HIDE DEF Def
  <2>1. QED BY <1>7
<1> HIDE DEF B
<1>9. B[0] = a /\ \A k \in 1 .. n : B[k] = EvictOne(B[k - 1], order)
  BY <1>8
<1> DEFINE T == {k \in 0 .. n : B[k] \in S}
<1>10. 0 \in T
  <2>1. 0 \in 0 .. n /\ B[0] \in S
    BY <1>2, <1>9
  <2>2. QED BY <2>1
<1>11. ASSUME NEW k \in 0 .. n, k \in T, k # n PROVE k + 1 \in T
  <2>1. k + 1 \in 1 .. n /\ k + 1 \in 0 .. n /\ (k + 1) - 1 = k /\ B[k] \in S
    BY <1>11
  <2>2. B[k + 1] = EvictOne(B[k], order)
    BY <1>9, <2>1
  <2>3. B[k + 1] \in S
    BY <1>3, <2>1, <2>2
  <2>4. QED BY <2>1, <2>3
<1>12. B[n] \in S
  <2>1. 0 .. n \subseteq T
    <3> HIDE DEF T
    <3>1. QED BY <1>10, <1>11, UpTo
  <2>2. QED BY <2>1
<1>13. QED BY <1>1, <1>12 DEF S

----------------------------------------------------------------------------
(***************************************************************************)
(* Getting pages.                                                          *)
(***************************************************************************)

\* u and v hold different items of s.
Parted(s, u, v) ==
    /\ u \in Seq(Pool!Pages) /\ v \in Seq(Pool!Pages)
    /\ \A i \in DOMAIN u : \E k \in DOMAIN s : u[i] = s[k]
    /\ \A i \in DOMAIN v : \E k \in DOMAIN s : v[i] = s[k]
    /\ \A i, j \in DOMAIN u : u[i] = u[j] => i = j
    /\ \A i, j \in DOMAIN v : v[i] = v[j] => i = j
    /\ \A i \in DOMAIN u : \A j \in DOMAIN v : u[i] # v[j]

\* count pops from a list.
LEMMA PopsPart ==
  ASSUME NEW s \in Seq(Pool!Pages), \A i, j \in DOMAIN s : s[i] = s[j] => i = j,
         NEW count \in Nat, count <= Len(s)
  PROVE  Parted(s, SubSeq(s, 1, Len(s) - count), [i \in 1 .. count |-> s[Len(s) + 1 - i]])
<1>1. PICK n \in Nat : n = Len(s) /\ DOMAIN s = 1 .. n
  OBVIOUS
<1>2. PICK u \in Seq(Pool!Pages) : /\ u = SubSeq(s, 1, n - count)
                                   /\ DOMAIN u = 1 .. n - count
                                   /\ \A i \in DOMAIN u : i \in DOMAIN s /\ u[i] = s[i]
  <2>1. SubSeq(s, 1, n - count) \in Seq(Pool!Pages)
    BY <1>1
  <2>2. DOMAIN SubSeq(s, 1, n - count) = 1 .. n - count
    BY <1>1
  <2>3. \A i \in DOMAIN SubSeq(s, 1, n - count) : i \in DOMAIN s /\ SubSeq(s, 1, n - count)[i] = s[i]
    BY <1>1
  <2>4. QED BY <2>1, <2>2, <2>3
<1>3. PICK v : v = [i \in 1 .. count |-> s[n + 1 - i]]
  OBVIOUS
<1>4. \A i \in 1 .. count : n + 1 - i \in DOMAIN s /\ n + 1 - i > n - count
  BY <1>1
<1>5. \A i \in DOMAIN v : i \in 1 .. count /\ v[i] = s[n + 1 - i]
  BY <1>3
<1>6. v \in Seq(Pool!Pages)
  BY <1>3, <1>4
<1>7. ASSUME NEW i \in DOMAIN v, NEW j \in DOMAIN v, v[i] = v[j] PROVE i = j
  <2>1. n + 1 - i = n + 1 - j
    BY <1>4, <1>5, <1>7
  <2>2. i \in Nat /\ j \in Nat
    BY <1>5
  <2>3. QED BY <1>1, <2>1, <2>2
<1>8. ASSUME NEW i \in DOMAIN u, NEW j \in DOMAIN v PROVE u[i] # v[j]
  <2>1. i <= n - count /\ n + 1 - j > n - count /\ i \in DOMAIN s /\ n + 1 - j \in DOMAIN s
    BY <1>1, <1>2, <1>4, <1>5
  <2>2. i # n + 1 - j
    BY <1>1, <2>1
  <2>3. QED BY <1>2, <1>5, <2>1, <2>2
<1>9. Parted(s, u, v)
  <2>1. \A i \in DOMAIN v : \E k \in DOMAIN s : v[i] = s[k]
    BY <1>4, <1>5
  <2>2. \A i \in DOMAIN u : \E k \in DOMAIN s : u[i] = s[k]
    BY <1>2
  <2>3. \A i, j \in DOMAIN u : u[i] = u[j] => i = j
    BY <1>2
  <2>4. QED BY <1>6, <1>7, <1>8, <2>1, <2>2, <2>3 DEF Parted
<1>10. QED BY <1>1, <1>2, <1>3, <1>9

\* A page that was free, or of a node that has been evicted.
Loose(p, after, before) ==
    \/ \E i \in DOMAIN free_list : free_list[i] = p
    \/ \E n \in AttachedIn(before, born) : after[n].parent = None /\ before[n].page = p

\* What acquire and extend have when they have asked for pages.
Got(got, nodes) ==
    /\ got.node \in [Nodes -> NodeRec] /\ got.children \in [Nodes -> Dicts]
    /\ got.leaves \subseteq 1 .. born
    /\ LinksIn(got.node, got.children, born) /\ OnlyUnlinks(got.node, nodes)
    /\ \E s \in Seq(Pool!Pages) : /\ Parted(s, got.available, got.obtained)
                                  /\ \A i \in DOMAIN s : Loose(s[i], got.node, nodes)

LEMMA RetryGets ==
  ASSUME TrieTypes, NEW nodes \in [Nodes -> NodeRec], NodesApart(nodes, born),
         FreeApart(free_list, nodes, born), NEW st \in EvictLoop(nodes), NEW count \in Nat
  PROVE  Got(Retry(st, count), nodes)
<1>1. PICK e : e = IF st.error = "ok" THEN st.evicted ELSE << >>
  OBVIOUS
<1>2. e \in Seq(Pool!Pages) /\ EvictedApart([st EXCEPT !.evicted = e], nodes)
  <2>1. CASE st.error = "ok"
    <3>1. st.evicted \in Seq(Pool!Pages \cup {None}) /\ e = st.evicted /\ st \in LoopRec
      BY <1>1, <2>1 DEF EvictLoop, LoopRec
    <3>2. EvictedApart(st, nodes)
      BY <2>1 DEF EvictLoop
    <3>3. \A i \in DOMAIN e : e[i] \in Pool!Pages
      BY <3>1, <3>2 DEF EvictedApart, NodesApart
    <3>4. e \in Seq(Pool!Pages)
      BY <3>1, <3>3
    <3>5. [st EXCEPT !.evicted = e] = st
      BY <3>1 DEF LoopRec
    <3>6. QED BY <3>2, <3>4, <3>5
  <2>2. CASE st.error # "ok"
    <3>1. e = << >> /\ st \in LoopRec
      BY <1>1, <2>2 DEF EvictLoop
    <3>2. [st EXCEPT !.evicted = e].evicted = << >>
      BY <3>1 DEF LoopRec
    <3>3. QED BY <3>1, <3>2 DEF EvictedApart
  <2>3. QED BY <2>1, <2>2
<1>3. /\ \A i \in DOMAIN e : \E n \in AttachedIn(nodes, born) : st.node[n].parent = None /\ e[i] = nodes[n].page
      /\ \A i, j \in DOMAIN e : e[i] = e[j] => i = j
  <2>1. [st EXCEPT !.evicted = e].evicted = e /\ [st EXCEPT !.evicted = e].node = st.node
    BY DEF EvictLoop, LoopRec
  <2>2. QED BY <1>2, <2>1 DEF EvictedApart
<1>4. free_list \in Seq(Pool!Pages)
  BY DEF TrieTypes
<1>5. PICK f \in Seq(Pool!Pages) : f = free_list \o e
  BY <1>2, <1>4, ConcatItems
<1>6. /\ Len(f) \in Nat /\ DOMAIN f = 1 .. Len(f)
      /\ \A i \in DOMAIN f : \/ i \in DOMAIN free_list /\ f[i] = free_list[i]
                             \/ i - Len(free_list) \in DOMAIN e /\ f[i] = e[i - Len(free_list)]
  <2>1. ASSUME NEW i \in DOMAIN f
        PROVE \/ i \in DOMAIN free_list /\ f[i] = free_list[i]
              \/ i - Len(free_list) \in DOMAIN e /\ f[i] = e[i - Len(free_list)]
    <3>1. i \in DOMAIN free_list => f[i] = free_list[i]
      BY <1>2, <1>4, <1>5, ConcatItems
    <3>2. i \in DOMAIN free_list \/ (i - Len(free_list) \in DOMAIN e /\ f[i] = e[i - Len(free_list)])
      BY <1>2, <1>4, <1>5, ConcatItems
    <3>3. QED BY <3>1, <3>2
  <2>2. Len(f) \in Nat /\ DOMAIN f = 1 .. Len(f)
    OBVIOUS
  <2>3. QED BY <2>1, <2>2
<1>7. \A i \in DOMAIN f : Loose(f[i], st.node, nodes)
  BY <1>3, <1>6 DEF Loose
<1>8. \A i, j \in DOMAIN f : f[i] = f[j] => i = j
  <2>1. \A i \in DOMAIN free_list : \A j \in DOMAIN e : free_list[i] # e[j]
    BY <1>3 DEF FreeApart
  <2>2. ASSUME NEW i \in DOMAIN f, NEW j \in DOMAIN f, f[i] = f[j] PROVE i = j
    <3>1. CASE i \in DOMAIN free_list /\ f[i] = free_list[i]
      <4>1. j \in DOMAIN free_list /\ f[j] = free_list[j]
        BY <1>6, <2>1, <2>2, <3>1
      <4>2. QED BY <2>2, <3>1, <4>1 DEF FreeApart
    <3>2. CASE i - Len(free_list) \in DOMAIN e /\ f[i] = e[i - Len(free_list)]
      <4>1. j - Len(free_list) \in DOMAIN e /\ f[j] = e[j - Len(free_list)]
        BY <1>6, <2>1, <2>2, <3>2
      <4>2. i - Len(free_list) = j - Len(free_list)
        BY <1>3, <2>2, <3>2, <4>1
      <4>3. i \in Int /\ j \in Int /\ Len(free_list) \in Int
        BY <1>4, <1>6
      <4>4. QED BY <4>2, <4>3
    <3>3. QED BY <1>6, <3>1, <3>2
  <2>3. QED BY <2>2
<1>9. PICK r : r = Retry(st, count)
  OBVIOUS
<1>10. PICK left : left = Len(f) - count /\ left \in Int
  <2>1. Len(f) - count \in Int
    BY <1>6
  <2>2. QED BY <2>1
<1>11. /\ r.node = st.node /\ r.children = st.children /\ r.leaves = st.leaves
       /\ r.available = IF st.error = "ok" /\ left >= 0 THEN SubSeq(f, 1, left) ELSE f
       /\ r.obtained = IF st.error = "ok" /\ left >= 0 THEN Reverse(SubSeq(f, left + 1, Len(f))) ELSE << >>
  BY <1>1, <1>5, <1>9, <1>10 DEF Retry
<1>12. Parted(f, r.available, r.obtained)
  <2>1. CASE st.error = "ok" /\ left >= 0
    <3>1. Reverse(SubSeq(f, left + 1, Len(f))) = [i \in 1 .. count |-> f[Len(f) + 1 - i]]
      <4>1. PICK t : t = SubSeq(f, left + 1, Len(f))
        OBVIOUS
      <4>2. Len(t) = count /\ \A k \in 1 .. count : t[k] = f[k + left]
        BY <1>6, <1>10, <2>1, <4>1
      <4>3. \A i \in 1 .. count : (Len(t) - i) + 1 \in 1 .. count /\ ((Len(t) - i) + 1) + left = Len(f) + 1 - i
        BY <1>6, <1>10, <4>2
      <4>4. \A i \in 1 .. count : t[(Len(t) - i) + 1] = f[Len(f) + 1 - i]
        BY <4>2, <4>3
      <4>5. Reverse(t) = [i \in 1 .. count |-> t[(Len(t) - i) + 1]]
        BY <4>2 DEF Reverse
      <4>6. QED BY <4>1, <4>4, <4>5
    <3>2. count <= Len(f)
      BY <1>6, <1>10, <2>1
    <3>3. Parted(f, SubSeq(f, 1, Len(f) - count), [i \in 1 .. count |-> f[Len(f) + 1 - i]])
      BY <1>8, <3>2, PopsPart
    <3>4. QED BY <1>10, <1>11, <2>1, <3>1, <3>3
  <2>2. CASE ~(st.error = "ok" /\ left >= 0)
    <3>1. r.available = f /\ r.obtained = << >>
      BY <1>11, <2>2
    <3>2. << >> \in Seq(Pool!Pages) /\ DOMAIN << >> = {}
      OBVIOUS
    <3>3. QED BY <1>8, <3>1, <3>2 DEF Parted
  <2>3. QED BY <2>1, <2>2
<1>13. /\ st.node \in [Nodes -> NodeRec] /\ st.children \in [Nodes -> Dicts] /\ st.leaves \subseteq 1 .. born
       /\ LinksIn(st.node, st.children, born) /\ OnlyUnlinks(st.node, nodes)
  BY DEF EvictLoop, Evicting, LoopRec
<1>14. Got(r, nodes)
  BY <1>7, <1>11, <1>12, <1>13 DEF Got
<1>15. QED BY <1>9, <1>14

LEMMA ObtainGets ==
  ASSUME TrieTypes, NEW nodes \in [Nodes -> NodeRec], LinksIn(nodes, children, born),
         ParentsIn(nodes, born), NodesApart(nodes, born), FreeApart(free_list, nodes, born),
         NEW order \in Seq(Nodes), NEW count \in Nat
  PROVE  Got(ObtainPages(nodes, order, count), nodes)
<1>1. free_list \in Seq(Pool!Pages) /\ Len(free_list) \in Nat
  BY DEF TrieTypes
<1>2. PICK short : short = count - Len(free_list) /\ short \in Int
  <2>1. count - Len(free_list) \in Int
    BY <1>1
  <2>2. QED BY <2>1
<1>3. CASE short > 0
  <2>1. short \in Nat
    BY <1>2, <1>3
  <2>2. Evict(nodes, order, short) \in EvictLoop(nodes)
    BY <2>1, EvictKeeps
  <2>3. Got(Retry(Evict(nodes, order, short), count), nodes)
    BY <2>2, RetryGets
  <2>4. QED BY <1>2, <1>3, <2>3 DEF ObtainPages
<1>4. CASE ~(short > 0)
  <2>1. count <= Len(free_list) /\ -short = Len(free_list) - count
    BY <1>1, <1>2, <1>4
  <2>2. PICK r : r = ObtainPages(nodes, order, count)
    OBVIOUS
  <2>3. /\ r.node = nodes /\ r.children = children /\ r.leaves = leaves
        /\ r.available = SubSeq(free_list, 1, -short)
        /\ r.obtained = [i \in 1 .. count |-> free_list[Len(free_list) + 1 - i]]
    BY <1>2, <1>4, <2>2 DEF ObtainPages, Pool!PoppedPages
  <2>4. \A i, j \in DOMAIN free_list : free_list[i] = free_list[j] => i = j
    BY DEF FreeApart
  <2>5. Parted(free_list, r.available, r.obtained)
    <3>1. Parted(free_list, SubSeq(free_list, 1, Len(free_list) - count),
                 [i \in 1 .. count |-> free_list[Len(free_list) + 1 - i]])
      BY <1>1, <2>1, <2>4, PopsPart
    <3>2. QED BY <2>1, <2>3, <3>1
  <2>6. \A i \in DOMAIN free_list : Loose(free_list[i], nodes, nodes)
    BY DEF Loose
  <2>7. OnlyUnlinks(nodes, nodes) /\ children \in [Nodes -> Dicts] /\ leaves \subseteq 1 .. born
    BY DEF OnlyUnlinks, TrieTypes
  <2>8. QED BY <1>1, <2>2, <2>3, <2>5, <2>6, <2>7 DEF Got
<1>5. QED BY <1>3, <1>4

----------------------------------------------------------------------------
(***************************************************************************)
(* What getting pages keeps.                                               *)
(***************************************************************************)

\* A held node is referenced.
LEMMA HeldReferenced ==
  ASSUME TrieTypes, RefsSound
  PROVE  /\ \A a \in TrieAllocs : alloc[a].live => node[alloc[a].last].ref > 0
         /\ \A n \in Nodes : node[n].ref >= 0
<1>1. \A n \in Nodes : IsFiniteSet(NodeHolders(n)) /\ Cardinality(NodeHolders(n)) \in Nat
  <2> SUFFICES ASSUME NEW n \in Nodes
               PROVE  IsFiniteSet(NodeHolders(n)) /\ Cardinality(NodeHolders(n)) \in Nat
    OBVIOUS
  <2>1. NodeHolders(n) \subseteq TrieAllocs /\ IsFiniteSet(TrieAllocs)
    BY TrieCacheAssumption DEF NodeHolders
  <2>2. IsFiniteSet(NodeHolders(n))
    BY <2>1, FS_Subset
  <2>3. QED BY <2>2, FS_CardinalityType
<1>2. \A n \in Nodes : node[n].ref \in Int /\ node[n].ref >= Cardinality(NodeHolders(n))
  BY DEF TrieTypes, NodeRec, RefsSound
<1>3. ASSUME NEW a \in TrieAllocs, alloc[a].live PROVE node[alloc[a].last].ref > 0
  <2>1. alloc[a].last \in Nodes
    BY DEF TrieTypes, AllocRec
  <2>2. a \in NodeHolders(alloc[a].last)
    BY <1>3 DEF NodeHolders
  <2>3. Cardinality(NodeHolders(alloc[a].last)) # 0
    BY <1>1, <2>1, <2>2, FS_EmptySet
  <2>4. QED BY <1>1, <1>2, <2>1, <2>3
<1>4. QED BY <1>1, <1>2, <1>3

\* nodes is node with references added.
Referenced(nodes) ==
    /\ nodes \in [Nodes -> NodeRec]
    /\ \A n \in Nodes : /\ nodes[n].block = node[n].block /\ nodes[n].page = node[n].page
                        /\ nodes[n].parent = node[n].parent /\ nodes[n].ref >= node[n].ref

\* The pages obtained are in no other place.
Obtained(got, p) ==
    /\ \A j \in DOMAIN got.available : got.available[j] # p
    /\ \A n \in AttachedIn(got.node, born) : got.node[n].page # p
    /\ \A c \in TrieAllocs : \A j \in Unpublished(alloc[c]) : alloc[c].pages[j] # p

Safely(got, nodes) ==
    /\ got.node \in [Nodes -> NodeRec] /\ got.children \in [Nodes -> Dicts]
    /\ got.leaves \subseteq 1 .. born
    /\ got.available \in Seq(Pool!Pages) /\ got.obtained \in Seq(Pool!Pages)
    /\ ParentsIn(got.node, born) /\ LinksIn(got.node, got.children, born)
    /\ NodesApart(got.node, born) /\ FreeApart(got.available, got.node, born)
    /\ \A i, j \in DOMAIN got.obtained : got.obtained[i] = got.obtained[j] => i = j
    /\ \A i \in DOMAIN got.obtained : Obtained(got, got.obtained[i])
    /\ \A a \in TrieAllocs : \A i \in Unpublished(alloc[a]) :
          /\ \A j \in DOMAIN got.available : got.available[j] # alloc[a].pages[i]
          /\ \A n \in AttachedIn(got.node, born) : got.node[n].page # alloc[a].pages[i]
    /\ \A n \in Nodes : got.node[n].ref = nodes[n].ref
    /\ \A n \in Attached : nodes[n].ref > 0 => n \in AttachedIn(got.node, born)

\* References added change nothing else.
LEMMA ReferencedSound ==
  ASSUME TrieInv, NEW nodes, Referenced(nodes)
  PROVE  /\ nodes \in [Nodes -> NodeRec] /\ AttachedIn(nodes, born) = Attached
         /\ LinksIn(nodes, children, born) /\ ParentsIn(nodes, born)
         /\ NodesApart(nodes, born) /\ FreeApart(free_list, nodes, born)
<1>0. TrieTypes /\ born \in Nat /\ 1 .. born \subseteq Nodes
  BY TrieNumbers DEF TrieInv, TrieTypes
<1>1. nodes \in [Nodes -> NodeRec] /\ AttachedIn(nodes, born) = Attached
      /\ \A n \in Nodes : nodes[n].page = node[n].page
  BY <1>0 DEF Referenced, AttachedIn, Attached
<1>2. LinksIn(nodes, children, born)
  <2>1. SUFFICES ASSUME NEW m \in Nodes, NEW b \in DOMAIN children[m]
                 PROVE  /\ children[m][b] \in 1 .. born
                        /\ nodes[children[m][b]].parent = m /\ nodes[children[m][b]].block = b
    BY DEF LinksIn
  <2>2. /\ children[m][b] \in 1 .. born
        /\ node[children[m][b]].parent = m /\ node[children[m][b]].block = b
    BY DEF TrieInv, LinksIn
  <2>3. children[m][b] \in Nodes
    BY <1>0, <2>2
  <2>4. QED BY <2>2, <2>3 DEF Referenced
<1>3. ParentsIn(nodes, born)
  BY <1>0 DEF Referenced, TrieInv, ParentsIn
<1>4. NodesApart(nodes, born) /\ FreeApart(free_list, nodes, born)
  <2>1. \A n \in Attached : n \in Nodes
    BY <1>0 DEF Attached, AttachedIn
  <2>2. NodesApart(node, born) /\ FreeApart(free_list, node, born) /\ AttachedIn(node, born) = Attached
    BY DEF TrieInv, Attached
  <2>3. NodesApart(nodes, born)
    BY <1>1, <2>1, <2>2 DEF NodesApart
  <2>4. FreeApart(free_list, nodes, born)
    BY <1>1, <2>1, <2>2 DEF FreeApart
  <2>5. QED BY <2>3, <2>4
<1>5. QED BY <1>1, <1>2, <1>3, <1>4

LEMMA GetSafely ==
  ASSUME TrieInv, NEW nodes, Referenced(nodes), NEW order \in Seq(Nodes), NEW count \in Nat
  PROVE  Safely(ObtainPages(nodes, order, count), nodes)
<1>0. TrieTypes /\ born \in Nat /\ 1 .. born \subseteq Nodes
  BY TrieNumbers DEF TrieInv, TrieTypes
<1>1. nodes \in [Nodes -> NodeRec] /\ AttachedIn(nodes, born) = Attached
      /\ \A n \in Nodes : nodes[n].page = node[n].page
  BY ReferencedSound DEF Referenced
<1>2. LinksIn(nodes, children, born)
  BY ReferencedSound
<1>3. ParentsIn(nodes, born)
  BY ReferencedSound
<1>4. NodesApart(nodes, born) /\ FreeApart(free_list, nodes, born)
  BY ReferencedSound
<1>5. PICK got : got = ObtainPages(nodes, order, count)
  OBVIOUS
<1>6. Got(got, nodes)
  BY <1>0, <1>1, <1>2, <1>3, <1>4, <1>5, ObtainGets
<1>7. PICK s \in Seq(Pool!Pages) : /\ Parted(s, got.available, got.obtained)
                                   /\ \A i \in DOMAIN s : Loose(s[i], got.node, nodes)
  BY <1>6 DEF Got
<1>8. OnlyUnlinks(got.node, nodes)
  BY <1>6 DEF Got
<1>9. AttachedIn(got.node, born) \subseteq Attached
  <2>1. ASSUME NEW n \in AttachedIn(got.node, born) PROVE n \in AttachedIn(nodes, born)
    <3>1. n \in 1 .. born /\ n \in Nodes /\ got.node[n].parent # None
      BY <1>0 DEF AttachedIn
    <3>2. QED BY <1>8, <3>1 DEF OnlyUnlinks, AttachedIn
  <2>2. QED BY <1>1, <2>1
<1>10. \A n \in Nodes : got.node[n].page = node[n].page
  BY <1>1, <1>8 DEF OnlyUnlinks
<1>11. /\ \A m, n \in Attached : node[m].page = node[n].page => m = n
       /\ \A n \in Attached : node[n].page \in Pool!Pages /\ n \in Nodes
       /\ \A n \in Attached : \A i \in DOMAIN free_list : free_list[i] # node[n].page
  BY <1>0 DEF TrieInv, NodesApart, FreeApart, Attached, AttachedIn
<1>12. ASSUME NEW i \in DOMAIN s
       PROVE  /\ \A n \in AttachedIn(got.node, born) : got.node[n].page # s[i]
              /\ \A c \in TrieAllocs : \A j \in Unpublished(alloc[c]) : alloc[c].pages[j] # s[i]
  <2>1. Loose(s[i], got.node, nodes)
    BY <1>7
  <2>2. CASE \E k \in DOMAIN free_list : free_list[k] = s[i]
    <3>1. PICK k \in DOMAIN free_list : free_list[k] = s[i]
      BY <2>2
    <3>2. \A n \in AttachedIn(got.node, born) : got.node[n].page # s[i]
      BY <1>9, <1>10, <1>11, <3>1
    <3>3. \A c \in TrieAllocs : \A j \in Unpublished(alloc[c]) : alloc[c].pages[j] # s[i]
      BY <3>1 DEF TrieInv, PrivateApart
    <3>4. QED BY <3>2, <3>3
  <2>3. CASE \E n \in AttachedIn(nodes, born) : got.node[n].parent = None /\ nodes[n].page = s[i]
    <3>1. PICK m \in Attached : got.node[m].parent = None /\ node[m].page = s[i]
      BY <1>1, <1>11, <2>3
    <3>2. \A n \in AttachedIn(got.node, born) : n \in Attached /\ n # m /\ got.node[n].page = node[n].page
      BY <1>9, <1>10, <1>11, <3>1 DEF AttachedIn
    <3>3. \A n \in AttachedIn(got.node, born) : got.node[n].page # s[i]
      BY <1>11, <3>1, <3>2
    <3>4. \A c \in TrieAllocs : \A j \in Unpublished(alloc[c]) : alloc[c].pages[j] # s[i]
      BY <3>1 DEF TrieInv, PrivateApart
    <3>5. QED BY <3>3, <3>4
  <2>4. QED BY <2>1, <2>2, <2>3 DEF Loose
<1>13. /\ got.available \in Seq(Pool!Pages) /\ got.obtained \in Seq(Pool!Pages)
       /\ \A i \in DOMAIN got.available : \E k \in DOMAIN s : got.available[i] = s[k]
       /\ \A i \in DOMAIN got.obtained : \E k \in DOMAIN s : got.obtained[i] = s[k]
       /\ \A i, j \in DOMAIN got.available : got.available[i] = got.available[j] => i = j
       /\ \A i, j \in DOMAIN got.obtained : got.obtained[i] = got.obtained[j] => i = j
       /\ \A i \in DOMAIN got.available : \A j \in DOMAIN got.obtained : got.available[i] # got.obtained[j]
  BY <1>7 DEF Parted
<1>14. \A i \in DOMAIN got.obtained : Obtained(got, got.obtained[i])
  <2>1. SUFFICES ASSUME NEW i \in DOMAIN got.obtained PROVE Obtained(got, got.obtained[i])
    OBVIOUS
  <2>2. PICK k \in DOMAIN s : got.obtained[i] = s[k]
    BY <1>13
  <2>3. QED BY <1>12, <1>13, <2>2 DEF Obtained
<1>15. \A a \in TrieAllocs : \A i \in Unpublished(alloc[a]) :
          /\ \A j \in DOMAIN got.available : got.available[j] # alloc[a].pages[i]
          /\ \A n \in AttachedIn(got.node, born) : got.node[n].page # alloc[a].pages[i]
  <2>1. SUFFICES ASSUME NEW a \in TrieAllocs, NEW i \in Unpublished(alloc[a])
                 PROVE  /\ \A j \in DOMAIN got.available : got.available[j] # alloc[a].pages[i]
                        /\ \A n \in AttachedIn(got.node, born) : got.node[n].page # alloc[a].pages[i]
    OBVIOUS
  <2>2. \A j \in DOMAIN got.available : got.available[j] # alloc[a].pages[i]
    BY <1>12, <1>13
  <2>3. \A n \in AttachedIn(got.node, born) : got.node[n].page # alloc[a].pages[i]
    BY <1>9, <1>10, <1>11 DEF TrieInv, PrivateApart
  <2>4. QED BY <2>2, <2>3
<1>16. NodesApart(got.node, born)
  BY <1>9, <1>10, <1>11 DEF NodesApart
<1>17. FreeApart(got.available, got.node, born)
  BY <1>12, <1>13 DEF FreeApart
<1>18. ParentsIn(got.node, born)
  BY <1>0, <1>3, <1>8 DEF ParentsIn, OnlyUnlinks
<1>19. \A n \in Nodes : got.node[n].ref = nodes[n].ref
  BY <1>8 DEF OnlyUnlinks
<1>20. \A n \in Attached : nodes[n].ref > 0 => n \in AttachedIn(got.node, born)
  <2>1. SUFFICES ASSUME NEW n \in Attached, nodes[n].ref > 0 PROVE n \in AttachedIn(got.node, born)
    OBVIOUS
  <2>2. n \in 1 .. born /\ n \in Nodes /\ nodes[n].parent # None /\ nodes[n].ref \in Int
    BY <1>0, <1>1 DEF AttachedIn, NodeRec
  <2>3. got.node[n].parent = nodes[n].parent
    BY <1>8, <2>1, <2>2 DEF OnlyUnlinks
  <2>4. QED BY <2>2, <2>3 DEF AttachedIn
<1>21. /\ got.node \in [Nodes -> NodeRec] /\ got.children \in [Nodes -> Dicts]
       /\ got.leaves \subseteq 1 .. born /\ LinksIn(got.node, got.children, born)
  BY <1>6 DEF Got
<1>22. Safely(got, nodes)
  BY <1>13, <1>14, <1>15, <1>16, <1>17, <1>18, <1>19, <1>20, <1>21 DEF Safely
<1>23. QED BY <1>5, <1>22

\* Allocation a becomes al, whose unpublished pages are those it had and those
\* obtained, and whose last node is held.
Grows(a, al, off, got) ==
    \A i \in Unpublished(al) :
       \/ i \in Unpublished(alloc[a]) /\ al.pages[i] = alloc[a].pages[i]
       \/ i - off \in DOMAIN got.obtained /\ al.pages[i] = got.obtained[i - off]

LastHeld(al, nodes) ==
    /\ al.last \in 0 .. born
    /\ al.live => (al.last \in Attached /\ nodes[al.last].ref > 0) \/ al.last = Root

CountedNext(nodes) == \A n \in Nodes : nodes[n].ref >= Cardinality(NodeHolders(n)')

Committed(got) == /\ free_list' = got.available /\ node' = got.node /\ children' = got.children
                  /\ leaves' = got.leaves /\ born' = born /\ lru' \in Seq(Nodes)

\* The invariant after a call that got pages.
LEMMA GetsKeep ==
  ASSUME TrieInv, NEW nodes, Referenced(nodes), NEW got, Safely(got, nodes),
         Committed(got),
         NEW a \in TrieAllocs, NEW al \in AllocRec, alloc' = [alloc EXCEPT ![a] = al],
         NEW off \in Int, Grows(a, al, off, got), LastHeld(al, nodes), CountedNext(nodes)
  PROVE  TrieInv'
<1>0. TrieTypes /\ born \in Nat /\ 1 .. born \subseteq Nodes
  BY TrieNumbers DEF TrieInv, TrieTypes
<1>1. \A c \in TrieAllocs : /\ alloc'[c] = IF c = a THEN al ELSE alloc[c]
                            /\ alloc[c] \in AllocRec /\ alloc[c].last \in 0 .. born
  BY <1>0 DEF TrieTypes, Committed
<1>2. TrieTypes'
  <2>1. alloc' \in [TrieAllocs -> AllocRec] /\ \A c \in TrieAllocs : alloc'[c].last \in 0 .. born'
    <3>1. alloc' = [c \in TrieAllocs |-> IF c = a THEN al ELSE alloc[c]]
      BY <1>0 DEF TrieTypes
    <3>2. QED BY <1>1, <3>1 DEF LastHeld, Committed
  <2>2. born' \in 0 .. MaxNodes
    BY DEF TrieInv, TrieTypes, Committed
  <2>3. QED BY <2>1, <2>2 DEF Safely, TrieTypes, Committed
<1>3. ParentsIn(node, born)' /\ LinksIn(node, children, born)'
  BY DEF Safely, Committed
<1>4. RefsSound'
  BY DEF Safely, RefsSound, Committed, CountedNext
<1>5. Attached' = AttachedIn(got.node, born)
  BY DEF Attached, Committed
<1>6. HeldAttached'
  <2>1. SUFFICES ASSUME NEW c \in TrieAllocs, alloc'[c].live
                 PROVE  alloc'[c].last \in AttachedIn(got.node, born) \cup {Root}
    BY <1>5 DEF HeldAttached
  <2>2. CASE c = a
    BY <1>1, <2>1, <2>2 DEF Safely, LastHeld
  <2>3. CASE c # a
    <3>1. alloc[c].live /\ alloc'[c].last = alloc[c].last /\ alloc[c].last \in Attached \cup {Root}
      BY <1>1, <2>1, <2>3 DEF TrieInv, HeldAttached
    <3>2. node[alloc[c].last].ref > 0 /\ alloc[c].last \in Nodes
      BY <1>0, <1>1, <3>1, HeldReferenced DEF TrieInv, AllocRec
    <3>3. nodes[alloc[c].last].ref > 0
      <4>1. PICK n \in Nodes : n = alloc[c].last
        BY <3>2
      <4>2. node[n].ref \in Int /\ nodes[n].ref \in Int /\ nodes[n].ref >= node[n].ref
        BY <1>0 DEF Referenced, TrieTypes, NodeRec
      <4>3. QED BY <3>2, <4>1, <4>2
    <3>4. QED BY <3>1, <3>3 DEF Safely
  <2>4. QED BY <2>2, <2>3
<1>7. NodesApart(node, born)' /\ FreeApart(free_list, node, born)'
  BY DEF Safely, Committed
<1>8. \A c \in TrieAllocs : \A i \in Unpublished(alloc'[c]) :
         \/ i \in Unpublished(alloc[c]) /\ alloc'[c].pages[i] = alloc[c].pages[i]
         \/ c = a /\ i - off \in DOMAIN got.obtained /\ alloc'[c].pages[i] = got.obtained[i - off]
  BY <1>1 DEF Grows
<1>9. \A i \in Unpublished(al) : i \in Int
  BY DEF Unpublished, AllocRec
<1>10. \A c, d \in TrieAllocs : \A i \in Unpublished(alloc[c]), j \in Unpublished(alloc[d]) :
         alloc[c].pages[i] = alloc[d].pages[j] => c = d /\ i = j
  BY DEF TrieInv, PrivateApart
<1>11. \A k \in DOMAIN got.obtained : \A c \in TrieAllocs : \A j \in Unpublished(alloc[c]) :
         alloc[c].pages[j] # got.obtained[k]
  BY DEF Safely, Obtained
<1>12. PrivateApart'
  <2>1. SUFFICES ASSUME NEW c \in TrieAllocs, NEW i \in Unpublished(alloc'[c])
                 PROVE  /\ \A j \in DOMAIN got.available : got.available[j] # alloc'[c].pages[i]
                        /\ \A n \in AttachedIn(got.node, born) : got.node[n].page # alloc'[c].pages[i]
                        /\ \A d \in TrieAllocs : \A j \in Unpublished(alloc'[d]) :
                              alloc'[c].pages[i] = alloc'[d].pages[j] => c = d /\ i = j
    BY <1>5 DEF PrivateApart, Unpublished, Committed
  <2>2. CASE i \in Unpublished(alloc[c]) /\ alloc'[c].pages[i] = alloc[c].pages[i]
    <3>1. /\ \A j \in DOMAIN got.available : got.available[j] # alloc'[c].pages[i]
          /\ \A n \in AttachedIn(got.node, born) : got.node[n].page # alloc'[c].pages[i]
      BY <2>2 DEF Safely
    <3>2. ASSUME NEW d \in TrieAllocs, NEW j \in Unpublished(alloc'[d]),
                 alloc'[c].pages[i] = alloc'[d].pages[j]
          PROVE  c = d /\ i = j
      <4>1. CASE j \in Unpublished(alloc[d]) /\ alloc'[d].pages[j] = alloc[d].pages[j]
        <5>1. alloc[c].pages[i] = alloc[d].pages[j]
          BY <2>2, <3>2, <4>1
        <5>2. QED BY <1>10, <2>2, <4>1, <5>1
      <4>2. CASE d = a /\ j - off \in DOMAIN got.obtained /\ alloc'[d].pages[j] = got.obtained[j - off]
        BY <1>11, <2>2, <3>2, <4>2
      <4>3. QED BY <1>8, <4>1, <4>2
    <3>3. QED BY <3>1, <3>2
  <2>3. CASE c = a /\ i - off \in DOMAIN got.obtained /\ alloc'[c].pages[i] = got.obtained[i - off]
    <3>1. /\ \A j \in DOMAIN got.available : got.available[j] # alloc'[c].pages[i]
          /\ \A n \in AttachedIn(got.node, born) : got.node[n].page # alloc'[c].pages[i]
      BY <2>3 DEF Safely, Obtained
    <3>2. ASSUME NEW d \in TrieAllocs, NEW j \in Unpublished(alloc'[d]),
                 alloc'[c].pages[i] = alloc'[d].pages[j]
          PROVE  c = d /\ i = j
      <4>1. CASE j \in Unpublished(alloc[d]) /\ alloc'[d].pages[j] = alloc[d].pages[j]
        BY <1>11, <2>3, <3>2, <4>1
      <4>2. CASE d = a /\ j - off \in DOMAIN got.obtained /\ alloc'[d].pages[j] = got.obtained[j - off]
        <5>1. i - off = j - off
          BY <2>3, <3>2, <4>2 DEF Safely
        <5>2. i \in Int /\ j \in Int
          BY <1>1, <1>9, <2>3, <4>2
        <5>3. QED BY <2>3, <4>2, <5>1, <5>2
      <4>3. QED BY <1>8, <4>1, <4>2
    <3>3. QED BY <3>1, <3>2
  <2>4. QED BY <1>8, <2>2, <2>3
<1>13. QED BY <1>2, <1>3, <1>4, <1>6, <1>7, <1>12 DEF TrieInv

----------------------------------------------------------------------------
(***************************************************************************)
(* The operations.                                                         *)
(***************************************************************************)

\* An allocation as a holder of a node.
Holds(al, n) == IF al.live /\ al.last = n THEN 1 ELSE 0

LEMMA HoldersMove ==
  ASSUME TrieTypes, NEW a \in TrieAllocs, NEW al \in AllocRec, alloc' = [alloc EXCEPT ![a] = al],
         NEW n \in Nodes
  PROVE  /\ Cardinality(NodeHolders(n)) \in Nat
         /\ Cardinality(NodeHolders(n)') = (Cardinality(NodeHolders(n)) + Holds(al, n)) - Holds(alloc[a], n)
<1> DEFINE H == NodeHolders(n)
           R == H \ {a}
<1>1. \A c \in TrieAllocs : alloc'[c] = IF c = a THEN al ELSE alloc[c]
  BY DEF TrieTypes
<1>2. /\ al.live \in BOOLEAN /\ alloc[a].live \in BOOLEAN
      /\ H \subseteq TrieAllocs /\ (a \in H <=> Holds(alloc[a], n) = 1)
      /\ Holds(alloc[a], n) \in {0, 1} /\ Holds(al, n) \in {0, 1}
  BY DEF NodeHolders, Holds, TrieTypes, AllocRec
<1>3. NodeHolders(n)' = IF Holds(al, n) = 1 THEN R \cup {a} ELSE R
  <2>1. \A c \in TrieAllocs : c # a => (c \in NodeHolders(n)' <=> c \in R)
    BY <1>1 DEF NodeHolders
  <2>2. a \in NodeHolders(n)' <=> Holds(al, n) = 1
    BY <1>1, <1>2 DEF NodeHolders, Holds
  <2>3. NodeHolders(n)' \subseteq TrieAllocs /\ R \subseteq TrieAllocs /\ a \notin R
    BY <1>2 DEF NodeHolders
  <2>4. QED BY <1>2, <2>1, <2>2, <2>3
<1> HIDE DEF H
<1>4. IsFiniteSet(H)
  BY <1>2, TrieCacheAssumption, FS_Subset
<1>5. Cardinality(H) \in Nat
  BY <1>4, FS_CardinalityType
<1>6. IsFiniteSet(R) /\ Cardinality(R) = IF a \in H THEN Cardinality(H) - 1 ELSE Cardinality(H)
  BY <1>4, FS_RemoveElement
<1>7. a \notin R
  OBVIOUS
<1> HIDE DEF R
<1>8. Cardinality(R \cup {a}) = Cardinality(R) + 1
  BY <1>6, <1>7, FS_AddElement
<1>9. Cardinality(R) = Cardinality(H) - Holds(alloc[a], n)
  BY <1>2, <1>5, <1>6
<1>10. Cardinality(NodeHolders(n)') = Cardinality(R) + Holds(al, n)
  <2>1. CASE Holds(al, n) = 1
    <3>1. NodeHolders(n)' = R \cup {a}
      BY <1>3, <2>1
    <3>2. QED BY <1>8, <2>1, <3>1
  <2>2. CASE Holds(al, n) = 0
    <3>1. NodeHolders(n)' = R
      BY <1>3, <2>2
    <3>2. Cardinality(R) \in Int
      BY <1>2, <1>5, <1>9
    <3>3. QED BY <2>2, <3>1, <3>2
  <2>3. QED BY <1>2, <2>1, <2>2
<1>11. Cardinality(NodeHolders(n)') = (Cardinality(H) + Holds(al, n)) - Holds(alloc[a], n)
  BY <1>2, <1>5, <1>9, <1>10
<1>12. QED BY <1>5, <1>11 DEF H

\* A request asks for no fewer than 0 pages.
LEMMA PagesNat ==
  ASSUME NEW x \in Nat, NEW k \in Nat, k <= x \div BlockTokens
  PROVE  /\ k * BlockTokens \in Nat /\ k * BlockTokens <= x
         /\ TriePagesFor(x - k * BlockTokens) \in Nat
<1>1. BlockTokens \in Nat /\ BlockTokens > 0
  BY TrieCacheAssumption
<1>2. PICK q \in Nat : q = x \div BlockTokens /\ q * BlockTokens <= x
  <2>1. x \div BlockTokens \in Nat /\ (x \div BlockTokens) * BlockTokens <= x
    BY <1>1
  <2>2. QED BY <2>1
<1>3. k * BlockTokens \in Nat /\ k * BlockTokens <= q * BlockTokens /\ q * BlockTokens \in Nat
  BY <1>1, <1>2
<1>4. PICK y \in Nat : y = x - k * BlockTokens
  <2>1. x - k * BlockTokens \in Nat
    BY <1>2, <1>3
  <2>2. QED BY <2>1
<1>5. (y + BlockTokens - 1) \div BlockTokens \in Nat
  <2>1. PICK z \in Nat : z = y + BlockTokens - 1
    BY <1>1
  <2>2. z \div BlockTokens \in Nat
    BY <1>1
  <2>3. QED BY <2>1, <2>2
<1>6. QED BY <1>2, <1>3, <1>4, <1>5 DEF TriePagesFor

\* A call that fails leaves the allocation as it is.
LEMMA AllocSame ==
  ASSUME TrieTypes, NEW a \in TrieAllocs, alloc' = alloc
  PROVE  alloc' = [alloc EXCEPT ![a] = alloc[a]] /\ alloc[a] \in AllocRec
BY DEF TrieTypes

\* What acquire_pages_for_tokens does: a path is matched, its last node gets a
\* reference, and pages are asked for the rest of the tokens.
Acquires(a, toks, path, cur, cached, nodes, order, needed, got) ==
    /\ path = MatchedPath(toks) /\ path \in Seq(Attached) /\ Len(path) <= FullBlocks(toks)
    /\ cur = (IF path = << >> THEN Root ELSE Last(path))
    /\ cur \in Attached \cup {Root} /\ cur \in Nodes /\ cur \in 0 .. born
    /\ cached \in Seq(Pool!Pages) /\ Len(cached) = Len(path) /\ Len(path) \in Nat
    /\ \A n \in Nodes : nodes[n].ref = (IF n = cur THEN node[n].ref + 1 ELSE node[n].ref) /\ node[n].ref \in Int
    /\ Referenced(nodes)
    /\ needed \in Nat /\ needed = TriePagesFor(Len(toks) - Len(path) * BlockTokens + 0)
    /\ order \in Seq(Nodes) /\ got = ObtainPages(nodes, order, needed)
    /\ ~alloc[a].live /\ lru' = order /\ born' = born
    /\ free_list' = got.available /\ node' = got.node /\ children' = got.children /\ leaves' = got.leaves
    /\ alloc' = IF got.error # "ok" THEN alloc
                ELSE [alloc EXCEPT ![a] = [live |-> TRUE, tokens |-> toks, last |-> cur,
                                           pages |-> cached \o got.obtained,
                                           published |-> Len(cached), same |-> FALSE]]

LEMMA AcquireMakes ==
  ASSUME TrieInv, NEW a \in TrieAllocs, NEW toks \in Seq(Token), trie_acquire_pages(a, toks, 0)
  PROVE  \E path, cur, cached, nodes, order, needed, got :
            Acquires(a, toks, path, cur, cached, nodes, order, needed, got)
<1>0. /\ TrieTypes /\ born \in Nat /\ 1 .. born \subseteq Nodes /\ Root \in Nodes /\ Root \in 0 .. born
      /\ LinksIn(node, children, born)
  BY TrieNumbers DEF TrieInv, TrieTypes
<1>1. PICK path : path = MatchedPath(toks)
  OBVIOUS
<1>2. path \in Seq(Attached) /\ Len(path) <= FullBlocks(toks)
  BY <1>0, <1>1, PathAttached
<1>3. PICK cur : cur = IF path = << >> THEN Root ELSE Last(path)
  OBVIOUS
<1>4. cur \in Attached \cup {Root} /\ cur \in Nodes /\ cur \in 0 .. born
  <2>1. cur \in Attached \cup {Root}
    BY <1>2, <1>3 DEF Last
  <2>2. Attached \subseteq 1 .. born
    BY DEF Attached, AttachedIn
  <2>3. QED BY <1>0, <2>1, <2>2
<1>5. PICK cached : cached = [i \in 1 .. Len(path) |-> node[path[i]].page]
  OBVIOUS
<1>6. cached \in Seq(Pool!Pages) /\ Len(cached) = Len(path) /\ Len(path) \in Nat
  <2>1. Len(path) \in Nat /\ \A i \in 1 .. Len(path) : path[i] \in Attached
    BY <1>2
  <2>2. \A i \in 1 .. Len(path) : node[path[i]].page \in Pool!Pages
    BY <2>1 DEF TrieInv, NodesApart, Attached
  <2>3. QED BY <1>5, <2>1, <2>2
<1>7. PICK nodes : nodes = [node EXCEPT ![cur].ref = @ + 1]
  OBVIOUS
<1>8. /\ \A n \in Nodes : nodes[n].ref = (IF n = cur THEN node[n].ref + 1 ELSE node[n].ref) /\ node[n].ref \in Int
      /\ Referenced(nodes)
  <2>1. node \in [Nodes -> NodeRec]
    BY <1>0 DEF TrieTypes
  <2>2. [node[cur] EXCEPT !.ref = node[cur].ref + 1] \in NodeRec
    BY <1>4, <2>1 DEF NodeRec
  <2>3. nodes = [node EXCEPT ![cur] = [node[cur] EXCEPT !.ref = node[cur].ref + 1]]
    BY <1>7
  <2>4. nodes \in [Nodes -> NodeRec]
    BY <2>1, <2>2, <2>3
  <2>5. \A n \in Nodes : n # cur => nodes[n] = node[n]
    BY <2>1, <2>3
  <2>6. nodes[cur] = [node[cur] EXCEPT !.ref = node[cur].ref + 1] /\ node[cur] \in NodeRec
    BY <1>4, <2>1, <2>3
  <2>7. /\ nodes[cur].ref = node[cur].ref + 1 /\ node[cur].ref \in Int /\ nodes[cur].block = node[cur].block
        /\ nodes[cur].page = node[cur].page /\ nodes[cur].parent = node[cur].parent
    BY <2>6 DEF NodeRec
  <2>8. \A n \in Nodes : node[n].ref \in Int
    BY <2>1 DEF NodeRec
  <2>9. QED BY <2>4, <2>5, <2>7, <2>8 DEF Referenced
<1>9. PICK needed \in Nat : needed = TriePagesFor(Len(toks) - Len(path) * BlockTokens + 0)
  <2>1. PICK x \in Nat : x = Len(toks)
    OBVIOUS
  <2>2. x - Len(path) * BlockTokens + 0 = x - Len(path) * BlockTokens /\ TriePagesFor(x - Len(path) * BlockTokens) \in Nat
    <3>1. Len(path) * BlockTokens \in Nat /\ TriePagesFor(x - Len(path) * BlockTokens) \in Nat
      BY <1>2, <1>6, <2>1, PagesNat DEF FullBlocks
    <3>2. QED BY <3>1
  <2>3. QED BY <2>1, <2>2
<1>10. PICK order \in Seq(Nodes) : order = Touch(lru, path)
  <2>1. path \in Seq(Nodes) /\ lru \in Seq(Nodes)
    <3>1. Attached \subseteq Nodes
      BY <1>0 DEF Attached, AttachedIn
    <3>2. path \in Seq(Nodes)
      BY <1>2, <3>1
    <3>3. QED BY <1>0, <3>2 DEF TrieTypes
  <2>2. QED BY <2>1, TouchNodes
<1>11. PICK got : got = ObtainPages(nodes, order, needed)
  OBVIOUS
<1>13. /\ ~alloc[a].live /\ lru' = order /\ born' = born
       /\ free_list' = got.available /\ node' = got.node /\ children' = got.children /\ leaves' = got.leaves
       /\ alloc' = IF got.error # "ok" THEN alloc
                   ELSE [alloc EXCEPT ![a] = [live |-> TRUE, tokens |-> toks, last |-> cur,
                                              pages |-> cached \o got.obtained,
                                              published |-> Len(cached), same |-> FALSE]]
  <2>1. /\ ~alloc[a].live /\ lru' = Touch(lru, path) /\ born' = born
        /\ \E g \in {ObtainPages([node EXCEPT ![cur].ref = @ + 1], Touch(lru, path),
                                 TriePagesFor(Len(toks) - Len(path) * BlockTokens + 0))} :
              /\ Commit(g)
              /\ alloc' = IF g.error # "ok" THEN alloc
                          ELSE [alloc EXCEPT ![a] =
                                  [live |-> TRUE, tokens |-> toks, last |-> cur,
                                   pages |-> [i \in 1 .. Len(path) |-> node[path[i]].page] \o g.obtained,
                                   published |-> Len([i \in 1 .. Len(path) |-> node[path[i]].page]),
                                   same |-> FALSE]]
    <3> DEFINE Body(p, c) ==
               /\ ~alloc[a].live /\ node[c].ref < MaxRefs /\ lru' = Touch(lru, p)
               /\ \E g \in {ObtainPages([node EXCEPT ![c].ref = @ + 1], Touch(lru, p),
                                        TriePagesFor(Len(toks) - Len(p) * BlockTokens + 0))} :
                     /\ Commit(g)
                     /\ alloc' = IF g.error # "ok" THEN alloc
                                 ELSE [alloc EXCEPT ![a] =
                                         [live |-> TRUE, tokens |-> toks, last |-> c,
                                          pages |-> [i \in 1 .. Len(p) |-> node[p[i]].page] \o g.obtained,
                                          published |-> Len([i \in 1 .. Len(p) |-> node[p[i]].page]),
                                          same |-> FALSE]]
               /\ UNCHANGED born
    <3>1. \E p \in {MatchedPath(toks)} : Body(p, IF p = << >> THEN Root ELSE Last(p))
      BY DEF trie_acquire_pages
    <3>2. Body(path, cur)
      <4> HIDE DEF Body
      <4>1. QED BY <1>1, <1>3, <3>1
    <3>3. QED BY <3>2
  <2>2. QED BY <1>5, <1>7, <1>9, <1>10, <1>11, <2>1 DEF Commit
<1>14. Acquires(a, toks, path, cur, cached, nodes, order, needed, got)
  BY <1>1, <1>2, <1>3, <1>4, <1>6, <1>8, <1>9, <1>10, <1>11, <1>13 DEF Acquires
<1>15. QED BY <1>14

LEMMA AcquireKeeps ==
  ASSUME TrieInv, NEW a \in TrieAllocs, NEW toks \in Seq(Token), trie_acquire_pages(a, toks, 0)
  PROVE  TrieInv'
<1>0. /\ TrieTypes /\ born \in Nat /\ 1 .. born \subseteq Nodes /\ Root \in Nodes /\ Root \in 0 .. born
      /\ LinksIn(node, children, born)
  BY TrieNumbers DEF TrieInv, TrieTypes
<1>1. PICK path, cur, cached, nodes, order, needed, got :
         Acquires(a, toks, path, cur, cached, nodes, order, needed, got)
  BY AcquireMakes
<1>4. cur \in Attached \cup {Root} /\ cur \in Nodes /\ cur \in 0 .. born
  BY <1>1 DEF Acquires
<1>6. cached \in Seq(Pool!Pages) /\ Len(cached) = Len(path) /\ Len(path) \in Nat
  BY <1>1 DEF Acquires
<1>8. /\ \A n \in Nodes : nodes[n].ref = (IF n = cur THEN node[n].ref + 1 ELSE node[n].ref) /\ node[n].ref \in Int
      /\ Referenced(nodes)
  BY <1>1 DEF Acquires
<1>10. order \in Seq(Nodes)
  BY <1>1 DEF Acquires
<1>12. Safely(got, nodes)
  <2>1. needed \in Nat /\ got = ObtainPages(nodes, order, needed)
    BY <1>1 DEF Acquires
  <2>2. QED BY <1>8, <1>10, <2>1, GetSafely
<1>13. /\ ~alloc[a].live /\ lru' = order /\ born' = born
       /\ free_list' = got.available /\ node' = got.node /\ children' = got.children /\ leaves' = got.leaves
       /\ alloc' = IF got.error # "ok" THEN alloc
                   ELSE [alloc EXCEPT ![a] = [live |-> TRUE, tokens |-> toks, last |-> cur,
                                              pages |-> cached \o got.obtained,
                                              published |-> Len(cached), same |-> FALSE]]
  BY <1>1 DEF Acquires
<1>14. alloc[a] \in AllocRec /\ Unpublished(alloc[a]) = {} /\ \A n \in Nodes : Holds(alloc[a], n) = 0
  BY <1>0, <1>13 DEF TrieTypes, Unpublished, Holds
<1>15. \A n \in Nodes : /\ node[n].ref >= Cardinality(NodeHolders(n)) /\ Cardinality(NodeHolders(n)) \in Nat
  <2>1. alloc[a] \in AllocRec /\ alloc \in [TrieAllocs -> AllocRec]
    BY <1>0 DEF TrieTypes
  <2>2. \A n \in Nodes : IsFiniteSet(NodeHolders(n))
    <3>1. \A n \in Nodes : NodeHolders(n) \subseteq TrieAllocs /\ IsFiniteSet(TrieAllocs)
      BY TrieCacheAssumption DEF NodeHolders
    <3>2. QED BY <3>1, FS_Subset
  <2>3. QED BY <2>2, FS_CardinalityType DEF TrieInv, RefsSound
<1>16. CASE got.error = "ok"
  <2>1. PICK al : al = [live |-> TRUE, tokens |-> toks, last |-> cur, pages |-> cached \o got.obtained,
                        published |-> Len(cached), same |-> FALSE]
    OBVIOUS
  <2>2. alloc' = [alloc EXCEPT ![a] = al]
    BY <1>13, <1>16, <2>1
  <2>3. PICK obtained \in Seq(Pool!Pages) : obtained = got.obtained
    BY <1>12 DEF Safely
  <2>4. /\ cached \o obtained \in Seq(Pool!Pages)
        /\ \A i \in DOMAIN (cached \o obtained) : i > Len(cached) =>
              i - Len(cached) \in DOMAIN obtained /\ (cached \o obtained)[i] = obtained[i - Len(cached)]
    <3>1. cached \o obtained \in Seq(Pool!Pages)
      BY <1>6, ConcatItems
    <3>2. ASSUME NEW i \in DOMAIN (cached \o obtained), i > Len(cached)
          PROVE  i - Len(cached) \in DOMAIN obtained /\ (cached \o obtained)[i] = obtained[i - Len(cached)]
      <4>1. i \notin DOMAIN cached
        BY <1>6, <3>2
      <4>2. QED BY <1>6, <4>1, ConcatItems
    <3>3. QED BY <3>1, <3>2
  <2>5. al \in AllocRec
    BY <1>4, <1>6, <2>1, <2>3, <2>4 DEF AllocRec
  <2>6. al.live /\ al.last = cur /\ al.pages = cached \o obtained /\ al.published = Len(cached)
    BY <2>1, <2>3
  <2>7. ASSUME NEW i \in Unpublished(al)
        PROVE  i - Len(cached) \in DOMAIN got.obtained /\ al.pages[i] = got.obtained[i - Len(cached)]
    BY <2>3, <2>4, <2>6, <2>7 DEF Unpublished
  <2>8. nodes[cur].ref > 0
    <3>1. node[cur].ref >= 0 /\ node[cur].ref \in Int
      BY <1>0, <1>4, <1>8, HeldReferenced DEF TrieInv
    <3>2. QED BY <1>4, <1>8, <3>1
  <2>9. CountedNext(nodes)
    <3>1. SUFFICES ASSUME NEW n \in Nodes PROVE nodes[n].ref >= Cardinality(NodeHolders(n)')
      BY DEF CountedNext
    <3>2. Cardinality(NodeHolders(n)') = (Cardinality(NodeHolders(n)) + Holds(al, n)) - Holds(alloc[a], n)
      BY <1>0, <2>2, <2>5, HoldersMove
    <3>3. Holds(alloc[a], n) = 0 /\ Holds(al, n) = IF n = cur THEN 1 ELSE 0
      BY <1>14, <2>6 DEF Holds
    <3>4. PICK r \in Int, c \in Int : r = node[n].ref /\ c = Cardinality(NodeHolders(n)) /\ r >= c
      BY <1>8, <1>15
    <3>5. nodes[n].ref = r + (IF n = cur THEN 1 ELSE 0)
      BY <1>8, <3>4
    <3>6. Cardinality(NodeHolders(n)') = c + (IF n = cur THEN 1 ELSE 0)
      BY <3>2, <3>3, <3>4
    <3>7. QED BY <3>4, <3>5, <3>6
  <2>10. PICK off \in Int : off = Len(cached)
    BY <1>6
  <2>11. Grows(a, al, off, got)
    BY <2>7, <2>10 DEF Grows
  <2>12. LastHeld(al, nodes)
    BY <1>4, <2>6, <2>8 DEF LastHeld
  <2>13. Committed(got)
    BY <1>10, <1>13 DEF Committed
  <2>14. QED BY <1>8, <1>12, <2>2, <2>5, <2>9, <2>11, <2>12, <2>13, GetsKeep
<1>17. CASE got.error # "ok"
  <2>1. alloc' = alloc
    BY <1>13, <1>17
  <2>2. alloc' = [alloc EXCEPT ![a] = alloc[a]]
    BY <1>0, <2>1, AllocSame
  <2>3. Grows(a, alloc[a], 0, got)
    BY DEF Grows
  <2>4. LastHeld(alloc[a], nodes)
    BY <1>0, <1>13 DEF TrieTypes, LastHeld
  <2>5. CountedNext(nodes)
    <3>1. SUFFICES ASSUME NEW n \in Nodes PROVE nodes[n].ref >= Cardinality(NodeHolders(n)')
      BY DEF CountedNext
    <3>2. NodeHolders(n)' = NodeHolders(n)
      BY <2>1 DEF NodeHolders
    <3>3. QED BY <1>8, <1>15, <3>2
  <2>6. Committed(got) /\ 0 \in Int
    BY <1>10, <1>13 DEF Committed
  <2>7. QED BY <1>8, <1>12, <1>14, <2>2, <2>3, <2>4, <2>5, <2>6, GetsKeep
<1>18. QED BY <1>16, <1>17

\* node itself, with no reference added.
LEMMA NodeReferenced ==
  ASSUME TrieInv
  PROVE  /\ Referenced(node)
         /\ \A n \in Nodes : node[n].ref \in Int /\ node[n].ref >= Cardinality(NodeHolders(n))
         /\ \A a \in TrieAllocs : LastHeld(alloc[a], node)
<1>0. TrieTypes /\ RefsSound
  BY DEF TrieInv
<1>1. \A n \in Nodes : node[n].ref \in Int
  BY <1>0 DEF TrieTypes, NodeRec
<1>2. Referenced(node)
  BY <1>0, <1>1 DEF TrieTypes, Referenced
<1>3. \A a \in TrieAllocs : LastHeld(alloc[a], node)
  BY <1>0, HeldReferenced DEF TrieInv, TrieTypes, HeldAttached, LastHeld
<1>4. QED BY <1>0, <1>1, <1>2, <1>3 DEF RefsSound

\* An allocation that holds the same node keeps it counted.
LEMMA CountedSame ==
  ASSUME TrieInv, NEW a \in TrieAllocs, NEW al \in AllocRec, alloc' = [alloc EXCEPT ![a] = al],
         al.live = alloc[a].live, al.last = alloc[a].last
  PROVE  CountedNext(node)
<1>1. SUFFICES ASSUME NEW n \in Nodes PROVE node[n].ref >= Cardinality(NodeHolders(n)')
  BY DEF CountedNext
<1>2. /\ Cardinality(NodeHolders(n)) \in Nat
      /\ Cardinality(NodeHolders(n)') = (Cardinality(NodeHolders(n)) + Holds(al, n)) - Holds(alloc[a], n)
  BY HoldersMove DEF TrieInv
<1>3. Holds(al, n) = Holds(alloc[a], n) /\ Holds(al, n) \in {0, 1}
  BY DEF Holds
<1>4. QED BY <1>2, <1>3, NodeReferenced

\* A call that changes nothing but what an allocation knows of its tokens.
LEMMA OwnerKeeps ==
  ASSUME TrieInv, UNCHANGED <<free_list, node, children, born, leaves, lru>>,
         NEW a \in TrieAllocs, NEW al \in AllocRec, alloc' = [alloc EXCEPT ![a] = al],
         al.live = alloc[a].live, al.last = alloc[a].last, al.pages = alloc[a].pages,
         al.published = alloc[a].published
  PROVE  TrieInv'
<1>0. TrieTypes /\ Len(free_list) \in Nat /\ lru \in Seq(Nodes)
  BY DEF TrieInv, TrieTypes
<1>1. PICK got : got = ObtainPages(node, lru, 0)
  OBVIOUS
<1>2. Safely(got, node)
  BY <1>0, <1>1, NodeReferenced, GetSafely
<1>3. Committed(got)
  <2>1. /\ got.node = node /\ got.children = children /\ got.leaves = leaves
        /\ got.available = SubSeq(free_list, 1, -(0 - Len(free_list)))
    BY <1>0, <1>1 DEF ObtainPages
  <2>2. SubSeq(free_list, 1, -(0 - Len(free_list))) = free_list
    BY <1>0 DEF TrieTypes
  <2>3. QED BY <1>0, <2>1, <2>2 DEF Committed
<1>4. PICK off \in Int : off = 0
  OBVIOUS
<1>5. Grows(a, al, off, got)
  BY DEF Grows, Unpublished
<1>6. LastHeld(al, node)
  BY NodeReferenced DEF LastHeld
<1>7. CountedNext(node)
  BY CountedSame
<1>8. Referenced(node)
  BY NodeReferenced
<1>9. QED BY <1>2, <1>3, <1>4, <1>5, <1>6, <1>7, <1>8, GetsKeep

LEMMA ExtendKeeps ==
  ASSUME TrieInv, NEW a \in TrieAllocs, NEW toks \in Seq(Token), NEW same \in BOOLEAN,
         trie_extend_allocation(a, toks, 1, same)
  PROVE  TrieInv'
<1>0. TrieTypes /\ lru \in Seq(Nodes) /\ alloc \in [TrieAllocs -> AllocRec] /\ alloc[a] \in AllocRec
  BY DEF TrieInv, TrieTypes
<1>1. PICK needed : needed = TriePagesFor(Len(toks) + 1) - Len(alloc[a].pages)
  OBVIOUS
<1>2. PICK kept : kept = [alloc[a] EXCEPT !.tokens = toks, !.same = same]
  OBVIOUS
<1>3. /\ kept \in AllocRec /\ kept.live = alloc[a].live /\ kept.last = alloc[a].last
      /\ kept.pages = alloc[a].pages /\ kept.published = alloc[a].published
  BY <1>0, <1>2 DEF AllocRec
<1>4. PICK extended : extended = [alloc EXCEPT ![a].tokens = toks, ![a].same = same]
  OBVIOUS
<1>5. extended = [alloc EXCEPT ![a] = kept] /\ extended \in [TrieAllocs -> AllocRec]
  <2>1. extended = [alloc EXCEPT ![a] = kept]
    BY <1>0, <1>2, <1>4
  <2>2. QED BY <1>0, <1>3, <2>1
<1>6. CASE needed <= 0 /\ alloc' = extended /\ UNCHANGED <<free_list, trieVars>>
  <2>1. UNCHANGED <<free_list, node, children, born, leaves, lru>>
    BY <1>6 DEF trieVars
  <2>2. alloc' = [alloc EXCEPT ![a] = kept]
    BY <1>5, <1>6
  <2>3. QED BY <1>3, <2>1, <2>2, OwnerKeeps
<1>7. CASE /\ needed > 0 /\ UNCHANGED <<born, lru>>
           /\ \E got \in {ObtainPages(node, lru, needed)} :
                 /\ Commit(got)
                 /\ alloc' = IF got.error # "ok" THEN alloc
                             ELSE [extended EXCEPT ![a].pages = @ \o got.obtained]
  <2>1. PICK got : /\ got = ObtainPages(node, lru, needed) /\ Commit(got)
                   /\ alloc' = IF got.error # "ok" THEN alloc
                               ELSE [extended EXCEPT ![a].pages = @ \o got.obtained]
    BY <1>7
  <2>2. needed \in Nat
    <3>1. PICK x \in Nat : x = Len(toks) + 1 + BlockTokens - 1
      BY TrieCacheAssumption
    <3>2. BlockTokens \in Nat /\ BlockTokens > 0
      BY TrieCacheAssumption
    <3>3. x \div BlockTokens \in Int
      BY <3>2
    <3>4. alloc[a].pages \in Seq(Pool!Pages)
      BY <1>0 DEF AllocRec
    <3>5. Len(alloc[a].pages) \in Int
      BY <3>4
    <3>6. needed = x \div BlockTokens - Len(alloc[a].pages)
      BY <1>1, <3>1 DEF TriePagesFor
    <3>7. QED BY <1>7, <3>3, <3>5, <3>6
  <2>3. Safely(got, node) /\ Referenced(node)
    BY <1>0, <2>1, <2>2, NodeReferenced, GetSafely
  <2>4. Committed(got)
    BY <1>0, <1>7, <2>1 DEF Commit, Committed
  <2>5. CASE got.error # "ok"
    <3>1. alloc' = [alloc EXCEPT ![a] = alloc[a]]
      BY <1>0, <2>1, <2>5, AllocSame
    <3>2. Grows(a, alloc[a], 0, got) /\ 0 \in Int
      BY DEF Grows
    <3>3. LastHeld(alloc[a], node)
      BY NodeReferenced
    <3>4. CountedNext(node)
      BY <1>0, <3>1, CountedSame
    <3>5. QED BY <1>0, <2>3, <2>4, <3>1, <3>2, <3>3, <3>4, GetsKeep
  <2>6. CASE got.error = "ok"
    <3>1. PICK base \in Seq(Pool!Pages) : base = alloc[a].pages
      BY <1>0 DEF AllocRec
    <3>2. PICK obtained \in Seq(Pool!Pages) : obtained = got.obtained
      BY <2>3 DEF Safely
    <3>3. PICK al : al = [kept EXCEPT !.pages = base \o obtained]
      OBVIOUS
    <3>4. base \o obtained \in Seq(Pool!Pages)
      BY ConcatItems
    <3>5. /\ al \in AllocRec /\ al.live = alloc[a].live /\ al.last = alloc[a].last
          /\ al.pages = base \o obtained /\ al.published = alloc[a].published
      BY <1>3, <3>3, <3>4 DEF AllocRec
    <3>6. alloc' = [alloc EXCEPT ![a] = al]
      <4>1. alloc' = [extended EXCEPT ![a] = [extended[a] EXCEPT !.pages = extended[a].pages \o obtained]]
        BY <2>1, <2>6, <3>2
      <4>2. extended[a] = kept
        BY <1>0, <1>5
      <4>3. [extended[a] EXCEPT !.pages = extended[a].pages \o obtained] = al
        BY <1>3, <3>1, <3>3, <4>2
      <4>4. QED BY <1>0, <1>5, <4>1, <4>3
    <3>7. PICK off \in Int : off = Len(base)
      OBVIOUS
    <3>8. Grows(a, al, off, got)
      <4>1. SUFFICES ASSUME NEW i \in Unpublished(al)
                     PROVE  \/ i \in Unpublished(alloc[a]) /\ al.pages[i] = alloc[a].pages[i]
                            \/ i - off \in DOMAIN got.obtained /\ al.pages[i] = got.obtained[i - off]
        BY DEF Grows
      <4>2. i \in DOMAIN (base \o obtained) /\ alloc[a].live /\ i > alloc[a].published
        BY <3>5 DEF Unpublished
      <4>3. CASE i \in DOMAIN base
        <5>1. (base \o obtained)[i] = base[i]
          BY <4>3, ConcatItems
        <5>2. QED BY <3>1, <3>5, <4>2, <4>3, <5>1 DEF Unpublished
      <4>4. CASE i \notin DOMAIN base
        <5>1. i - Len(base) \in DOMAIN obtained /\ (base \o obtained)[i] = obtained[i - Len(base)]
          BY <4>2, <4>4, ConcatItems
        <5>2. QED BY <3>2, <3>5, <3>7, <5>1
      <4>5. QED BY <4>3, <4>4
    <3>9. LastHeld(al, node)
      BY <3>5, NodeReferenced DEF LastHeld
    <3>10. CountedNext(node)
      BY <3>5, <3>6, CountedSame
    <3>11. QED BY <2>3, <2>4, <3>5, <3>6, <3>8, <3>9, <3>10, GetsKeep
  <2>7. QED BY <2>5, <2>6
<1>8. QED BY <1>1, <1>4, <1>6, <1>7 DEF trie_extend_allocation

LEMMA SameListKeeps ==
  ASSUME TrieInv, NEW a \in TrieAllocs, NEW toks \in Seq(Token), ExtendWithSameList(a, toks)
  PROVE  TrieInv'
<1>0. alloc \in [TrieAllocs -> AllocRec] /\ alloc[a] \in AllocRec
  BY DEF TrieInv, TrieTypes
<1>1. PICK al : al = [alloc[a] EXCEPT !.tokens = toks]
  OBVIOUS
<1>2. /\ al \in AllocRec /\ al.live = alloc[a].live /\ al.last = alloc[a].last
      /\ al.pages = alloc[a].pages /\ al.published = alloc[a].published
  BY <1>0, <1>1 DEF AllocRec
<1>3. alloc' = [alloc EXCEPT ![a] = al]
  BY <1>0, <1>1 DEF ExtendWithSameList
<1>4. UNCHANGED <<free_list, node, children, born, leaves, lru>>
  BY DEF ExtendWithSameList, trieVars
<1>5. QED BY <1>2, <1>3, <1>4, OwnerKeeps

\* Nodes that differ in their ref_count at most.
SameShape(x, y) ==
    \A n \in Nodes : x[n].parent = y[n].parent /\ x[n].page = y[n].page /\ x[n].block = y[n].block

\* release_pages.
LEMMA ReleaseKeeps ==
  ASSUME TrieInv, NEW a \in TrieAllocs, TrieReleaseLive(a)
  PROVE  TrieInv'
<1>0. /\ TrieTypes /\ alloc \in [TrieAllocs -> AllocRec] /\ alloc[a] \in AllocRec /\ alloc[a].live
      /\ node \in [Nodes -> NodeRec] /\ 1 .. born \subseteq Nodes
      /\ alloc[a].last \in Nodes /\ alloc[a].last \in 0 .. born
  BY TrieNumbers DEF TrieInv, TrieTypes, AllocRec, TrieReleaseLive
<1>1. PICK L \in Nodes : L = alloc[a].last
  BY <1>0
<1>2. PICK al : al = [live |-> FALSE, tokens |-> << >>, last |-> L, pages |-> << >>,
                      published |-> 0, same |-> FALSE]
  OBVIOUS
<1>3. al \in AllocRec /\ ~al.live /\ al.last = L
  BY <1>2 DEF AllocRec
<1>4. alloc' = [alloc EXCEPT ![a] = al]
  BY <1>0, <1>1, <1>2 DEF TrieReleaseLive
<1>5. \A c \in TrieAllocs : alloc'[c] = IF c = a THEN al ELSE alloc[c]
  BY <1>0, <1>4
<1>6. node' = [node EXCEPT ![L].ref = @ - 1]
  BY <1>1 DEF TrieReleaseLive
<1>7. \A n \in Nodes : node[n] \in NodeRec /\ node[n].ref \in Int
  BY <1>0 DEF NodeRec
<1>8. node' \in [Nodes -> NodeRec] /\ SameShape(node', node)
  <2>1. node' = [n \in Nodes |-> IF n = L THEN [node[n] EXCEPT !.ref = @ - 1] ELSE node[n]]
    BY <1>0, <1>6
  <2>2. [node[L] EXCEPT !.ref = @ - 1] \in NodeRec
    BY <1>7 DEF NodeRec
  <2>3. QED BY <1>7, <2>1, <2>2 DEF SameShape, NodeRec
<1>9. \A n \in Nodes : node'[n].ref = node[n].ref - (IF n = L THEN 1 ELSE 0)
  BY <1>0, <1>6, <1>7 DEF NodeRec
<1>10. UNCHANGED <<free_list, children, born, leaves, lru>>
  BY DEF TrieReleaseLive
<1>11. TrieTypes'
  <2>1. alloc' \in [TrieAllocs -> AllocRec]
    BY <1>0, <1>3, <1>4
  <2>2. \A c \in TrieAllocs : alloc'[c].last \in 0 .. born'
    BY <1>0, <1>1, <1>3, <1>5, <1>10 DEF TrieTypes
  <2>3. QED BY <1>8, <1>10, <2>1, <2>2 DEF TrieInv, TrieTypes
<1>12. AttachedIn(node', born) = Attached /\ Attached' = Attached
  BY <1>0, <1>8, <1>10 DEF Attached, AttachedIn, SameShape
<1>13. LinksIn(node, children, born)' /\ ParentsIn(node, born)'
  BY <1>0, <1>8, <1>10 DEF TrieInv, LinksIn, ParentsIn, SameShape
<1>14. /\ \A n \in Attached : node'[n].page = node[n].page
       /\ NodesApart(node, born)' /\ FreeApart(free_list, node, born)'
  <2>1. \A n \in Attached : node'[n].page = node[n].page
    BY <1>0, <1>8 DEF SameShape, Attached, AttachedIn
  <2>2. QED BY <1>10, <1>12, <2>1 DEF TrieInv, NodesApart, FreeApart, Attached
<1>15. HeldAttached'
  BY <1>3, <1>5, <1>12 DEF TrieInv, HeldAttached
<1>16. RefsSound'
  <2>1. SUFFICES ASSUME NEW n \in Nodes PROVE node'[n].ref >= Cardinality(NodeHolders(n)')
    BY DEF RefsSound
  <2>2. /\ Cardinality(NodeHolders(n)) \in Nat
        /\ Cardinality(NodeHolders(n)') = (Cardinality(NodeHolders(n)) + Holds(al, n)) - Holds(alloc[a], n)
    BY <1>0, <1>3, <1>4, HoldersMove
  <2>3. Holds(al, n) = 0 /\ Holds(alloc[a], n) = IF n = L THEN 1 ELSE 0
    BY <1>0, <1>1, <1>3 DEF Holds
  <2>4. node[n].ref >= Cardinality(NodeHolders(n))
    BY DEF TrieInv, RefsSound
  <2>5. QED BY <1>7, <1>9, <2>2, <2>3, <2>4
<1>17. PrivateApart'
  <2>1. \A c \in TrieAllocs : \A i \in Unpublished(alloc'[c]) : i \in Unpublished(alloc[c]) /\ alloc'[c] = alloc[c]
    BY <1>3, <1>5 DEF Unpublished
  <2>2. QED BY <1>10, <1>12, <1>14, <2>1 DEF TrieInv, PrivateApart, Unpublished
<1>18. QED BY <1>11, <1>13, <1>14, <1>15, <1>16, <1>17 DEF TrieInv

\* The nodes made for the first k unpublished pages of an allocation, each a
\* child of the one before it.
Made(nodes, kids, al, k) ==
    /\ \A n \in Nodes : n \notin born + 1 .. born + k =>
          nodes[n].parent = node[n].parent /\ nodes[n].page = node[n].page /\ nodes[n].block = node[n].block
    /\ \A n \in born + 1 .. born + k :
          /\ nodes[n].page = al.pages[al.published + (n - born)]
          /\ nodes[n].parent = IF n = born + 1 THEN al.last ELSE n - 1
          /\ nodes[n].block = BlockAt(al.tokens, al.published + (n - born))
    /\ \A m \in Nodes : \A x \in DOMAIN kids[m] :
          \/ x \in DOMAIN children[m] /\ kids[m][x] = children[m][x]
          \/ /\ kids[m][x] \in born + 1 .. born + k
             /\ nodes[kids[m][x]].parent = m /\ nodes[kids[m][x]].block = x

LEMMA MadeKeeps ==
  ASSUME TrieInv, NEW a \in TrieAllocs, alloc[a].live, NEW k \in Nat, born + k \in 0 .. MaxNodes,
         \A i \in 1 .. k : alloc[a].published + i \in DOMAIN alloc[a].pages,
         NEW nodes, NEW kids, Made(nodes, kids, alloc[a], k)
  PROVE  /\ AttachedIn(nodes, born + k) = Attached \cup (born + 1 .. born + k)
         /\ \A n \in Attached : nodes[n].page = node[n].page
         /\ \A n \in born + 1 .. born + k :
               /\ alloc[a].published + (n - born) \in Unpublished(alloc[a])
               /\ nodes[n].page = alloc[a].pages[alloc[a].published + (n - born)]
         /\ LinksIn(nodes, kids, born + k) /\ ParentsIn(nodes, born + k)
         /\ NodesApart(nodes, born + k) /\ FreeApart(free_list, nodes, born + k)
<1>0. /\ TrieTypes /\ alloc[a] \in AllocRec /\ born \in Nat /\ 1 .. born + k \subseteq Nodes
      /\ alloc[a].published \in Nat /\ alloc[a].pages \in Seq(Pool!Pages) /\ alloc[a].last \in 0 .. born
  <2>1. /\ TrieTypes /\ alloc[a] \in AllocRec /\ born \in Nat /\ alloc[a].last \in 0 .. born
    BY TrieNumbers DEF TrieInv, TrieTypes
  <2>2. alloc[a].published \in Nat /\ alloc[a].pages \in Seq(Pool!Pages)
    BY <2>1 DEF AllocRec
  <2>3. 1 .. born + k \subseteq Nodes
    BY <2>1, TrieNumbers
  <2>4. QED BY <2>1, <2>2, <2>3
<1> DEFINE New == born + 1 .. born + k
           P == alloc[a].published
<1>1. /\ New \subseteq Nodes /\ 1 .. born \subseteq Nodes /\ New \subseteq 1 .. born + k
      /\ 1 .. born + k = (1 .. born) \cup New /\ \A n \in 1 .. born : n \notin New
      /\ \A n \in New : n - born \in 1 .. k
  BY <1>0
<1>2. \A n \in 1 .. born : nodes[n].parent = node[n].parent /\ nodes[n].page = node[n].page
  BY <1>1 DEF Made
<1>3. \A n \in New : nodes[n].parent \in 0 .. born + k /\ nodes[n].parent # None
  <2>1. \A n \in New : nodes[n].parent = alloc[a].last \/ (nodes[n].parent = n - 1)
    BY DEF Made
  <2>2. alloc[a].last \in 0 .. born + k /\ \A n \in New : n - 1 \in 0 .. born + k
    BY <1>0
  <2>3. \A x \in 0 .. born + k : x # None
    BY TrieNumbers
  <2>4. QED BY <2>1, <2>2, <2>3
<1>4. \A n \in New : P + (n - born) \in Unpublished(alloc[a]) /\ nodes[n].page = alloc[a].pages[P + (n - born)]
  <2>1. SUFFICES ASSUME NEW n \in New
                 PROVE  P + (n - born) \in Unpublished(alloc[a]) /\ nodes[n].page = alloc[a].pages[P + (n - born)]
    OBVIOUS
  <2>2. nodes[n].page = alloc[a].pages[P + (n - born)]
    BY DEF Made
  <2>3. PICK i \in 1 .. k : i = n - born
    BY <1>1
  <2>4. P + i \in DOMAIN alloc[a].pages
    OBVIOUS
  <2>5. P + i > P
    BY <1>0
  <2>6. QED BY <2>2, <2>3, <2>4, <2>5 DEF Unpublished
<1>5. AttachedIn(nodes, born + k) = Attached \cup New
  BY <1>1, <1>2, <1>3 DEF Attached, AttachedIn
<1>6. Attached \subseteq 1 .. born /\ \A n \in Attached : nodes[n].page = node[n].page
  BY <1>2 DEF Attached, AttachedIn
<1>7. LinksIn(nodes, kids, born + k)
  <2>1. SUFFICES ASSUME NEW m \in Nodes, NEW x \in DOMAIN kids[m]
                 PROVE  /\ kids[m][x] \in 1 .. born + k
                        /\ nodes[kids[m][x]].parent = m /\ nodes[kids[m][x]].block = x
    BY DEF LinksIn
  <2>2. CASE x \in DOMAIN children[m] /\ kids[m][x] = children[m][x]
    <3>1. PICK n \in 1 .. born : n = children[m][x] /\ node[n].parent = m /\ node[n].block = x
      BY <2>2 DEF TrieInv, LinksIn
    <3>2. nodes[n].parent = node[n].parent /\ nodes[n].block = node[n].block
      BY <1>1 DEF Made
    <3>3. QED BY <1>1, <2>2, <3>1, <3>2
  <2>3. CASE kids[m][x] \in New /\ nodes[kids[m][x]].parent = m /\ nodes[kids[m][x]].block = x
    BY <1>1, <2>3
  <2>4. QED BY <2>2, <2>3 DEF Made
<1>8. ParentsIn(nodes, born + k)
  <2>1. \A n \in 1 .. born : nodes[n].parent \in (0 .. born + k) \cup {None}
    <3>1. (0 .. born) \subseteq (0 .. born + k)
      BY <1>0
    <3>2. QED BY <1>2, <3>1 DEF TrieInv, ParentsIn
  <2>2. QED BY <1>1, <1>3, <2>1 DEF ParentsIn
<1>9. \A n \in New : /\ nodes[n].page \in Pool!Pages
                     /\ \A m \in Attached : nodes[m].page # nodes[n].page
                     /\ \A m \in New : nodes[m].page = nodes[n].page => m = n
                     /\ \A j \in DOMAIN free_list : free_list[j] # nodes[n].page
  <2>1. SUFFICES ASSUME NEW n \in New
                 PROVE  /\ nodes[n].page \in Pool!Pages
                        /\ \A m \in Attached : nodes[m].page # nodes[n].page
                        /\ \A m \in New : nodes[m].page = nodes[n].page => m = n
                        /\ \A j \in DOMAIN free_list : free_list[j] # nodes[n].page
    OBVIOUS
  <2>2. PICK i \in Unpublished(alloc[a]) : i = P + (n - born) /\ nodes[n].page = alloc[a].pages[i]
    BY <1>4
  <2>3. nodes[n].page \in Pool!Pages
    BY <1>0, <2>2 DEF Unpublished
  <2>4. \A j \in DOMAIN free_list : free_list[j] # nodes[n].page
    BY <2>2 DEF TrieInv, PrivateApart
  <2>5. \A m \in Attached : nodes[m].page # nodes[n].page
    BY <1>6, <2>2 DEF TrieInv, PrivateApart
  <2>6. ASSUME NEW m \in New, nodes[m].page = nodes[n].page PROVE m = n
    <3>1. PICK j \in Unpublished(alloc[a]) : j = P + (m - born) /\ nodes[m].page = alloc[a].pages[j]
      BY <1>4
    <3>2. alloc[a].pages[i] = alloc[a].pages[j]
      BY <2>2, <2>6, <3>1
    <3>3. i = j
      BY <3>2 DEF TrieInv, PrivateApart
    <3>4. \A x \in New : x \in Int
      BY <1>0
    <3>5. m \in Int /\ n \in Int /\ P \in Int /\ born \in Int
      BY <1>0, <3>4
    <3> HIDE DEF New, P
    <3>6. QED BY <2>2, <3>1, <3>3, <3>5
  <2>7. QED BY <2>3, <2>4, <2>5, <2>6
<1>10. /\ \A n \in Attached : nodes[n].page \in Pool!Pages
       /\ \A m, n \in Attached : nodes[m].page = nodes[n].page => m = n
       /\ \A n \in Attached : \A i \in DOMAIN free_list : free_list[i] # nodes[n].page
       /\ \A i, j \in DOMAIN free_list : free_list[i] = free_list[j] => i = j
  BY <1>6 DEF TrieInv, NodesApart, FreeApart, Attached
<1> HIDE DEF New
<1>11. NodesApart(nodes, born + k)
  BY <1>5, <1>9, <1>10 DEF NodesApart
<1>12. FreeApart(free_list, nodes, born + k)
  BY <1>5, <1>9, <1>10 DEF FreeApart
<1>13. QED BY <1>4, <1>5, <1>6, <1>7, <1>8, <1>11, <1>12 DEF New

\* How many nodes a publication makes: no more than it has pages for.
LEMMA MadeCount ==
  ASSUME NEW upto \in Nat, NEW l \in Nat, NEW p \in Nat,
         NEW k, k = Max({0, Min({upto, l}) - p})
  PROVE  k \in Nat /\ \A i \in 1 .. k : p + i <= upto /\ p + i <= l
<1>1. PICK m \in Nat : m = Min({upto, l}) /\ m <= upto /\ m <= l
  <2>1. \E x \in {upto, l} : \A y \in {upto, l} : x <= y
    OBVIOUS
  <2>2. Min({upto, l}) \in {upto, l} /\ \A y \in {upto, l} : Min({upto, l}) <= y
    BY <2>1 DEF Min
  <2>3. QED BY <2>2
<1>2. PICK d \in Int : d = m - p
  OBVIOUS
<1>3. k \in {0, d} /\ k >= 0 /\ k >= d
  <2>1. \E x \in {0, d} : \A y \in {0, d} : x >= y
    OBVIOUS
  <2>2. Max({0, d}) \in {0, d} /\ \A y \in {0, d} : Max({0, d}) >= y
    BY <2>1 DEF Max
  <2>3. k = Max({0, d})
    BY <1>1, <1>2
  <2>4. QED BY <2>2, <2>3
<1>4. k \in Nat /\ (k > 0 => k = d)
  BY <1>2, <1>3
<1>5. ASSUME NEW i \in 1 .. k PROVE p + i <= upto /\ p + i <= l
  <2>1. i \in Nat /\ i <= m - p
    BY <1>2, <1>4
  <2>2. QED BY <1>1, <2>1
<1>6. QED BY <1>4, <1>5

\* What publish_pages_for_tokens does: k nodes are made, and the reference of
\* the allocation moves to the last of them if it had tokens to publish.
Publishes(a, k, upto, cur, nodes, moved) ==
    /\ alloc[a].live /\ k \in Nat /\ born + k \in 0 .. MaxNodes
    /\ upto \in Nat /\ upto >= alloc[a].published
    /\ k = Max({0, Min({upto, Len(alloc[a].pages)}) - alloc[a].published})
    /\ \A i \in 1 .. k : alloc[a].published + i <= upto /\ alloc[a].published + i \in DOMAIN alloc[a].pages
    /\ cur = IF k = 0 THEN alloc[a].last ELSE born + k
    /\ nodes \in [Nodes -> NodeRec] /\ Made(nodes, children', alloc[a], k)
    /\ \A n \in Nodes : nodes[n].ref = IF n \in born + 1 .. born + k THEN 0 ELSE node[n].ref
    /\ children' \in [Nodes -> Dicts] /\ born' = born + k /\ free_list' = free_list
    /\ lru' \in Seq(Nodes) /\ leaves' \subseteq 1 .. born + k
    /\ moved <=> Len(alloc[a].tokens) > alloc[a].published * BlockTokens
    /\ node' = IF moved
               THEN [n \in Nodes |->
                       [nodes[n] EXCEPT !.ref = @ + (IF n = cur THEN 1 ELSE 0)
                                                  - (IF n = alloc[a].last THEN 1 ELSE 0)]]
               ELSE nodes
    /\ alloc' = [alloc EXCEPT ![a].last = IF moved THEN cur ELSE @, ![a].published = upto]

LEMMA PublishMakes ==
  ASSUME TrieInv, NEW a \in TrieAllocs, NEW len \in Nat, trie_publish_pages(a, len)
  PROVE  \E k, cur, nodes : \E moved \in BOOLEAN :
            Publishes(a, k, len \div BlockTokens, cur, nodes, moved)
<1> DEFINE al == alloc[a]
           upto == len \div BlockTokens
           made == Max({0, Min({upto, Len(al.pages)}) - al.published})
           id(i) == IF i = 0 THEN al.last ELSE born + i
           cur == id(made)
           b(i) == UnpublishedBlock(al, i)
           moved == Len(al.tokens) > al.published * BlockTokens
           created == [n \in Nodes |->
                         IF n \in born + 1 .. born + made
                         THEN [block |-> b(n - born), page |-> al.pages[al.published + n - born],
                               parent |-> id(n - born - 1), ref |-> 0]
                         ELSE node[n]]
           kid(n, i) == [k \in DOMAIN children[n] \cup {b(i)} |->
                           IF k = b(i) THEN id(i) ELSE children[n][k]]
<1>1. /\ al.live /\ upto >= al.published /\ born + made <= MaxNodes
      /\ born' = born + made /\ free_list' = free_list
      /\ leaves' = leaves \cup ({cur} \ {Root})
      /\ lru' = lru \o [i \in 1 .. made |-> born + i]
  BY DEF trie_publish_pages
<1>2. node' = IF moved
              THEN [n \in Nodes |->
                      [created[n] EXCEPT !.ref = @ + (IF n = cur THEN 1 ELSE 0)
                                                   - (IF n = al.last THEN 1 ELSE 0)]]
              ELSE created
  BY DEF trie_publish_pages
<1>3. children' = [n \in Nodes |->
         IF \E i \in 1 .. made : n = id(i - 1)
         THEN kid(n, CHOOSE j \in 1 .. made : n = id(j - 1))
         ELSE children[n]]
  BY DEF trie_publish_pages
<1>4. alloc' = [alloc EXCEPT ![a].last = IF moved THEN cur ELSE @, ![a].published = upto]
  BY DEF trie_publish_pages
<1>5. /\ TrieTypes /\ al \in AllocRec /\ born \in Nat /\ al.last \in 0 .. born
      /\ al.published \in Nat /\ al.pages \in Seq(Pool!Pages) /\ al.tokens \in Seq(Token)
      /\ node \in [Nodes -> NodeRec] /\ children \in [Nodes -> Dicts]
  <2>1. TrieTypes /\ al \in AllocRec
    BY DEF TrieInv, TrieTypes
  <2>2. QED BY <2>1 DEF TrieTypes, AllocRec
<1>6. upto \in Nat
  BY TrieCacheAssumption
<1>7. moved \in BOOLEAN /\ (moved <=> Len(al.tokens) > al.published * BlockTokens)
  OBVIOUS
<1> HIDE DEF upto, moved
<1>8. /\ made \in Nat
      /\ \A i \in 1 .. made : al.published + i <= upto /\ al.published + i \in DOMAIN al.pages
  <2>1. PICK l \in Nat : l = Len(al.pages) /\ DOMAIN al.pages = 1 .. l
    BY <1>5
  <2>2. made = Max({0, Min({upto, l}) - al.published})
    BY <2>1
  <2> HIDE DEF made
  <2>3. made \in Nat /\ \A i \in 1 .. made : al.published + i <= upto /\ al.published + i <= l
    BY <1>5, <1>6, <2>2, MadeCount
  <2>4. ASSUME NEW i \in 1 .. made PROVE al.published + i \in 1 .. l
    BY <1>5, <2>1, <2>3
  <2>5. QED BY <2>1, <2>3, <2>4
<1>8a. made = Max({0, Min({upto, Len(al.pages)}) - al.published})
  OBVIOUS
<1> HIDE DEF made
<1> DEFINE New == born + 1 .. born + made
<1>9. /\ born + made \in 0 .. MaxNodes /\ New \subseteq Nodes /\ 0 .. born + made \subseteq Nodes
      /\ \A n \in New : n - born \in 1 .. made /\ (n - born - 1) \in 0 .. made /\ n \in Int
  <2>1. born + made \in 0 .. MaxNodes /\ MaxNodes \in Nat /\ Nodes = 0 .. MaxNodes
    BY <1>1, <1>5, <1>8, TrieNumbers
  <2>2. New \subseteq Nodes /\ 0 .. born + made \subseteq Nodes
    BY <1>5, <2>1
  <2>3. ASSUME NEW n \in New
        PROVE  n - born \in 1 .. made /\ (n - born - 1) \in 0 .. made /\ n \in Int
    BY <1>5, <1>8
  <2> HIDE DEF New
  <2>4. QED BY <2>1, <2>2, <2>3
<1>10. /\ \A i \in 0 .. made : id(i) \in 0 .. born + made
       /\ id(0) = al.last /\ \A i \in 1 .. made : id(i) = born + i /\ id(i) \in New
  BY <1>5, <1>8
<1>11. \A i \in Int : b(i) \in Keys
  BY <1>5 DEF Keys, UnpublishedBlock
<1>12. cur = IF made = 0 THEN al.last ELSE born + made
  OBVIOUS
<1>13. created \in [Nodes -> NodeRec]
  <2>1. ASSUME NEW n \in New
        PROVE  [block |-> b(n - born), page |-> al.pages[al.published + n - born],
                parent |-> id(n - born - 1), ref |-> 0] \in NodeRec
    <3>1. n - born \in Int /\ b(n - born) \in Keys
      BY <1>9, <1>11
    <3>2. al.pages[al.published + n - born] \in Pool!Pages
      <4>1. PICK i \in 1 .. made : i = n - born
        BY <1>9
      <4>2. al.published + n - born = al.published + i /\ al.published + i \in DOMAIN al.pages
        BY <1>5, <1>8, <1>9, <4>1
      <4>3. QED BY <1>5, <4>2
    <3>3. id(n - born - 1) \in Nodes
      BY <1>9, <1>10
    <3> HIDE DEF b, id
    <3>4. QED BY <3>1, <3>2, <3>3 DEF NodeRec
  <2> HIDE DEF b, id
  <2>2. QED BY <1>5, <2>1
<1>14. \A n \in Nodes : created[n].ref = IF n \in New THEN 0 ELSE node[n].ref
  OBVIOUS
<1>15. ASSUME NEW n \in Nodes
       PROVE  \/ children'[n] = children[n]
              \/ \E i \in 1 .. made : n = id(i - 1) /\ children'[n] = kid(n, i)
  <2> HIDE DEF id, kid
  <2>1. CASE \E i \in 1 .. made : n = id(i - 1)
    <3>1. PICK j : j = CHOOSE i \in 1 .. made : n = id(i - 1)
      OBVIOUS
    <3>2. j \in 1 .. made /\ n = id(j - 1)
      BY <2>1, <3>1
    <3>3. children'[n] = kid(n, j)
      BY <1>3, <2>1, <3>1
    <3>4. QED BY <3>2, <3>3
  <2>2. CASE ~ \E i \in 1 .. made : n = id(i - 1)
    BY <1>3, <2>2
  <2>3. QED BY <2>1, <2>2
<1>16. children' \in [Nodes -> Dicts]
  <2>1. ASSUME NEW n \in Nodes PROVE children'[n] \in Dicts
    <3>1. CASE children'[n] = children[n]
      BY <1>5, <3>1
    <3>2. CASE \E i \in 1 .. made : n = id(i - 1) /\ children'[n] = kid(n, i)
      <4>1. PICK i \in 1 .. made : children'[n] = kid(n, i)
        BY <3>2
      <4>2. /\ children[n] \in Dicts /\ DOMAIN children[n] \subseteq Keys
            /\ \A x \in DOMAIN children[n] : children[n][x] \in Nodes
        BY <1>5, DictOf
      <4>3. b(i) \in Keys /\ id(i) \in Nodes
        BY <1>8, <1>9, <1>10, <1>11
      <4> DEFINE D == DOMAIN children[n] \cup {b(i)}
      <4>4. kid(n, i) \in [D -> Nodes] /\ D \subseteq Keys
        <5> HIDE DEF b, id
        <5>1. QED BY <4>2, <4>3
      <4> HIDE DEF D, kid
      <4>5. QED BY <4>1, <4>4, DictIs
    <3>3. QED BY <1>15, <3>1, <3>2
  <2>2. QED BY <1>3, <2>1
<1>17. Made(created, children', al, made)
  <2>1. \A n \in Nodes : n \notin New =>
           created[n].parent = node[n].parent /\ created[n].page = node[n].page /\ created[n].block = node[n].block
    OBVIOUS
  <2>2. ASSUME NEW n \in New
        PROVE  /\ created[n].page = al.pages[al.published + (n - born)]
               /\ created[n].parent = IF n = born + 1 THEN al.last ELSE n - 1
               /\ created[n].parent = id(n - born - 1) /\ created[n].block = b(n - born)
               /\ created[n].block = BlockAt(al.tokens, al.published + (n - born))
    <3>1. created[n] = [block |-> b(n - born), page |-> al.pages[al.published + n - born],
                        parent |-> id(n - born - 1), ref |-> 0]
      BY <1>9
    <3>2. al.published + n - born = al.published + (n - born)
      BY <1>5, <1>9
    <3>3. id(n - born - 1) = IF n = born + 1 THEN al.last ELSE n - 1
      BY <1>5, <1>9
    <3>4. b(n - born) = BlockAt(al.tokens, al.published + (n - born))
      BY DEF UnpublishedBlock
    <3> HIDE DEF created, id, b
    <3>5. QED BY <3>1, <3>2, <3>3, <3>4
  <2>3. ASSUME NEW m \in Nodes, NEW x \in DOMAIN children'[m]
        PROVE  \/ x \in DOMAIN children[m] /\ children'[m][x] = children[m][x]
               \/ /\ children'[m][x] \in New
                  /\ created[children'[m][x]].parent = m /\ created[children'[m][x]].block = x
    <3>1. CASE children'[m] = children[m]
      BY <2>3, <3>1
    <3>2. CASE \E i \in 1 .. made : m = id(i - 1) /\ children'[m] = kid(m, i)
      <4>1. PICK i \in 1 .. made : m = id(i - 1) /\ children'[m] = kid(m, i)
        BY <3>2
      <4>2. CASE x # b(i)
        <5> HIDE DEF b, id, created
        <5>1. QED BY <2>3, <4>1, <4>2
      <4>3. CASE x = b(i)
        <5>1. children'[m][x] = id(i)
          <6> HIDE DEF b, id, created
          <6>1. QED BY <4>1, <4>3
        <5>2. PICK n \in New : n = id(i) /\ n = born + i
          BY <1>10
        <5>3. n - born = i /\ n - born - 1 = i - 1
          BY <1>5, <1>8, <5>2
        <5> HIDE DEF b, id, created, kid
        <5>4. created[n].parent = m /\ created[n].block = x
          BY <2>2, <4>1, <4>3, <5>3
        <5>5. QED BY <5>1, <5>2, <5>4
      <4>4. QED BY <4>2, <4>3
    <3> HIDE DEF kid, id, b, created
    <3>3. QED BY <1>15, <3>1, <3>2
  <2> HIDE DEF created, id, b
  <2>4. QED BY <2>1, <2>2, <2>3 DEF Made
<1>18. lru' \in Seq(Nodes)
  <2>1. PICK t : t = [i \in 1 .. made |-> born + i]
    OBVIOUS
  <2>2. ASSUME NEW i \in 1 .. made PROVE born + i \in Nodes
    <3>1. born \in Nat /\ made \in Nat /\ 0 .. born + made \subseteq Nodes
      BY <1>5, <1>8, <1>9
    <3>2. born + i \in 0 .. born + made
      BY <3>1
    <3>3. QED BY <3>1, <3>2
  <2>3. t \in Seq(Nodes)
    BY <1>8, <2>1, <2>2
  <2>4. lru \in Seq(Nodes)
    BY <1>5 DEF TrieTypes
  <2>5. QED BY <1>1, <2>1, <2>3, <2>4, ConcatItems
<1>19. leaves' \subseteq 1 .. born + made
  <2>1. cur \in 0 .. born + made
    BY <1>8, <1>10
  <2>2. leaves \subseteq 1 .. born
    BY <1>5 DEF TrieTypes
  <2>3. leaves \subseteq 1 .. born + made
    BY <1>5, <1>8, <2>2
  <2> HIDE DEF cur
  <2>4. cur # Root => cur \in 1 .. born + made
    BY <1>5, <1>8, <2>1 DEF Root
  <2>5. QED BY <1>1, <2>3, <2>4
<1> HIDE DEF created, id, b, kid, cur
<1>20. Publishes(a, made, upto, cur, created, moved)
  BY <1>1, <1>2, <1>4, <1>6, <1>7, <1>8, <1>8a, <1>9, <1>12, <1>13, <1>14, <1>16, <1>17, <1>18, <1>19 DEF Publishes
<1>21. QED BY <1>7, <1>20 DEF upto

LEMMA PublishKeeps ==
  ASSUME TrieInv, NEW a \in TrieAllocs, NEW len \in Nat, trie_publish_pages(a, len)
  PROVE  TrieInv'
<1>1. PICK k, upto, cur, nodes, moved :
         Publishes(a, k, upto, cur, nodes, moved)
  BY PublishMakes
<1>2. /\ alloc[a].live /\ k \in Nat /\ born + k \in 0 .. MaxNodes /\ upto \in Nat
      /\ upto >= alloc[a].published
      /\ nodes \in [Nodes -> NodeRec] /\ Made(nodes, children', alloc[a], k)
      /\ \A n \in Nodes : nodes[n].ref = IF n \in born + 1 .. born + k THEN 0 ELSE node[n].ref
      /\ children' \in [Nodes -> Dicts] /\ born' = born + k /\ free_list' = free_list
      /\ lru' \in Seq(Nodes) /\ leaves' \subseteq 1 .. born + k
      /\ cur = IF k = 0 THEN alloc[a].last ELSE born + k
  BY <1>1 DEF Publishes
<1>3. \A i \in 1 .. k : alloc[a].published + i <= upto /\ alloc[a].published + i \in DOMAIN alloc[a].pages
  BY <1>1 DEF Publishes
<1>4. /\ TrieTypes /\ alloc \in [TrieAllocs -> AllocRec] /\ alloc[a] \in AllocRec /\ born \in Nat
      /\ alloc[a].last \in 0 .. born /\ alloc[a].published \in Nat
      /\ node \in [Nodes -> NodeRec]
  <2>1. TrieTypes /\ alloc[a] \in AllocRec
    BY DEF TrieInv, TrieTypes
  <2>2. QED BY <2>1 DEF TrieTypes, AllocRec
<1> DEFINE New == born + 1 .. born + k
<1>5. /\ AttachedIn(nodes, born + k) = Attached \cup New
      /\ \A n \in Attached : nodes[n].page = node[n].page
      /\ \A n \in New : /\ alloc[a].published + (n - born) \in Unpublished(alloc[a])
                        /\ nodes[n].page = alloc[a].pages[alloc[a].published + (n - born)]
      /\ LinksIn(nodes, children', born + k) /\ ParentsIn(nodes, born + k)
      /\ NodesApart(nodes, born + k) /\ FreeApart(free_list, nodes, born + k)
  BY <1>2, <1>3, MadeKeeps
<1>6. PICK L \in Nodes : L = alloc[a].last /\ L \in 0 .. born
  BY <1>4 DEF AllocRec
<1>7. PICK last \in Nodes : /\ last = (IF moved THEN cur ELSE L) /\ last \in 0 .. born + k
                            /\ last = L \/ last \in New
  <2>1. born + k \in New \/ k = 0
    BY <1>2, <1>4
  <2>2. L \in 0 .. born + k /\ 0 .. born + k \subseteq Nodes /\ born + k \in 0 .. born + k
    BY <1>2, <1>4, <1>6, TrieNumbers
  <2> HIDE DEF New
  <2>3. QED BY <1>2, <1>6, <2>1, <2>2
<1>8. PICK al : al = [alloc[a] EXCEPT !.last = last, !.published = upto]
  OBVIOUS
<1>9. /\ al \in AllocRec /\ al.live /\ al.last = last /\ al.published = upto /\ al.pages = alloc[a].pages
  BY <1>2, <1>4, <1>8 DEF AllocRec
<1>10. alloc' = [alloc EXCEPT ![a] = al]
  <2>1. alloc' = [alloc EXCEPT ![a].last = IF moved THEN cur ELSE @, ![a].published = upto]
    BY <1>1 DEF Publishes
  <2>2. QED BY <1>4, <1>6, <1>7, <1>8, <2>1
<1>11. \A c \in TrieAllocs : alloc'[c] = IF c = a THEN al ELSE alloc[c]
  BY <1>4, <1>10
<1>12. \A n \in Nodes : /\ nodes[n] \in NodeRec /\ nodes[n].ref \in Int /\ node[n].ref \in Int
  BY <1>2, <1>4 DEF NodeRec
<1>13. PICK shift \in [Nodes -> Int] :
          \A n \in Nodes : shift[n] = (IF n = last THEN 1 ELSE 0) - (IF n = L THEN 1 ELSE 0)
  <2>1. [n \in Nodes |-> (IF n = last THEN 1 ELSE 0) - (IF n = L THEN 1 ELSE 0)] \in [Nodes -> Int]
    OBVIOUS
  <2>2. QED BY <2>1
<1>14. /\ node' \in [Nodes -> NodeRec] /\ SameShape(node', nodes)
       /\ \A n \in Nodes : node'[n].ref = nodes[n].ref + shift[n]
  <2>1. CASE moved
    <3>1. node' = [n \in Nodes |->
                     [nodes[n] EXCEPT !.ref = @ + (IF n = cur THEN 1 ELSE 0)
                                                - (IF n = alloc[a].last THEN 1 ELSE 0)]]
      BY <1>1, <2>1 DEF Publishes
    <3>2. ASSUME NEW n \in Nodes
          PROVE  /\ node'[n] \in NodeRec /\ node'[n].ref = nodes[n].ref + shift[n]
                 /\ node'[n].parent = nodes[n].parent /\ node'[n].page = nodes[n].page
                 /\ node'[n].block = nodes[n].block
      <4>1. PICK r \in Int : r = nodes[n].ref
        BY <1>12
      <4>2. r + (IF n = cur THEN 1 ELSE 0) - (IF n = alloc[a].last THEN 1 ELSE 0) = r + shift[n]
            /\ r + shift[n] \in Int
        BY <1>6, <1>7, <1>13, <2>1
      <4>3. node'[n] = [nodes[n] EXCEPT !.ref = r + shift[n]]
        BY <3>1, <4>1, <4>2
      <4>4. nodes[n] \in NodeRec
        BY <1>12
      <4>5. QED BY <4>1, <4>2, <4>3, <4>4 DEF NodeRec
    <3>3. node' \in [Nodes -> NodeRec]
      BY <3>1, <3>2
    <3>4. QED BY <3>2, <3>3 DEF SameShape
  <2>2. CASE ~moved
    <3>1. node' = nodes
      BY <1>1, <2>2 DEF Publishes
    <3>2. \A n \in Nodes : shift[n] = 0
      BY <1>7, <1>13, <2>2
    <3>3. QED BY <1>2, <1>12, <3>1, <3>2 DEF SameShape
  <2>3. QED BY <2>1, <2>2
<1>15. 1 .. born + k \subseteq Nodes /\ New \subseteq Nodes
  BY <1>2, <1>4, TrieNumbers
<1>16. Attached' = Attached \cup New
  <2>1. AttachedIn(node', born + k) = AttachedIn(nodes, born + k)
    BY <1>14, <1>15 DEF AttachedIn, SameShape
  <2>2. QED BY <1>2, <1>5, <2>1 DEF Attached
<1>17. TrieTypes'
  <2>1. alloc' \in [TrieAllocs -> AllocRec]
    BY <1>4, <1>9, <1>10
  <2>2. \A c \in TrieAllocs : alloc'[c].last \in 0 .. born'
    <3>1. \A c \in TrieAllocs : alloc[c].last \in 0 .. born
      BY <1>4 DEF TrieTypes
    <3>2. 0 .. born \subseteq 0 .. born + k
      BY <1>2, <1>4
    <3>3. QED BY <1>2, <1>7, <1>9, <1>11, <3>1, <3>2
  <2>3. QED BY <1>2, <1>4, <1>14, <2>1, <2>2 DEF TrieTypes
<1>18. LinksIn(node, children, born)'
  <2>1. \A m \in Nodes : \A x \in DOMAIN children'[m] :
           /\ children'[m][x] \in 1 .. born + k
           /\ nodes[children'[m][x]].parent = m /\ nodes[children'[m][x]].block = x
    BY <1>5 DEF LinksIn
  <2>2. ASSUME NEW m \in Nodes, NEW x \in DOMAIN children'[m]
        PROVE  /\ children'[m][x] \in 1 .. born'
               /\ node'[children'[m][x]].parent = m /\ node'[children'[m][x]].block = x
    <3>1. PICK n \in 1 .. born + k : n = children'[m][x] /\ nodes[n].parent = m /\ nodes[n].block = x
      BY <2>1
    <3>2. node'[n].parent = nodes[n].parent /\ node'[n].block = nodes[n].block
      BY <1>14, <1>15 DEF SameShape
    <3>3. QED BY <1>2, <3>1, <3>2
  <2>3. QED BY <2>2 DEF LinksIn
<1>19. ParentsIn(node, born)'
  BY <1>2, <1>5, <1>14, <1>15 DEF ParentsIn, SameShape
<1>20. \A n \in Attached \cup New : n \in Nodes /\ node'[n].page = nodes[n].page
  <2>1. 1 .. born \subseteq Nodes
    BY <1>4, TrieNumbers DEF TrieTypes
  <2>2. Attached \cup New \subseteq Nodes
    BY <1>15, <2>1 DEF Attached, AttachedIn
  <2>3. QED BY <1>14, <2>2 DEF SameShape
<1>21. NodesApart(node, born)' /\ FreeApart(free_list, node, born)'
  <2>1. AttachedIn(node', born') = Attached \cup New
    BY <1>16 DEF Attached
  <2> HIDE DEF New
  <2>2. NodesApart(node, born)'
    BY <1>5, <1>20, <2>1 DEF NodesApart
  <2>3. FreeApart(free_list, node, born)'
    <3>1. /\ \A i, j \in DOMAIN free_list : free_list[i] = free_list[j] => i = j
          /\ \A n \in Attached \cup New : \A i \in DOMAIN free_list : free_list[i] # nodes[n].page
      BY <1>5 DEF FreeApart
    <3>2. QED BY <1>2, <1>20, <2>1, <3>1 DEF FreeApart
  <2>4. QED BY <2>2, <2>3
<1>22. HeldAttached'
  <2>1. SUFFICES ASSUME NEW c \in TrieAllocs, alloc'[c].live
                 PROVE  alloc'[c].last \in Attached \cup New \cup {Root}
    BY <1>16 DEF HeldAttached
  <2> HIDE DEF New
  <2>2. alloc[c].live => alloc[c].last \in Attached \cup {Root}
    BY DEF TrieInv, HeldAttached
  <2>3. QED BY <1>2, <1>6, <1>7, <1>9, <1>11, <2>1, <2>2
<1>23. RefsSound'
  <2>1. SUFFICES ASSUME NEW n \in Nodes PROVE node'[n].ref >= Cardinality(NodeHolders(n)')
    BY DEF RefsSound
  <2>2. /\ Cardinality(NodeHolders(n)) \in Nat
        /\ Cardinality(NodeHolders(n)') = (Cardinality(NodeHolders(n)) + Holds(al, n)) - Holds(alloc[a], n)
    BY <1>4, <1>9, <1>10, HoldersMove
  <2>3. Holds(al, n) = (IF n = last THEN 1 ELSE 0) /\ Holds(alloc[a], n) = (IF n = L THEN 1 ELSE 0)
    BY <1>2, <1>6, <1>9 DEF Holds
  <2>4. shift[n] = Holds(al, n) - Holds(alloc[a], n) /\ Holds(al, n) \in Int /\ Holds(alloc[a], n) \in Int
    BY <1>13, <2>3
  <2>5. nodes[n].ref >= Cardinality(NodeHolders(n))
    <3>1. CASE n \in New
      <4>1. NodeHolders(n) = {}
        <5>1. \A c \in TrieAllocs : alloc[c].last \in 0 .. born
          BY <1>4 DEF TrieTypes
        <5>2. n \notin 0 .. born
          BY <1>4, <3>1
        <5>3. QED BY <5>1, <5>2 DEF NodeHolders
      <4>2. Cardinality(NodeHolders(n)) = 0
        BY <4>1, FS_EmptySet
      <4>3. nodes[n].ref = 0
        BY <1>2, <3>1
      <4>4. QED BY <4>2, <4>3
    <3>2. CASE n \notin New
      <4>1. nodes[n].ref = node[n].ref
        BY <1>2, <3>2
      <4>2. QED BY <4>1 DEF TrieInv, RefsSound
    <3>3. QED BY <3>1, <3>2
  <2>6. QED BY <1>12, <1>14, <2>2, <2>4, <2>5
<1>24. ASSUME NEW c \in TrieAllocs, NEW i \in Unpublished(alloc'[c])
       PROVE  /\ i \in Unpublished(alloc[c]) /\ alloc'[c].pages[i] = alloc[c].pages[i]
              /\ c = a => i > upto
  <2>1. i \in Int
    <3>1. alloc'[c].pages \in Seq(Pool!Pages)
      BY <1>17 DEF TrieTypes, AllocRec
    <3>2. QED BY <3>1 DEF Unpublished
  <2>2. CASE c = a
    <3>1. i \in DOMAIN alloc[a].pages /\ i > upto /\ alloc'[c].pages[i] = alloc[a].pages[i]
      BY <1>9, <1>11, <2>2 DEF Unpublished
    <3>2. i > alloc[a].published
      BY <1>2, <1>4, <2>1, <3>1
    <3>3. QED BY <1>2, <2>2, <3>1, <3>2 DEF Unpublished
  <2>3. CASE c # a
    BY <1>11, <2>3
  <2>4. QED BY <2>2, <2>3
<1>25. ASSUME NEW c \in TrieAllocs, NEW i \in Unpublished(alloc[c]), c = a => i > upto, NEW n \in New
       PROVE  nodes[n].page # alloc[c].pages[i]
  <2>1. PICK j \in Unpublished(alloc[a]) : j = alloc[a].published + (n - born) /\ nodes[n].page = alloc[a].pages[j]
    BY <1>5
  <2>2. PICK x \in 1 .. k : x = n - born
    BY <1>2, <1>4
  <2>3. j <= upto /\ j \in Int
    BY <1>3, <1>4, <2>1, <2>2
  <2>4. i \in Int
    <3>1. alloc[c].pages \in Seq(Pool!Pages)
      BY <1>4 DEF AllocRec
    <3>2. QED BY <3>1 DEF Unpublished
  <2>5. ~(c = a /\ i = j)
    BY <1>2, <1>25, <2>3, <2>4
  <2>6. alloc[c].pages[i] = alloc[a].pages[j] => c = a /\ i = j
    BY DEF TrieInv, PrivateApart
  <2>7. QED BY <2>1, <2>5, <2>6
<1>26. PrivateApart'
  <2>1. SUFFICES ASSUME NEW c \in TrieAllocs, NEW i \in Unpublished(alloc'[c])
                 PROVE  /\ \A j \in DOMAIN free_list' : free_list'[j] # alloc'[c].pages[i]
                        /\ \A n \in Attached' : node'[n].page # alloc'[c].pages[i]
                        /\ \A d \in TrieAllocs : \A j \in Unpublished(alloc'[d]) :
                              alloc'[c].pages[i] = alloc'[d].pages[j] => c = d /\ i = j
    BY DEF PrivateApart, Unpublished
  <2>2. i \in Unpublished(alloc[c]) /\ alloc'[c].pages[i] = alloc[c].pages[i] /\ (c = a => i > upto)
    BY <1>24
  <2>3. \A j \in DOMAIN free_list' : free_list'[j] # alloc'[c].pages[i]
    BY <1>2, <2>2 DEF TrieInv, PrivateApart
  <2>4. ASSUME NEW n \in Attached' PROVE node'[n].page # alloc'[c].pages[i]
    <3>1. CASE n \in Attached
      BY <1>5, <1>20, <2>2, <3>1 DEF TrieInv, PrivateApart
    <3>2. CASE n \in New
      BY <1>20, <1>25, <2>2, <3>2
    <3>3. QED BY <1>16, <2>4, <3>1, <3>2
  <2>5. ASSUME NEW d \in TrieAllocs, NEW j \in Unpublished(alloc'[d]), alloc'[c].pages[i] = alloc'[d].pages[j]
        PROVE  c = d /\ i = j
    <3>1. j \in Unpublished(alloc[d]) /\ alloc'[d].pages[j] = alloc[d].pages[j]
      BY <1>24
    <3>2. alloc[c].pages[i] = alloc[d].pages[j]
      BY <2>2, <2>5, <3>1
    <3>3. QED BY <2>2, <3>1, <3>2 DEF TrieInv, PrivateApart
  <2>6. QED BY <2>3, <2>4, <2>5
<1>27. QED BY <1>17, <1>18, <1>19, <1>21, <1>22, <1>23, <1>26 DEF TrieInv

----------------------------------------------------------------------------
(***************************************************************************)
(* The invariant.                                                          *)
(***************************************************************************)

LEMMA TrieStarts == TrieInit => TrieInv
<1> SUFFICES ASSUME TrieInit PROVE TrieInv
  OBVIOUS
<1>1. /\ born = 0 /\ leaves = {} /\ lru = << >> /\ children = [n \in Nodes |-> << >>]
      /\ node = [n \in Nodes |-> [block |-> NoBlock, page |-> None, parent |-> None, ref |-> 0]]
      /\ alloc = [a \in TrieAllocs |-> [live |-> FALSE, tokens |-> << >>, last |-> Root,
                                        pages |-> << >>, published |-> 0, same |-> FALSE]]
      /\ free_list = [i \in 1 .. PoolPages |-> i - 1]
  BY DEF TrieInit, Pool!PoolInit
<1>2. free_list \in Seq(Pool!Pages) /\ DOMAIN free_list = 1 .. PoolPages
  BY <1>1, TrieNumbers DEF Pool!Pages
<1>3. node \in [Nodes -> NodeRec] /\ \A n \in Nodes : node[n].ref = 0
  BY <1>1, TrieNumbers DEF NodeRec, Keys
<1>4. << >> \in Dicts /\ DOMAIN << >> = {}
  <2>1. << >> \in [{} -> Nodes] /\ {} \subseteq Keys
    OBVIOUS
  <2>2. QED BY <2>1, DictIs
<1>5. alloc \in [TrieAllocs -> AllocRec] /\ \A a \in TrieAllocs : ~alloc[a].live /\ alloc[a].last = 0
  BY <1>1, TrieNumbers DEF AllocRec
<1>6. TrieTypes
  <2>1. children \in [Nodes -> Dicts]
    BY <1>1, <1>4
  <2>2. born \in 0 .. MaxNodes /\ leaves \subseteq 1 .. born /\ lru \in Seq(Nodes)
    BY <1>1, TrieNumbers
  <2>3. \A a \in TrieAllocs : alloc[a].last \in 0 .. born
    BY <1>1, <1>5
  <2>4. QED BY <1>2, <1>3, <1>5, <2>1, <2>2, <2>3 DEF TrieTypes
<1>7. AttachedIn(node, born) = {} /\ Attached = {} /\ 1 .. born = {}
  BY <1>1 DEF Attached, AttachedIn
<1>8. ParentsIn(node, born) /\ LinksIn(node, children, born)
  BY <1>1, <1>4, <1>7 DEF ParentsIn, LinksIn
<1>9. RefsSound
  <2>1. \A n \in Nodes : NodeHolders(n) = {}
    BY <1>5 DEF NodeHolders
  <2>2. \A n \in Nodes : Cardinality(NodeHolders(n)) = 0
    BY <2>1, FS_EmptySet
  <2>3. QED BY <1>3, <2>2 DEF RefsSound
<1>10. \A i, j \in DOMAIN free_list : free_list[i] = free_list[j] => i = j
  BY <1>1, <1>2
<1>11. HeldAttached /\ NodesApart(node, born) /\ FreeApart(free_list, node, born) /\ PrivateApart
  BY <1>5, <1>7, <1>10 DEF HeldAttached, NodesApart, FreeApart, PrivateApart, Unpublished
<1>12. QED BY <1>6, <1>8, <1>9, <1>11 DEF TrieInv

LEMMA TrieStays == TrieInv /\ UNCHANGED trieCacheVars => TrieInv'
<1> SUFFICES ASSUME TrieInv, UNCHANGED trieCacheVars PROVE TrieInv'
  OBVIOUS
<1>1. UNCHANGED <<free_list, node, children, born, leaves, lru, alloc>>
  BY DEF trieCacheVars, trieVars
<1>2. TrieTypes' /\ RefsSound' /\ HeldAttached' /\ PrivateApart'
  BY <1>1 DEF TrieInv, TrieTypes, RefsSound, HeldAttached, PrivateApart, NodeHolders, Attached, Unpublished
<1>3. /\ ParentsIn(node, born)' /\ LinksIn(node, children, born)'
      /\ NodesApart(node, born)' /\ FreeApart(free_list, node, born)'
  BY <1>1 DEF TrieInv
<1>4. QED BY <1>2, <1>3 DEF TrieInv

LEMMA TrieSteps == TrieInv /\ [TrieNext]_trieCacheVars => TrieInv'
<1> SUFFICES ASSUME TrieInv, [TrieNext]_trieCacheVars PROVE TrieInv'
  OBVIOUS
<1>1. CASE UNCHANGED trieCacheVars
  BY <1>1, TrieStays
<1>2. CASE TrieNext
  <2>1. PICK a \in TrieAllocs : TrieAcquire(a) \/ TriePublish(a) \/ TrieExtend(a) \/ TrieRelease(a)
    BY <1>2 DEF TrieNext
  <2>2. alloc[a] \in AllocRec /\ alloc[a].tokens \in Seq(Token)
    BY DEF TrieInv, TrieTypes, AllocRec
  <2>3. CASE TrieAcquire(a)
    <3>1. PICK toks \in Seq(Token) : trie_acquire_pages(a, toks, 0)
      BY <2>3, TrieCacheAssumption DEF TrieAcquire
    <3>2. QED BY <3>1, AcquireKeeps
  <2>4. CASE TriePublish(a)
    <3>1. PICK len \in 0 .. Len(alloc[a].tokens) : trie_publish_pages(a, len)
      BY <2>4 DEF TriePublish
    <3>2. len \in Nat
      BY <2>2
    <3>3. QED BY <3>1, <3>2, PublishKeeps
  <2>5. CASE TrieExtend(a)
    <3>1. PICK t \in Generated :
             \/ \E same \in BOOLEAN : trie_extend_allocation(a, Append(alloc[a].tokens, t), 1, same)
             \/ ExtendWithSameList(a, Append(alloc[a].tokens, t))
      BY <2>5 DEF TrieExtend
    <3>2. PICK toks \in Seq(Token) : toks = Append(alloc[a].tokens, t)
      BY <2>2, TrieCacheAssumption, AppendItems
    <3>3. CASE \E same \in BOOLEAN : trie_extend_allocation(a, toks, 1, same)
      BY <3>3, ExtendKeeps
    <3>4. CASE ExtendWithSameList(a, toks)
      BY <3>4, SameListKeeps
    <3>5. QED BY <3>1, <3>2, <3>3, <3>4
  <2>6. CASE TrieReleaseLive(a)
    BY <2>6, ReleaseKeeps
  <2>7. CASE TrieReleaseAgain(a)
    BY <2>7, TrieStays DEF TrieReleaseAgain
  <2>8. QED BY <2>1, <2>3, <2>4, <2>5, <2>6, <2>7 DEF TrieRelease
<1>3. QED BY <1>1, <1>2

\* What the invariant says of the pages is that each has one home.
LEMMA TrieIsSound == TrieInv => TrieSound
<1> SUFFICES ASSUME TrieInv PROVE TrieSound
  OBVIOUS
<1>1. TrieTypes /\ free_list \in Seq(Pool!Pages)
  BY DEF TrieInv, TrieTypes
<1>2. Reachable \subseteq Attached
  BY <1>1, ReachableAttached DEF TrieInv
<1>3. \A n \in Attached : node[n].parent # None /\ node[n].page \notin Range(free_list)
  BY DEF TrieInv, FreeApart, Attached, AttachedIn, Range
<1>4. HeldNodesStay
  <2>1. ASSUME NEW n \in Nodes \ {Root}, NodeHolders(n) # {}
        PROVE  node[n].parent # None /\ node[n].page \notin Range(free_list)
    <3>1. PICK a \in TrieAllocs : alloc[a].live /\ alloc[a].last = n
      BY <2>1 DEF NodeHolders
    <3>2. n \in Attached
      BY <3>1 DEF TrieInv, HeldAttached
    <3>3. QED BY <1>3, <3>2
  <2>2. QED BY <2>1 DEF HeldNodesStay, TrieInv, RefsSound
<1>5. ASSUME NEW a \in TrieAllocs, NEW p \in PrivatePages(a)
      PROVE  \E i \in Unpublished(alloc[a]) : p = alloc[a].pages[i]
  <2>1. alloc[a].live
    BY <1>5 DEF PrivatePages
  <2>2. PICK s \in Seq(Pool!Pages) : s = alloc[a].pages
    BY <1>1 DEF TrieTypes, AllocRec
  <2>3. PICK k \in Nat : k = alloc[a].published
    BY <1>1 DEF TrieTypes, AllocRec
  <2>4. p \in Range(SubSeq(s, k + 1, Len(s)))
    BY <1>5, <2>1, <2>2, <2>3 DEF PrivatePages
  <2>5. PICK i \in DOMAIN SubSeq(s, k + 1, Len(s)) : p = SubSeq(s, k + 1, Len(s))[i]
    BY <2>4 DEF Range
  <2>6. i + k \in DOMAIN s /\ i + k > k /\ p = s[i + k]
    BY <2>5
  <2>7. QED BY <2>1, <2>2, <2>3, <2>6 DEF Unpublished
<1>6. OneHomePerPage
  <2>1. IsInjective(free_list)
    BY DEF TrieInv, FreeApart, IsInjective
  <2>2. ASSUME NEW n \in Reachable
        PROVE  /\ node[n].page \notin Range(free_list)
               /\ \A m \in Reachable : node[m].page = node[n].page => m = n
               /\ \A a \in TrieAllocs : node[n].page \notin PrivatePages(a)
    <3>1. n \in Attached
      BY <1>2
    <3>2. \A m \in Reachable : node[m].page = node[n].page => m = n
      BY <1>2, <3>1 DEF TrieInv, NodesApart, Attached
    <3>3. ASSUME NEW a \in TrieAllocs, node[n].page \in PrivatePages(a) PROVE FALSE
      BY <1>5, <3>1, <3>3 DEF TrieInv, PrivateApart
    <3>4. QED BY <1>3, <3>1, <3>2, <3>3
  <2>3. ASSUME NEW a \in TrieAllocs, NEW p \in PrivatePages(a) PROVE p \notin Range(free_list)
    BY <1>5 DEF TrieInv, PrivateApart, Range
  <2>4. ASSUME NEW a \in TrieAllocs, NEW c \in TrieAllocs, a # c,
               NEW p \in PrivatePages(a), p \in PrivatePages(c)
        PROVE  FALSE
    <3>1. PICK i \in Unpublished(alloc[a]) : p = alloc[a].pages[i]
      BY <1>5
    <3>2. PICK j \in Unpublished(alloc[c]) : p = alloc[c].pages[j]
      BY <1>5, <2>4
    <3>3. QED BY <2>4, <3>1, <3>2 DEF TrieInv, PrivateApart
  <2>5. QED BY <2>1, <2>2, <2>3, <2>4 DEF OneHomePerPage
<1>7. QED BY <1>4, <1>6 DEF TrieSound

\* TrieSound, whatever the pool, the prompts and the calls: through acquisitions
\* that evict, publications of the same tokens by two requests, extensions,
\* releases and calls that raise, an allocation is counted by the node it holds,
\* that node is never evicted, and a page is free, or written by one allocation,
\* or the one node of the trie that a lookup finds it at.
THEOREM TriePagesHaveOneHome == TrieSpec => []TrieSound
<1>1. TrieInit => TrieInv
  BY TrieStarts
<1>2. TrieInv /\ [TrieNext]_trieCacheVars => TrieInv'
  BY TrieSteps
<1>3. TrieInv => TrieSound
  BY TrieIsSound
<1>4. QED BY <1>1, <1>2, <1>3, PTL DEF TrieSpec

----------------------------------------------------------------------------
(***************************************************************************)
(* What the path to an allocation's last node spells.  A node is never     *)
(* linked from another parent or under another block than the ones it was  *)
(* made with, so it is found where it was made, or not at all.             *)
(***************************************************************************)

\* How many of an allocation's pages are published.
Depth(al) == Min({al.published, Len(al.pages)})

\* The nodes from the root to the allocation's last one, each made under the
\* one before it with the next block of the allocation's tokens.
Spells(p, al, d, nodes, k) ==
    /\ p \in [0 .. d -> 0 .. k] /\ p[0] = Root /\ p[d] = al.last
    /\ \A i \in 1 .. d : /\ p[i] \in 1 .. k
                         /\ nodes[p[i]].block = BlockAt(al.tokens, i)
                         /\ nodes[p[i]].parent \in {p[i - 1], None}

\* What is published is no more than the tokens, and until the caller's list
\* grows unseen there are pages for all of them.
Fits(al) ==
    /\ al.published * BlockTokens <= Len(al.tokens)
    /\ ~ al.same => Len(al.tokens) <= Len(al.pages) * BlockTokens

SpellInv ==
    \A a \in TrieAllocs : alloc[a].live =>
       Fits(alloc[a]) /\ \E p : Spells(p, alloc[a], Depth(alloc[a]), node, born)

LEMMA DepthIs ==
  ASSUME NEW al \in AllocRec
  PROVE  /\ Depth(al) \in Nat /\ Len(al.pages) \in Nat /\ al.published \in Nat
         /\ Depth(al) <= al.published /\ Depth(al) <= Len(al.pages)
         /\ al.published <= Len(al.pages) => Depth(al) = al.published
         /\ Len(al.pages) <= al.published => Depth(al) = Len(al.pages)
<1>1. PICK u \in Nat, l \in Nat : u = al.published /\ l = Len(al.pages)
  <2>1. al.published \in Nat /\ al.pages \in Seq(Pool!Pages)
    BY DEF AllocRec
  <2>2. QED BY <2>1
<1>2. Min({u, l}) \in {u, l} /\ Min({u, l}) <= u /\ Min({u, l}) <= l
  <2>1. \E x \in {u, l} : \A y \in {u, l} : x <= y
    OBVIOUS
  <2>2. Min({u, l}) \in {u, l} /\ \A y \in {u, l} : Min({u, l}) <= y
    BY <2>1 DEF Min
  <2>3. QED BY <2>2
<1>3. Depth(al) = Min({u, l})
  BY <1>1 DEF Depth
<1>4. QED BY <1>1, <1>2, <1>3

\* The published blocks are full.
LEMMA BlocksFull ==
  ASSUME NEW al \in AllocRec, Fits(al)
  PROVE  /\ FullBlocks(al.tokens) \in Nat /\ Depth(al) <= FullBlocks(al.tokens)
         /\ al.published <= FullBlocks(al.tokens)
<1>1. PICK len \in Nat : len = Len(al.tokens)
  BY DEF AllocRec
<1>2. PICK u \in Nat : u = al.published /\ u * BlockTokens <= len
  BY <1>1 DEF AllocRec, Fits
<1>3. PICK f \in Nat : f = len \div BlockTokens
  BY TrieCacheAssumption
<1>4. len < (f + 1) * BlockTokens
  <2>1. BlockTokens \in Nat \ {0}
    BY TrieCacheAssumption
  <2>2. QED BY <1>3, <2>1
<1>5. u <= f
  <2>1. ASSUME u >= f + 1 PROVE FALSE
    <3>1. BlockTokens \in Nat \ {0}
      BY TrieCacheAssumption
    <3>2. u * BlockTokens >= (f + 1) * BlockTokens
      BY <2>1, <3>1
    <3>3. u * BlockTokens \in Int /\ (f + 1) * BlockTokens \in Int
      BY <3>1
    <3>4. QED BY <1>2, <1>4, <3>2, <3>3
  <2>2. QED BY <2>1
<1>6. FullBlocks(al.tokens) = f
  BY <1>1, <1>3 DEF FullBlocks
<1>7. QED BY <1>2, <1>5, <1>6, DepthIs

\* What the walk has found after i blocks, if the nodes of p are linked.
LEMMA WalkFinds ==
  ASSUME TrieTypes, LinksIn(node, children, born), NEW toks \in Seq(Token),
         NEW d \in Nat, d <= FullBlocks(toks), NEW p, p[0] = Root,
         \A i \in 1 .. d : /\ p[i] \in Nodes
                           /\ BlockAt(toks, i) \in DOMAIN children[p[i - 1]]
                           /\ children[p[i - 1]][BlockAt(toks, i)] = p[i]
  PROVE  /\ Len(MatchedPath(toks)) >= d
         /\ \A i \in 1 .. d : MatchedPath(toks)[i] = p[i]
<1> DEFINE Found(i, path) == /\ i <= d => Len(path) = i
                             /\ i >= d => Len(path) >= d
                             /\ \A j \in 1 .. d : j <= i => path[j] = p[j]
           T == {e \in Nat \X Seq(Attached) : Found(e[1], e[2])}
<1>1. <<0, << >>>> \in T
  <2>0. << >> \in Seq(Attached) /\ Len(<< >>) = 0
    OBVIOUS
  <2>1. PICK q \in Seq(Attached) : q = << >> /\ Len(q) = 0
    BY <2>0
  <2>2. Found(0, q)
    BY <2>1
  <2> HIDE DEF Found
  <2>3. <<0, q>> \in T
    BY <2>2
  <2>4. QED BY <2>1, <2>3
<1>2. ASSUME NEW i \in 1 .. FullBlocks(toks), NEW path \in Seq(Attached), <<i - 1, path>> \in T
      PROVE  <<i, WalkStep(toks, i, path)>> \in T
  <2>1. i \in Nat /\ i > 0 /\ Len(path) \in Nat /\ Found(i - 1, path)
    BY <1>2
  <2>2. WalkStep(toks, i, path) \in Seq(Attached)
    BY <2>1, WalkStepIn
  <2>3. CASE i <= d
    <3>1. i \in 1 .. d /\ Len(path) = i - 1
      BY <2>1, <2>3
    <3>2. PICK cur : cur = IF path = << >> THEN Root ELSE Last(path)
      OBVIOUS
    <3>3. cur = p[i - 1]
      <4>1. CASE path = << >>
        BY <2>1, <3>1, <3>2, <4>1
      <4>2. CASE path # << >>
        <5>1. i - 1 \in 1 .. d /\ i - 1 <= i - 1 /\ Last(path) = path[i - 1]
          BY <3>1, <4>2 DEF Last
        <5>2. path[i - 1] = p[i - 1]
          BY <2>1, <5>1
        <5>3. QED BY <3>2, <4>2, <5>1, <5>2
      <4>3. QED BY <4>1, <4>2
    <3>4. BlockAt(toks, i) \in DOMAIN children[cur] /\ children[cur][BlockAt(toks, i)] = p[i]
      BY <3>1, <3>3
    <3>5. WalkStep(toks, i, path) = Append(path, p[i])
      BY <3>1, <3>2, <3>4 DEF WalkStep
    <3>6. PICK q \in Seq(Attached) : q = WalkStep(toks, i, path)
      BY <2>2
    <3>7. Len(q) = i /\ q[i] = p[i] /\ \A j \in 1 .. i - 1 : q[j] = path[j]
      <4>1. p[i] \in Nodes
        BY <3>1
      <4>2. path \in Seq(Nodes)
        <5>1. Attached \subseteq Nodes
          BY TrieNumbers DEF Attached, AttachedIn, TrieTypes
        <5>2. QED BY <5>1
      <4>3. QED BY <3>1, <3>5, <3>6, <4>1, <4>2, AppendItems
    <3>8. Found(i, q)
      <4>1. ASSUME NEW j \in 1 .. d, j <= i PROVE q[j] = p[j]
        <5>1. j = i \/ (j \in 1 .. i - 1 /\ j <= i - 1)
          BY <2>1, <4>1
        <5>2. QED BY <2>1, <3>7, <5>1
      <4>2. QED BY <2>3, <3>7, <4>1
    <3> HIDE DEF Found
    <3>9. QED BY <2>1, <3>6, <3>8
  <2>4. CASE ~ (i <= d)
    <3>1. i - 1 >= d /\ Len(path) >= d /\ i > d
      BY <2>1, <2>4
    <3>2. PICK q \in Seq(Attached) : q = WalkStep(toks, i, path)
      BY <2>2
    <3>3. Len(q) >= Len(path) /\ \A j \in 1 .. Len(path) : q[j] = path[j]
      <4>1. CASE q = path
        BY <2>1, <4>1
      <4>2. CASE q # path
        <5>1. PICK x : q = Append(path, x)
          BY <3>2, <4>2 DEF WalkStep
        <5>2. QED BY <2>1, <5>1
      <4>3. QED BY <4>1, <4>2
    <3>4. Found(i, q)
      <4>1. ASSUME NEW j \in 1 .. d PROVE q[j] = p[j]
        <5>1. j \in 1 .. Len(path) /\ j <= i - 1
          BY <2>1, <3>1
        <5>2. QED BY <2>1, <3>3, <5>1
      <4>2. Len(q) \in Nat
        BY <3>2
      <4>3. QED BY <2>1, <3>1, <3>3, <4>1, <4>2
    <3> HIDE DEF Found
    <3>5. QED BY <2>1, <3>2, <3>4
  <2>5. QED BY <2>3, <2>4
<1> HIDE DEF T
<1>3. <<FullBlocks(toks), MatchedPath(toks)>> \in T /\ FullBlocks(toks) \in Nat
  BY <1>1, <1>2, WalkHolds
<1>4. Found(FullBlocks(toks), MatchedPath(toks))
  <2> HIDE DEF Found
  <2>1. QED BY <1>3 DEF T
<1>5. \A j \in 1 .. d : j <= FullBlocks(toks)
  BY <1>3
<1>6. QED BY <1>3, <1>4, <1>5

\* The nodes that _match finds were made under each other, with the blocks of
\* the tokens.
LEMMA FoundSpells ==
  ASSUME TrieTypes, LinksIn(node, children, born), NEW toks \in Seq(Token)
  PROVE  \A i \in 1 .. Len(MatchedPath(toks)) :
            /\ node[MatchedPath(toks)[i]].block = BlockAt(toks, i)
            /\ node[MatchedPath(toks)[i]].parent = IF i = 1 THEN Root ELSE MatchedPath(toks)[i - 1]
<1> DEFINE Spelt(path) == \A i \in 1 .. Len(path) :
                             /\ node[path[i]].block = BlockAt(toks, i)
                             /\ node[path[i]].parent = IF i = 1 THEN Root ELSE path[i - 1]
           T == {e \in Nat \X Seq(Attached) : Spelt(e[2])}
<1>1. <<0, << >>>> \in T
  <2>0. << >> \in Seq(Attached) /\ Len(<< >>) = 0
    OBVIOUS
  <2>1. PICK q \in Seq(Attached) : q = << >> /\ Len(q) = 0
    BY <2>0
  <2>2. Spelt(q)
    BY <2>1
  <2> HIDE DEF Spelt
  <2>3. <<0, q>> \in T
    BY <2>2
  <2>4. QED BY <2>1, <2>3
<1>2. ASSUME NEW i \in 1 .. FullBlocks(toks), NEW path \in Seq(Attached), <<i - 1, path>> \in T
      PROVE  <<i, WalkStep(toks, i, path)>> \in T
  <2>1. i \in Nat /\ i > 0 /\ Len(path) \in Nat /\ Spelt(path)
    BY <1>2
  <2>2. PICK q \in Seq(Attached) : q = WalkStep(toks, i, path)
    BY <2>1, WalkStepIn
  <2>3. Spelt(q)
    <3>1. PICK cur : cur = IF path = << >> THEN Root ELSE Last(path)
      OBVIOUS
    <3>2. CASE Len(path) = i - 1 /\ BlockAt(toks, i) \in DOMAIN children[cur]
      <4>1. PICK x : x = children[cur][BlockAt(toks, i)]
        OBVIOUS
      <4>2. q = Append(path, x)
        BY <2>2, <3>1, <3>2, <4>1 DEF WalkStep
      <4>3. cur \in Nodes
        <5>1. Attached \subseteq Nodes /\ Root \in Nodes
          BY TrieNumbers DEF Attached, AttachedIn, TrieTypes
        <5>2. QED BY <3>1, <5>1 DEF Last
      <4>4. node[x].parent = cur /\ node[x].block = BlockAt(toks, i) /\ x \in 1 .. born
        BY <3>2, <4>1, <4>3 DEF LinksIn
      <4>5. Len(q) = i /\ q[i] = x /\ \A j \in 1 .. i - 1 : q[j] = path[j]
        <5>1. x \in Nodes /\ path \in Seq(Nodes)
          <6>1. Attached \subseteq Nodes /\ 1 .. born \subseteq Nodes
            BY TrieNumbers DEF Attached, AttachedIn, TrieTypes
          <6>2. QED BY <4>4, <6>1
        <5>2. QED BY <3>2, <4>2, <5>1, AppendItems
      <4>6. cur = IF i = 1 THEN Root ELSE q[i - 1]
        <5>1. CASE path = << >>
          <6>1. i = 1
            BY <2>1, <3>2, <5>1
          <6>2. QED BY <3>1, <5>1, <6>1
        <5>2. CASE path # << >>
          <6>1. i # 1 /\ i - 1 \in 1 .. i - 1 /\ Last(path) = path[i - 1]
            BY <2>1, <3>2, <5>2 DEF Last
          <6>2. q[i - 1] = path[i - 1]
            BY <4>5, <6>1
          <6>3. QED BY <3>1, <5>2, <6>1, <6>2
        <5>3. QED BY <5>1, <5>2
      <4>7. ASSUME NEW j \in 1 .. i
            PROVE  /\ node[q[j]].block = BlockAt(toks, j)
                   /\ node[q[j]].parent = IF j = 1 THEN Root ELSE q[j - 1]
        <5>1. CASE j = i
          BY <4>4, <4>5, <4>6, <5>1
        <5>2. CASE j # i
          <6>1. j \in 1 .. i - 1 /\ j \in 1 .. Len(path) /\ (j # 1 => j - 1 \in 1 .. i - 1)
            BY <2>1, <3>2, <5>2
          <6>2. q[j] = path[j] /\ (j # 1 => q[j - 1] = path[j - 1])
            BY <4>5, <6>1
          <6>3. QED BY <2>1, <6>1, <6>2
        <5>3. QED BY <5>1, <5>2
      <4>8. QED BY <4>5, <4>7
    <3>3. CASE ~ (Len(path) = i - 1 /\ BlockAt(toks, i) \in DOMAIN children[cur])
      <4>1. q = path
        BY <2>2, <3>1, <3>3 DEF WalkStep
      <4>2. QED BY <2>1, <4>1
    <3>4. QED BY <3>2, <3>3
  <2> HIDE DEF Spelt
  <2>4. <<i, q>> \in T
    BY <2>1, <2>3
  <2>5. QED BY <2>2, <2>4
<1> HIDE DEF T
<1>3. <<FullBlocks(toks), MatchedPath(toks)>> \in T
  BY <1>1, <1>2, WalkHolds
<1>4. Spelt(MatchedPath(toks))
  <2> HIDE DEF Spelt
  <2>1. QED BY <1>3 DEF T
<1>5. QED BY <1>4

----------------------------------------------------------------------------
\* What the invariant says is that lookups match.
LEMMA SpelledIsFound ==
  ASSUME TrieInv, SpellInv
  PROVE  LookupsMatchTokens
<1> SUFFICES ASSUME NEW a \in TrieAllocs, alloc[a].live, alloc[a].last \in Reachable
             PROVE  LET path == MatchedPath(alloc[a].tokens)
                        depth == Depth(alloc[a])
                    IN  depth <= Len(path) /\ path[depth] = alloc[a].last
  BY DEF LookupsMatchTokens, Depth
<1>0. /\ TrieTypes /\ LinksIn(node, children, born) /\ alloc[a] \in AllocRec
      /\ alloc[a].tokens \in Seq(Token) /\ born \in Nat /\ 0 .. born \subseteq Nodes
  BY TrieNumbers DEF TrieInv, TrieTypes, AllocRec
<1>1. PICK toks \in Seq(Token) : toks = alloc[a].tokens
  BY <1>0
<1>2. PICK d \in Nat : d = Depth(alloc[a]) /\ d <= FullBlocks(toks)
  BY <1>0, <1>1, BlocksFull, DepthIs DEF SpellInv
<1>3. PICK p : Spells(p, alloc[a], d, node, born)
  BY <1>2 DEF SpellInv
<1>4. /\ p[0] = Root /\ p[d] = alloc[a].last
      /\ \A i \in 1 .. d : /\ p[i] \in 1 .. born /\ p[i] \in Nodes /\ p[i] # Root
                           /\ node[p[i]].block = BlockAt(toks, i)
                           /\ node[p[i]].parent \in {p[i - 1], None}
  <2>1. /\ p[0] = Root /\ p[d] = alloc[a].last
        /\ \A i \in 1 .. d : /\ p[i] \in 1 .. born
                             /\ node[p[i]].block = BlockAt(toks, i)
                             /\ node[p[i]].parent \in {p[i - 1], None}
    BY <1>1, <1>3 DEF Spells
  <2>2. \A x \in 1 .. born : x \in Nodes /\ x # Root
    BY <1>0, TrieNumbers
  <2>3. QED BY <2>1, <2>2
<1>5. Rooted(Reachable \cup {Root})
  BY <1>0, ReachableAttached
<1>6. Root \notin Reachable
  BY DEF Reachable
\* One that can be found is linked from the one before it, found too.
<1>7. ASSUME NEW i \in 1 .. d, p[i] \in Reachable \cup {Root}
      PROVE  /\ p[i - 1] \in Reachable \cup {Root}
             /\ BlockAt(toks, i) \in DOMAIN children[p[i - 1]]
             /\ children[p[i - 1]][BlockAt(toks, i)] = p[i]
  <2>1. PICK m \in Reachable \cup {Root} : \E b \in DOMAIN children[m] : children[m][b] = p[i]
    BY <1>4, <1>5, <1>7 DEF Rooted
  <2>2. PICK b \in DOMAIN children[m] : children[m][b] = p[i]
    BY <2>1
  <2>3. m \in Nodes
    <3>1. Reachable \subseteq Attached
      BY <1>0, ReachableAttached
    <3>2. QED BY <1>0, <3>1, TrieNumbers DEF Attached, AttachedIn
  <2>4. node[p[i]].parent = m /\ node[p[i]].block = b
    BY <1>0, <2>2, <2>3 DEF LinksIn
  <2>5. m # None
    BY <2>3, TrieNumbers
  <2>6. QED BY <1>4, <2>2, <2>4, <2>5
<1> DEFINE U == {j \in 0 .. d : p[d - j] \in Reachable \cup {Root}}
<1>8. 0 .. d \subseteq U
  <2>1. 0 \in U
    BY <1>2, <1>4
  <2>2. ASSUME NEW j \in 0 .. d, j \in U, j # d PROVE j + 1 \in U
    <3>1. d - j \in 1 .. d /\ (d - j) - 1 = d - (j + 1) /\ j + 1 \in 0 .. d
      BY <1>2, <2>2
    <3>2. p[(d - j) - 1] \in Reachable \cup {Root}
      BY <1>7, <2>2, <3>1
    <3>3. QED BY <3>1, <3>2
  <2> HIDE DEF U
  <2>3. QED BY <1>2, <2>1, <2>2, UpTo
<1>9. \A i \in 1 .. d : p[i] \in Reachable \cup {Root}
  <2>1. \A i \in 1 .. d : d - i \in 0 .. d /\ d - (d - i) = i
    BY <1>2
  <2>2. QED BY <1>8, <2>1
<1>10. \A i \in 1 .. d : /\ p[i] \in Nodes
                         /\ BlockAt(toks, i) \in DOMAIN children[p[i - 1]]
                         /\ children[p[i - 1]][BlockAt(toks, i)] = p[i]
  BY <1>4, <1>7, <1>9
<1>11. /\ Len(MatchedPath(toks)) >= d
       /\ \A i \in 1 .. d : MatchedPath(toks)[i] = p[i]
  BY <1>0, <1>2, <1>4, <1>10, WalkFinds
<1>12. d # 0
  BY <1>4, <1>6
<1>13. MatchedPath(toks)[d] = alloc[a].last
  BY <1>2, <1>4, <1>11, <1>12
<1>14. QED
  <2>1. MatchedPath(toks) \in Seq(Attached)
    BY <1>0, PathAttached
  <2>2. Len(MatchedPath(toks)) \in Nat
    BY <2>1
  <2>3. QED BY <1>1, <1>2, <1>11, <1>13, <2>2

----------------------------------------------------------------------------
\* Nodes keep their blocks, and their parents until they are unlinked.
ShapeKept(after, before, k) ==
    \A n \in 1 .. k : /\ after[n].block = before[n].block
                      /\ after[n].parent \in {before[n].parent, None}

\* Getting pages keeps the shape of the trie, and gets as many as were asked for.
LEMMA GetCount ==
  ASSUME TrieInv, NEW nodes, Referenced(nodes), NEW order \in Seq(Nodes), NEW count \in Nat,
         NEW got, got = ObtainPages(nodes, order, count)
  PROVE  /\ ShapeKept(got.node, node, born)
         /\ got.obtained \in Seq(Pool!Pages)
         /\ got.error = "ok" => Len(got.obtained) = count
<1>0. /\ TrieTypes /\ 1 .. born \subseteq Nodes
      /\ nodes \in [Nodes -> NodeRec] /\ LinksIn(nodes, children, born) /\ ParentsIn(nodes, born)
      /\ NodesApart(nodes, born) /\ FreeApart(free_list, nodes, born)
  BY ReferencedSound, TrieNumbers DEF TrieInv, TrieTypes
<1>1. Got(got, nodes)
  BY <1>0, ObtainGets
<1>2. ShapeKept(got.node, node, born)
  BY <1>0, <1>1 DEF ShapeKept, Got, OnlyUnlinks, Referenced
<1>3. got.obtained \in Seq(Pool!Pages)
  BY <1>1 DEF Got, Parted
<1>4. PICK l \in Nat : l = Len(free_list) /\ free_list \in Seq(Pool!Pages)
  BY <1>0 DEF TrieTypes
<1>5. CASE count - l > 0
  <2>1. PICK short \in Nat : short = count - l /\ short > 0
    BY <1>4, <1>5
  <2>2. PICK st \in EvictLoop(nodes) : st = Evict(nodes, order, short)
    BY <1>0, <2>1, EvictKeeps
  <2>3. got = Retry(st, count)
    BY <1>4, <2>1, <2>2 DEF ObtainPages
  <2>4. CASE st.error = "ok"
    <3>1. st.evicted \in Seq(Pool!Pages \cup {None})
      BY DEF EvictLoop, LoopRec
    <3>2. PICK freed \in Seq(Pool!Pages \cup {None}) : freed = free_list \o st.evicted
      <4>1. free_list \in Seq(Pool!Pages \cup {None})
        BY <1>4
      <4>2. QED BY <3>1, <4>1, ConcatItems
    <3>3. PICK m \in Nat : m = Len(freed)
      OBVIOUS
    <3>4. /\ got.error = IF m - count >= 0 THEN "ok" ELSE "CacheAllocationFailure"
          /\ m - count >= 0 => got.obtained = Reverse(SubSeq(freed, m - count + 1, m))
      BY <2>3, <2>4, <3>2, <3>3 DEF Retry
    <3>5. m - count >= 0 => Len(got.obtained) = count
      <4>1. SUFFICES ASSUME m - count >= 0 PROVE Len(got.obtained) = count
        OBVIOUS
      <4>2. PICK x \in Nat : x = m - count /\ x <= m
        BY <4>1
      <4>3. Len(SubSeq(freed, x + 1, m)) = m - x
        BY <3>3, <4>2
      <4>4. m - x = count
        BY <4>2
      <4>5. Len(SubSeq(freed, x + 1, m)) = count
        BY <4>3, <4>4
      <4>6. got.obtained = [i \in 1 .. count |-> SubSeq(freed, x + 1, m)[(count - i) + 1]]
        BY <3>4, <4>1, <4>2, <4>5 DEF Reverse
      <4>7. QED BY <4>6
    <3>6. QED BY <1>2, <1>3, <3>4, <3>5
  <2>5. CASE st.error # "ok"
    <3>1. got.error = st.error
      BY <2>3, <2>5 DEF Retry
    <3>2. QED BY <1>2, <1>3, <2>5, <3>1
  <2>6. QED BY <2>4, <2>5
<1>6. CASE ~ (count - l > 0)
  <2>1. got.obtained = [i \in 1 .. count |-> free_list[Len(free_list) + 1 - i]]
    BY <1>4, <1>6 DEF ObtainPages, Pool!PoppedPages
  <2>2. Len(got.obtained) = count
    BY <2>1
  <2>3. QED BY <1>2, <1>3, <2>2
<1>7. QED BY <1>5, <1>6

\* What spells the tokens of an allocation still does when the shape is kept.
LEMMA SpellsStill ==
  ASSUME NEW k \in Nat, NEW k2 \in Nat, k <= k2, NEW before, NEW after, ShapeKept(after, before, k),
         NEW d \in Nat, NEW p, NEW al, NEW al2, Spells(p, al, d, before, k),
         al2.last = al.last,
         \A i \in 1 .. d : BlockAt(al2.tokens, i) = BlockAt(al.tokens, i)
  PROVE  Spells(p, al2, d, after, k2)
<1>1. p \in [0 .. d -> 0 .. k2] /\ p[0] = Root /\ p[d] = al2.last
  <2>1. 0 .. k \subseteq 0 .. k2
    OBVIOUS
  <2>2. QED BY <2>1 DEF Spells
<1>2. ASSUME NEW i \in 1 .. d
      PROVE  /\ p[i] \in 1 .. k2
             /\ after[p[i]].block = BlockAt(al2.tokens, i)
             /\ after[p[i]].parent \in {p[i - 1], None}
  <2>1. p[i] \in 1 .. k /\ before[p[i]].block = BlockAt(al.tokens, i)
        /\ before[p[i]].parent \in {p[i - 1], None}
    BY DEF Spells
  <2>2. after[p[i]].block = before[p[i]].block /\ after[p[i]].parent \in {before[p[i]].parent, None}
    BY <2>1 DEF ShapeKept
  <2>3. p[i] \in 1 .. k2
    BY <2>1
  <2>4. QED BY <2>1, <2>2, <2>3
<1>3. QED BY <1>1, <1>2 DEF Spells

\* The allocations that a step leaves alone stay spelled.
LEMMA OthersSpelled ==
  ASSUME TrieInv, SpellInv, ShapeKept(node', node, born), born' \in Nat, born <= born',
         NEW a \in TrieAllocs, \A c \in TrieAllocs : c # a => alloc'[c] = alloc[c],
         alloc'[a].live => /\ Fits(alloc'[a])
                           /\ \E p : Spells(p, alloc'[a], Depth(alloc'[a]), node', born')
  PROVE  SpellInv'
<1>1. ASSUME NEW c \in TrieAllocs, c # a, alloc'[c].live
      PROVE  Fits(alloc'[c]) /\ \E p : Spells(p, alloc'[c], Depth(alloc'[c]), node', born')
  <2>1. alloc[c] \in AllocRec /\ born \in Nat
    BY TrieNumbers DEF TrieInv, TrieTypes
  <2>2. alloc'[c] = alloc[c] /\ alloc[c].live
    BY <1>1
  <2>3. Fits(alloc[c])
    BY <2>2 DEF SpellInv
  <2>4. PICK d \in Nat : d = Depth(alloc[c])
    BY <2>1, DepthIs
  <2>5. PICK p : Spells(p, alloc[c], d, node, born)
    BY <2>2, <2>4 DEF SpellInv
  <2>6. Spells(p, alloc[c], d, node', born')
    BY <2>1, <2>5, SpellsStill
  <2>7. QED BY <2>2, <2>3, <2>4, <2>6
<1>2. \A c \in TrieAllocs : alloc'[c].live =>
         Fits(alloc'[c]) /\ \E p : Spells(p, alloc'[c], Depth(alloc'[c]), node', born')
  BY <1>1
<1>3. QED BY <1>2 DEF SpellInv, Fits, Depth, Spells

----------------------------------------------------------------------------
\* Enough pages are asked for.
LEMMA PagesEnough ==
  ASSUME NEW x \in Nat
  PROVE  TriePagesFor(x) \in Nat /\ x <= TriePagesFor(x) * BlockTokens
<1>1. BlockTokens \in Nat /\ BlockTokens > 0
  BY TrieCacheAssumption
<1>2. PICK z \in Nat : z = x + BlockTokens - 1
  BY <1>1
<1>3. PICK q \in Nat : q = z \div BlockTokens
  BY <1>1, <1>2
<1>4. z < (q + 1) * BlockTokens
  BY <1>1, <1>2, <1>3
<1>5. q * BlockTokens \in Int /\ (q + 1) * BlockTokens = q * BlockTokens + BlockTokens
  BY <1>1
<1>6. x <= q * BlockTokens
  BY <1>1, <1>2, <1>4, <1>5
<1>7. QED BY <1>2, <1>3, <1>6 DEF TriePagesFor

LEMMA AcquireSpells ==
  ASSUME TrieInv, SpellInv, NEW a \in TrieAllocs, NEW toks \in Seq(Token),
         trie_acquire_pages(a, toks, 0)
  PROVE  SpellInv'
<1>0. /\ TrieTypes /\ born \in Nat /\ LinksIn(node, children, born) /\ alloc \in [TrieAllocs -> AllocRec]
      /\ Attached \subseteq 1 .. born /\ 0 \in 0 .. born /\ Root = 0
  BY TrieNumbers DEF TrieInv, TrieTypes, Attached, AttachedIn
<1>1. PICK path, cur, cached, nodes, order, needed, got :
         Acquires(a, toks, path, cur, cached, nodes, order, needed, got)
  BY AcquireMakes
<1>2. /\ path = MatchedPath(toks) /\ path \in Seq(Attached) /\ Len(path) <= FullBlocks(toks)
      /\ cur = (IF path = << >> THEN Root ELSE Last(path))
      /\ cached \in Seq(Pool!Pages) /\ Len(cached) = Len(path) /\ Len(path) \in Nat
      /\ needed \in Nat /\ needed = TriePagesFor(Len(toks) - Len(path) * BlockTokens + 0)
  BY <1>1 DEF Acquires
<1>3. /\ ~alloc[a].live /\ born' = born /\ node' = got.node
      /\ alloc' = IF got.error # "ok" THEN alloc
                  ELSE [alloc EXCEPT ![a] = [live |-> TRUE, tokens |-> toks, last |-> cur,
                                             pages |-> cached \o got.obtained,
                                             published |-> Len(cached), same |-> FALSE]]
  BY <1>1 DEF Acquires
<1>4. /\ ShapeKept(node', node, born) /\ got.obtained \in Seq(Pool!Pages)
      /\ got.error = "ok" => Len(got.obtained) = needed
  <2>1. Referenced(nodes) /\ order \in Seq(Nodes) /\ got = ObtainPages(nodes, order, needed)
    BY <1>1 DEF Acquires
  <2>2. QED BY <1>2, <1>3, <2>1, GetCount
<1>5. \A c \in TrieAllocs : c # a => alloc'[c] = alloc[c]
  BY <1>0, <1>3
<1>6. CASE got.error # "ok"
  <2>1. ~ alloc'[a].live
    BY <1>3, <1>6
  <2>2. QED BY <1>0, <1>3, <1>4, <1>5, <2>1, OthersSpelled
<1>7. CASE got.error = "ok"
  <2>1. PICK al : al = [live |-> TRUE, tokens |-> toks, last |-> cur, pages |-> cached \o got.obtained,
                        published |-> Len(cached), same |-> FALSE]
    OBVIOUS
  <2>2. alloc'[a] = al
    BY <1>0, <1>3, <1>7, <2>1
  <2>3. PICK m \in Nat : m = Len(path) /\ DOMAIN path = 1 .. m
    BY <1>2
  <2>4. Len(cached \o got.obtained) = m + needed /\ cached \o got.obtained \in Seq(Pool!Pages)
    BY <1>2, <1>4, <1>7, <2>3, ConcatItems
  <2>5. /\ al.tokens = toks /\ al.last = cur /\ Len(al.pages) = m + needed
        /\ al.published = m /\ ~ al.same
    BY <1>2, <2>1, <2>3, <2>4
  <2>6. Depth(al) = m
    <3>1. Min({m, m + needed}) = m
      <4>1. m <= m + needed /\ \E x \in {m, m + needed} : \A y \in {m, m + needed} : x <= y
        BY <1>2
      <4>2. Min({m, m + needed}) \in {m, m + needed} /\ \A y \in {m, m + needed} : Min({m, m + needed}) <= y
        BY <4>1 DEF Min
      <4>3. QED BY <1>2, <4>2
    <3>2. QED BY <2>5, <3>1 DEF Depth
  <2>7. Fits(al)
    <3>1. PICK len \in Nat : len = Len(toks)
      OBVIOUS
    <3>2. m * BlockTokens \in Nat /\ m * BlockTokens <= len
      BY <1>2, <2>3, <3>1, PagesNat DEF FullBlocks
    <3>3. PICK x \in Nat : x = len - m * BlockTokens
      BY <3>2
    <3>4. needed = TriePagesFor(x)
      <4>1. len - m * BlockTokens + 0 = x
        BY <3>2, <3>3
      <4>2. QED BY <1>2, <2>3, <3>1, <4>1
    <3>5. x <= needed * BlockTokens
      BY <3>4, PagesEnough
    <3>6. (m + needed) * BlockTokens = m * BlockTokens + needed * BlockTokens /\ needed * BlockTokens \in Int
      BY <1>2, TrieCacheAssumption
    <3>7. len <= (m + needed) * BlockTokens
      BY <3>2, <3>3, <3>5, <3>6
    <3>8. QED BY <2>5, <3>1, <3>2, <3>7 DEF Fits
  <2>8. PICK p : p = [i \in 0 .. m |-> IF i = 0 THEN Root ELSE path[i]]
    OBVIOUS
  <2>9. p \in [0 .. m -> 0 .. born] /\ p[0] = Root /\ \A i \in 1 .. m : p[i] = path[i] /\ p[i] \in 1 .. born
    <3>1. \A i \in 1 .. m : path[i] \in 1 .. born /\ path[i] \in 0 .. born /\ i # 0 /\ i \in 0 .. m
      <4>1. \A i \in 1 .. m : path[i] \in Attached
        BY <1>2, <2>3
      <4>2. \A x \in 1 .. born : x \in 0 .. born
        BY <1>0
      <4>3. \A i \in 1 .. m : path[i] \in 1 .. born
        BY <1>0, <4>1
      <4>4. \A i \in 1 .. m : i # 0 /\ i \in 0 .. m
        OBVIOUS
      <4>5. QED BY <4>2, <4>3, <4>4
    <3>2. \A i \in 0 .. m : i = 0 \/ i \in 1 .. m
      OBVIOUS
    <3>3. 0 \in 0 .. m
      OBVIOUS
    <3>4. QED BY <1>0, <2>8, <3>1, <3>2, <3>3
  <2>10. p[m] = cur
    <3>1. CASE path = << >>
      BY <1>2, <2>3, <2>9, <3>1
    <3>2. CASE path # << >>
      <4>1. m \in 1 .. m /\ Last(path) = path[m]
        BY <2>3, <3>2 DEF Last
      <4>2. QED BY <1>2, <2>9, <3>2, <4>1
    <3>3. QED BY <3>1, <3>2
  <2>11. \A i \in 1 .. m : /\ node[p[i]].block = BlockAt(toks, i)
                           /\ node[p[i]].parent = p[i - 1]
    <3>1. SUFFICES ASSUME NEW i \in 1 .. m
                   PROVE  node[p[i]].block = BlockAt(toks, i) /\ node[p[i]].parent = p[i - 1]
      OBVIOUS
    <3>2. /\ node[path[i]].block = BlockAt(toks, i)
          /\ node[path[i]].parent = IF i = 1 THEN Root ELSE path[i - 1]
      BY <1>0, <1>2, <2>3, FoundSpells
    <3>3. i = 1 \/ i - 1 \in 1 .. m
      OBVIOUS
    <3>4. QED BY <2>9, <3>2, <3>3
  <2>12. Spells(p, al, m, node, born)
    BY <2>5, <2>9, <2>10, <2>11 DEF Spells
  <2>13. Spells(p, al, m, node', born')
    BY <1>0, <1>3, <1>4, <2>12, SpellsStill
  <2>14. born' \in Nat /\ born <= born'
    BY <1>0, <1>3
  <2>15. Fits(alloc'[a]) /\ Spells(p, alloc'[a], Depth(alloc'[a]), node', born')
    BY <2>2, <2>6, <2>7, <2>13
  <2>16. QED BY <1>4, <1>5, <2>14, <2>15, OthersSpelled
<1>8. QED BY <1>6, <1>7

\* A publication makes the path longer by the nodes it makes.
LEMMA PublishSpells ==
  ASSUME TrieInv, SpellInv, NEW a \in TrieAllocs, NEW len \in 0 .. Len(alloc[a].tokens),
         trie_publish_pages(a, len)
  PROVE  SpellInv'
<1>0. /\ TrieTypes /\ born \in Nat /\ alloc \in [TrieAllocs -> AllocRec] /\ alloc[a] \in AllocRec
      /\ alloc[a].tokens \in Seq(Token) /\ alloc[a].pages \in Seq(Pool!Pages)
  BY TrieNumbers DEF TrieInv, TrieTypes, AllocRec
<1>1. PICK size \in Nat, l \in Nat, u \in Nat :
         size = Len(alloc[a].tokens) /\ l = Len(alloc[a].pages) /\ u = alloc[a].published
  <2>1. Len(alloc[a].tokens) \in Nat /\ Len(alloc[a].pages) \in Nat /\ alloc[a].published \in Nat
    BY <1>0 DEF AllocRec
  <2>2. QED BY <2>1
<1>2. len \in Nat /\ len <= size
  BY <1>1
<1>3. PICK upto \in Nat : upto = len \div BlockTokens /\ upto * BlockTokens \in Nat /\ upto * BlockTokens <= len
  <2>1. len \div BlockTokens \in Nat
    BY <1>2, TrieCacheAssumption
  <2>2. PICK q \in Nat : q = len \div BlockTokens /\ q <= len \div BlockTokens
    BY <2>1
  <2>3. q * BlockTokens \in Nat /\ q * BlockTokens <= len
    BY <1>2, <2>2, PagesNat
  <2>4. QED BY <2>2, <2>3
<1>4. PICK k, cur, nodes, moved : Publishes(a, k, upto, cur, nodes, moved)
  BY <1>2, <1>3, PublishMakes
<1>5. /\ alloc[a].live /\ k \in Nat /\ upto >= u /\ born + k \in 0 .. MaxNodes
      /\ k = Max({0, Min({upto, l}) - u})
      /\ cur = (IF k = 0 THEN alloc[a].last ELSE born + k)
      /\ nodes \in [Nodes -> NodeRec] /\ Made(nodes, children', alloc[a], k)
      /\ born' = born + k
      /\ (moved <=> size > u * BlockTokens)
      /\ \A i \in 1 .. k : u + i <= upto
  BY <1>1, <1>4 DEF Publishes
<1>6. node' = IF moved
              THEN [n \in Nodes |->
                      [nodes[n] EXCEPT !.ref = @ + (IF n = cur THEN 1 ELSE 0)
                                                 - (IF n = alloc[a].last THEN 1 ELSE 0)]]
              ELSE nodes
  BY <1>4 DEF Publishes
<1>7. alloc' = [alloc EXCEPT ![a].last = IF moved THEN cur ELSE @, ![a].published = upto]
  BY <1>4 DEF Publishes
<1>8. \A n \in Nodes : node'[n].block = nodes[n].block /\ node'[n].parent = nodes[n].parent
  <2>1. SUFFICES ASSUME NEW n \in Nodes
                 PROVE  node'[n].block = nodes[n].block /\ node'[n].parent = nodes[n].parent
    OBVIOUS
  <2>2. nodes[n] \in NodeRec
    BY <1>5
  <2>3. QED BY <1>6, <2>2 DEF NodeRec
<1>9. 1 .. born + k \subseteq Nodes /\ born <= born + k /\ born + k \in Nat
  BY <1>0, <1>5, TrieNumbers
\* Nodes that were there keep their shape, and those made have theirs.
<1>10. ShapeKept(node', node, born)
  <2>1. ASSUME NEW n \in 1 .. born
        PROVE  node'[n].block = node[n].block /\ node'[n].parent = node[n].parent
    <3>0. k \in Nat
      BY <1>5
    <3>1. n \in 1 .. born + k /\ n \notin born + 1 .. born + k
      BY <1>0, <3>0
    <3>1a. n \in Nodes
      BY <1>9, <3>1
    <3>2. nodes[n].parent = node[n].parent /\ nodes[n].block = node[n].block
      BY <1>5, <3>1, <3>1a DEF Made
    <3>3. QED BY <1>8, <3>1a, <3>2
  <2>2. QED BY <2>1 DEF ShapeKept
<1>11. ASSUME NEW i \in 1 .. k
       PROVE  /\ node'[born + i].block = BlockAt(alloc[a].tokens, u + i)
              /\ node'[born + i].parent = IF i = 1 THEN alloc[a].last ELSE born + (i - 1)
  <2>1. PICK n \in born + 1 .. born + k : n = born + i
    BY <1>0, <1>5
  <2>2. n \in Nodes /\ n - born = i /\ (n = born + 1 <=> i = 1) /\ n - 1 = born + (i - 1)
    <3>1. i \in Nat /\ n = born + i
      BY <1>5, <2>1
    <3>2. n \in 1 .. born + k
      BY <1>0, <1>9, <2>1
    <3>3. n \in Nodes
      BY <1>9, <3>2
    <3>4. QED BY <1>0, <3>1, <3>3
  <2>3. /\ nodes[n].parent = IF n = born + 1 THEN alloc[a].last ELSE n - 1
        /\ nodes[n].block = BlockAt(alloc[a].tokens, u + (n - born))
    BY <1>1, <1>5, <2>1 DEF Made
  <2>4. QED BY <1>8, <2>1, <2>2, <2>3
<1>12. PICK d \in Nat : d = Depth(alloc[a])
  BY <1>0, DepthIs
<1>13. Min({upto, l}) = d + k /\ (k # 0 => d = u)
  <2> DEFINE Least(x, m) == m \in {x, l} /\ m <= x /\ m <= l
  <2>1. \A x \in Nat : Least(x, Min({x, l}))
    <3>1. SUFFICES ASSUME NEW x \in Nat PROVE Least(x, Min({x, l}))
      OBVIOUS
    <3>2. \E y \in {x, l} : \A z \in {x, l} : y <= z
      OBVIOUS
    <3>3. Min({x, l}) \in {x, l} /\ \A y \in {x, l} : Min({x, l}) <= y
      BY <3>2 DEF Min
    <3>4. QED BY <3>3
  <2>2. PICK m \in Nat : m = Min({upto, l}) /\ Least(upto, m)
    <3>1. Min({upto, l}) \in Nat
      BY <2>1
    <3>2. QED BY <2>1, <3>1
  <2>3. d = Min({u, l}) /\ Least(u, d)
    <3>1. d = Min({u, l})
      BY <1>1, <1>12 DEF Depth
    <3>2. QED BY <2>1, <3>1
  <2>4. PICK e \in Int : e = m - u
    OBVIOUS
  <2>5. k \in {0, e} /\ k >= 0 /\ k >= e
    <3>1. \E x \in {0, e} : \A y \in {0, e} : x >= y
      OBVIOUS
    <3>2. Max({0, e}) \in {0, e} /\ \A y \in {0, e} : Max({0, e}) >= y
      BY <3>1 DEF Max
    <3>3. k = Max({0, m - u})
      BY <1>5, <2>2
    <3>4. k = Max({0, e})
      BY <2>4, <3>3
    <3>5. QED BY <3>2, <3>4
  <2>6. u <= upto
    BY <1>5
  <2>7. m = d + k /\ (k # 0 => d = u)
    BY <2>2, <2>3, <2>4, <2>5, <2>6
  <2>8. QED BY <2>2, <2>7
\* If there are nodes made there are tokens to publish, and the reference moves.
<1>14. k # 0 => moved
  <2>1. SUFFICES ASSUME k # 0 PROVE moved
    OBVIOUS
  <2>2. u + 1 <= upto
    <3>1. k \in Nat /\ \A i \in 1 .. k : u + i <= upto
      BY <1>5
    <3>2. 1 \in 1 .. k
      BY <2>1, <3>1
    <3>3. QED BY <3>1, <3>2
  <2>3. PICK e \in Nat : upto = u + 1 + e
    BY <2>2
  <2>4. BlockTokens \in Nat /\ BlockTokens > 0
    BY TrieCacheAssumption
  <2>5. upto * BlockTokens = u * BlockTokens + BlockTokens + e * BlockTokens
        /\ u * BlockTokens \in Nat /\ e * BlockTokens \in Nat
    BY <2>3, <2>4
  <2>6. size > u * BlockTokens
    BY <1>2, <1>3, <2>4, <2>5
  <2>7. QED BY <1>5, <2>6
<1>15. PICK al : al = [alloc[a] EXCEPT !.last = IF moved THEN cur ELSE @, !.published = upto]
  OBVIOUS
<1>16. /\ alloc'[a] = al /\ \A c \in TrieAllocs : c # a => alloc'[c] = alloc[c]
       /\ al.tokens = alloc[a].tokens /\ al.pages = alloc[a].pages /\ al.published = upto
       /\ al.same = alloc[a].same
       /\ al.last = IF k = 0 THEN alloc[a].last ELSE born + k
  <2>1. alloc' = [alloc EXCEPT ![a] = al]
    BY <1>0, <1>7, <1>15
  <2>2. /\ al.tokens = alloc[a].tokens /\ al.pages = alloc[a].pages /\ al.published = upto
        /\ al.same = alloc[a].same /\ al.last = IF moved THEN cur ELSE alloc[a].last
    BY <1>0, <1>15 DEF AllocRec
  <2>3. QED BY <1>0, <1>5, <1>14, <2>1, <2>2
<1>17. Fits(al)
  <2>1. Fits(alloc[a])
    BY <1>5 DEF SpellInv
  <2>2. upto * BlockTokens <= size
    BY <1>1, <1>2, <1>3
  <2>3. QED BY <1>1, <1>16, <2>1, <2>2 DEF Fits
<1>18. Depth(al) = d + k
  BY <1>1, <1>13, <1>16 DEF Depth
<1>19. PICK p : Spells(p, alloc[a], d, node, born)
  BY <1>5, <1>12 DEF SpellInv
<1>20. p \in [0 .. d -> 0 .. born] /\ p[0] = Root /\ p[d] = alloc[a].last
  BY <1>19 DEF Spells
<1>21. ASSUME NEW i \in 1 .. d
       PROVE  /\ p[i] \in 1 .. born /\ node'[p[i]].block = BlockAt(alloc[a].tokens, i)
              /\ node'[p[i]].parent \in {p[i - 1], None}
  <2>1. /\ p[i] \in 1 .. born /\ node[p[i]].block = BlockAt(alloc[a].tokens, i)
        /\ node[p[i]].parent \in {p[i - 1], None}
    BY <1>19 DEF Spells
  <2>2. QED BY <1>10, <2>1 DEF ShapeKept
<1>22. PICK q : q = [i \in 0 .. d + k |-> IF i <= d THEN p[i] ELSE born + (i - d)]
  OBVIOUS
<1>23. /\ \A i \in 0 .. d : q[i] = p[i] /\ q[i] \in 0 .. born + k
       /\ \A i \in 1 .. k : q[d + i] = born + i /\ born + i \in 1 .. born + k
  <2>1. ASSUME NEW i \in 0 .. d PROVE q[i] = p[i] /\ q[i] \in 0 .. born + k
    <3>1. i \in 0 .. d + k /\ i <= d
      BY <1>5
    <3>2. p[i] \in 0 .. born
      BY <1>20
    <3>3. q[i] = p[i]
      BY <1>22, <3>1
    <3>4. QED BY <1>0, <1>5, <3>2, <3>3
  <2>2. ASSUME NEW i \in 1 .. k PROVE q[d + i] = born + i /\ born + i \in 1 .. born + k
    <3>1. d + i \in 0 .. d + k /\ ~ (d + i <= d) /\ (d + i) - d = i
      BY <1>5
    <3>2. q[d + i] = born + i
      BY <1>22, <3>1
    <3>3. QED BY <1>0, <1>5, <3>2
  <2>3. QED BY <2>1, <2>2
<1>24. \A j \in 0 .. d + k : j \in 0 .. d \/ \E i \in 1 .. k : j = d + i
  <2>1. ASSUME NEW j \in 0 .. d + k, j \notin 0 .. d PROVE \E i \in 1 .. k : j = d + i
    <3>1. j - d \in 1 .. k /\ j = d + (j - d)
      BY <1>5, <2>1
    <3>2. QED BY <3>1
  <2>2. QED BY <2>1
<1>25. q \in [0 .. d + k -> 0 .. born + k]
  <2>1. \A j \in 0 .. d + k : q[j] \in 0 .. born + k
    <3>1. \A i \in 1 .. k : q[d + i] \in 0 .. born + k
      <4>1. \A x \in 1 .. born + k : x \in 0 .. born + k
        BY <1>9
      <4>2. QED BY <1>23, <4>1
    <3>2. QED BY <1>23, <1>24, <3>1
  <2>2. QED BY <1>22, <2>1
<1>26. q[0] = Root /\ q[d + k] = al.last
  <2>1. 0 \in 0 .. d /\ d \in 0 .. d
    OBVIOUS
  <2>2. CASE k = 0
    <3>1. d + k = d
      BY <2>2
    <3>2. QED BY <1>16, <1>20, <1>23, <2>1, <2>2, <3>1
  <2>3. CASE k # 0
    <3>1. k \in 1 .. k
      BY <1>5, <2>3
    <3>2. QED BY <1>16, <1>20, <1>23, <2>1, <2>3, <3>1
  <2>4. QED BY <2>2, <2>3
<1>27. ASSUME NEW j \in 1 .. d + k
       PROVE  /\ q[j] \in 1 .. born + k /\ node'[q[j]].block = BlockAt(alloc[a].tokens, j)
              /\ node'[q[j]].parent \in {q[j - 1], None}
  <2>1. CASE j \in 0 .. d
    <3>1. j \in 1 .. d /\ j - 1 \in 0 .. d
      BY <2>1
    <3>2. q[j] = p[j] /\ q[j - 1] = p[j - 1]
      BY <1>23, <3>1
    <3>3. p[j] \in 1 .. born + k
      <4>1. p[j] \in 1 .. born
        BY <1>21, <3>1
      <4>2. QED BY <1>0, <1>5, <4>1
    <3>4. QED BY <1>21, <3>1, <3>2, <3>3
  <2>2. CASE \E i \in 1 .. k : j = d + i
    <3>1. PICK i \in 1 .. k : j = d + i
      BY <2>2
    <3>2. q[j] = born + i /\ born + i \in 1 .. born + k /\ d = u
      <4>1. k # 0
        BY <1>5
      <4>2. QED BY <1>13, <1>23, <3>1, <4>1
    <3>3. node'[q[j]].block = BlockAt(alloc[a].tokens, j)
      BY <1>11, <3>1, <3>2
    <3>4. q[j - 1] = IF i = 1 THEN alloc[a].last ELSE born + (i - 1)
      <4>1. CASE i = 1
        <5>1. j - 1 = d /\ d \in 0 .. d
          BY <3>1, <4>1
        <5>2. QED BY <1>20, <1>23, <4>1, <5>1
      <4>2. CASE i # 1
        <5>1. i - 1 \in 1 .. k /\ j - 1 = d + (i - 1)
          BY <1>5, <3>1, <4>2
        <5>2. QED BY <1>23, <4>2, <5>1
      <4>3. QED BY <4>1, <4>2
    <3>5. node'[q[j]].parent = q[j - 1]
      BY <1>11, <3>1, <3>2, <3>4
    <3>6. QED BY <3>2, <3>3, <3>5
  <2>3. j \in 0 .. d + k
    OBVIOUS
  <2>4. QED BY <1>24, <2>1, <2>2, <2>3
<1>28. Spells(q, al, d + k, node', born + k)
  BY <1>16, <1>25, <1>26, <1>27 DEF Spells
<1>29. born' \in Nat /\ born <= born'
  BY <1>5, <1>9
<1>30. Fits(alloc'[a]) /\ Spells(q, alloc'[a], Depth(alloc'[a]), node', born')
  BY <1>5, <1>16, <1>17, <1>18, <1>28
<1>31. QED BY <1>10, <1>16, <1>29, <1>30, OthersSpelled

----------------------------------------------------------------------------
\* A longer list has the same blocks as far as the other is full.
LEMMA SameBlocks ==
  ASSUME NEW s \in Seq(Token), NEW t \in Seq(Token), Len(s) <= Len(t),
         \A j \in 1 .. Len(s) : t[j] = s[j],
         NEW k \in Nat, k * BlockTokens <= Len(s)
  PROVE  \A i \in 1 .. k : BlockAt(t, i) = BlockAt(s, i)
<1> SUFFICES ASSUME NEW i \in 1 .. k PROVE BlockAt(t, i) = BlockAt(s, i)
  OBVIOUS
<1>1. BlockTokens \in Nat /\ BlockTokens > 0
  BY TrieCacheAssumption
<1>2. PICK before \in Nat, after \in Nat : i = before + 1 /\ k = i + after
  <2>1. i - 1 \in Nat /\ k - i \in Nat /\ i = (i - 1) + 1 /\ k = i + (k - i)
    OBVIOUS
  <2>2. QED BY <2>1
<1>3. PICK n \in Nat : n = Len(s)
  OBVIOUS
<1>4. PICK x \in Nat : x = before * BlockTokens
  BY <1>1
<1>5. i * BlockTokens = x + BlockTokens /\ x + BlockTokens <= n
  <2>1. /\ i * BlockTokens = before * BlockTokens + BlockTokens
        /\ k * BlockTokens = i * BlockTokens + after * BlockTokens
        /\ after * BlockTokens \in Nat
    BY <1>1, <1>2
  <2>2. QED BY <1>1, <1>3, <1>4, <2>1
<1>6. PICK lo \in Nat, hi \in Nat : lo = x + 1 /\ hi = x + BlockTokens
  <2>1. x + 1 \in Nat /\ x + BlockTokens \in Nat
    BY <1>1
  <2>2. QED BY <2>1
<1>7. lo >= 1 /\ hi <= n /\ lo <= hi /\ (hi - lo) + 1 = BlockTokens
  BY <1>1, <1>5, <1>6
<1>8. BlockAt(s, i) = SubSeq(s, lo, hi) /\ BlockAt(t, i) = SubSeq(t, lo, hi)
  <2>1. (i - 1) * BlockTokens + 1 = lo /\ i * BlockTokens = hi
    <3>1. i - 1 = before
      BY <1>2
    <3>2. QED BY <1>4, <1>5, <1>6, <3>1
  <2>2. QED BY <2>1 DEF BlockAt
<1>9. ASSUME NEW r \in Seq(Token), n <= Len(r)
      PROVE  SubSeq(r, lo, hi) = [j \in 1 .. BlockTokens |-> r[(lo + j) - 1]]
  <2>1. PICK m \in Nat : m = Len(r)
    OBVIOUS
  <2>2. lo >= 1 /\ hi <= m /\ lo <= hi /\ (hi - lo) + 1 = BlockTokens
    BY <1>3, <1>7, <1>9, <2>1
  <2>3. SubSeq(r, lo, hi) = [j \in 1 .. ((hi - lo) + 1) |-> r[(lo + j) - 1]]
    BY <2>1, <2>2
  <2>4. QED BY <2>2, <2>3
<1>10. \A j \in 1 .. BlockTokens : t[(lo + j) - 1] = s[(lo + j) - 1]
  <2>1. \A j \in 1 .. BlockTokens : (lo + j) - 1 \in 1 .. n
    BY <1>1, <1>5, <1>6
  <2>2. QED BY <1>3, <2>1
<1>11. SubSeq(s, lo, hi) = SubSeq(t, lo, hi)
  <2>0. n <= Len(s) /\ n <= Len(t)
    BY <1>3
  <2>1. SubSeq(s, lo, hi) = [j \in 1 .. BlockTokens |-> s[(lo + j) - 1]]
    BY <1>9, <2>0
  <2>2. SubSeq(t, lo, hi) = [j \in 1 .. BlockTokens |-> t[(lo + j) - 1]]
    BY <1>9, <2>0
  <2>3. QED BY <1>10, <2>1, <2>2
<1>12. QED BY <1>8, <1>11

\* More tokens and pages for the allocation of one request.
LEMMA GrownSpells ==
  ASSUME TrieInv, SpellInv, ShapeKept(node', node, born), born' = born,
         NEW a \in TrieAllocs, alloc[a].live, \A c \in TrieAllocs : c # a => alloc'[c] = alloc[c],
         alloc'[a] \in AllocRec, Fits(alloc'[a]),
         alloc'[a].last = alloc[a].last, alloc'[a].published = alloc[a].published,
         Depth(alloc'[a]) = Depth(alloc[a]), Len(alloc[a].tokens) <= Len(alloc'[a].tokens),
         \A j \in 1 .. Len(alloc[a].tokens) : alloc'[a].tokens[j] = alloc[a].tokens[j]
  PROVE  SpellInv'
<1>1. born \in Nat /\ alloc[a] \in AllocRec /\ Fits(alloc[a])
  BY TrieNumbers DEF TrieInv, TrieTypes, SpellInv
<1>2. PICK s \in Seq(Token), t \in Seq(Token), u \in Nat :
         s = alloc[a].tokens /\ t = alloc'[a].tokens /\ u = alloc[a].published
  BY <1>1 DEF AllocRec
<1>3. PICK d \in Nat : d = Depth(alloc[a]) /\ d <= u
  BY <1>1, <1>2, DepthIs
<1>4. u * BlockTokens <= Len(s)
  BY <1>1, <1>2 DEF Fits
<1>5. \A i \in 1 .. u : BlockAt(t, i) = BlockAt(s, i)
  BY <1>2, <1>4, SameBlocks
<1>6. \A i \in 1 .. d : BlockAt(alloc'[a].tokens, i) = BlockAt(alloc[a].tokens, i)
  <2>1. \A i \in 1 .. d : i \in 1 .. u
    BY <1>3
  <2>2. QED BY <1>2, <1>5, <2>1
<1>7. PICK p : Spells(p, alloc[a], d, node, born)
  BY <1>3 DEF SpellInv
<1>8. PICK al : al = alloc'[a]
  OBVIOUS
<1>9. Spells(p, al, d, node', born)
  BY <1>1, <1>6, <1>7, <1>8, SpellsStill
<1>10. Spells(p, alloc'[a], Depth(alloc'[a]), node', born')
  BY <1>3, <1>8, <1>9
<1>11. born' \in Nat /\ born <= born'
  BY <1>1
<1>12. QED BY <1>10, <1>11, OthersSpelled

\* The pages of an allocation whose list has not grown unseen are at least the
\* published ones.
LEMMA PagesPublished ==
  ASSUME NEW al \in AllocRec, Fits(al), ~ al.same
  PROVE  al.published <= Len(al.pages)
<1>1. PICK size \in Nat, l \in Nat, u \in Nat :
         size = Len(al.tokens) /\ l = Len(al.pages) /\ u = al.published
  <2>1. Len(al.tokens) \in Nat /\ Len(al.pages) \in Nat /\ al.published \in Nat
    BY DEF AllocRec
  <2>2. QED BY <2>1
<1>2. u * BlockTokens <= size /\ size <= l * BlockTokens
  BY <1>1 DEF Fits
<1>3. BlockTokens \in Nat /\ BlockTokens > 0
  BY TrieCacheAssumption
<1>4. ASSUME u > l PROVE FALSE
  <2>1. PICK e \in Nat : u = l + 1 + e
    <3>1. u - (l + 1) \in Nat /\ u = l + 1 + (u - (l + 1))
      BY <1>4
    <3>2. QED BY <3>1
  <2>2. u * BlockTokens = l * BlockTokens + BlockTokens + e * BlockTokens
        /\ e * BlockTokens \in Nat /\ l * BlockTokens \in Nat
    BY <1>3, <2>1
  <2>3. QED BY <1>2, <1>3, <2>2
<1>5. QED BY <1>1, <1>4

LEMMA ExtendSpells ==
  ASSUME TrieInv, SpellInv, NEW a \in TrieAllocs, NEW toks \in Seq(Token), NEW same \in BOOLEAN,
         trie_extend_allocation(a, toks, 1, same)
  PROVE  SpellInv'
<1>0. /\ TrieTypes /\ born \in Nat /\ alloc \in [TrieAllocs -> AllocRec] /\ alloc[a] \in AllocRec
      /\ alloc[a].live /\ ~alloc[a].same /\ Fits(alloc[a]) /\ lru \in Seq(Nodes)
  BY TrieNumbers DEF TrieInv, TrieTypes, trie_extend_allocation, SpellInv
<1>1. PICK s \in Seq(Token), owned \in Seq(Pool!Pages), l \in Nat, u \in Nat, size \in Nat :
         /\ s = alloc[a].tokens /\ owned = alloc[a].pages /\ l = Len(owned) /\ u = alloc[a].published
         /\ size = Len(toks)
  <2>1. alloc[a].pages \in Seq(Pool!Pages) /\ Len(alloc[a].pages) \in Nat /\ Len(toks) \in Nat
    BY <1>0 DEF AllocRec
  <2>2. alloc[a].tokens \in Seq(Token) /\ alloc[a].published \in Nat
    BY <1>0 DEF AllocRec
  <2>3. QED BY <2>1, <2>2
<1>2. Len(s) <= Len(toks) /\ \A j \in 1 .. Len(s) : toks[j] = s[j]
  <2>1. Len(s) <= Len(toks) /\ SubSeq(s, 1, Len(s)) = SubSeq(toks, 1, Len(s))
    BY <1>1 DEF trie_extend_allocation, IsStrictPrefix, IsPrefix
  <2>2. \A j \in 1 .. Len(s) : SubSeq(s, 1, Len(s))[j] = s[j] /\ SubSeq(toks, 1, Len(s))[j] = toks[j]
    BY <2>1
  <2>3. QED BY <2>1, <2>2
<1>3. PICK wanted \in Nat : wanted = TriePagesFor(size + 1) /\ size + 1 <= wanted * BlockTokens
  <2>1. PICK x \in Nat : x = size + 1
    OBVIOUS
  <2>2. QED BY <2>1, PagesEnough
<1>4. PICK needed \in Int : needed = wanted - l
  OBVIOUS
<1>5. u <= l /\ u * BlockTokens <= Len(s)
  BY <1>0, <1>1, PagesPublished DEF Fits
<1>6. Depth(alloc[a]) = u
  BY <1>0, <1>1, <1>5, DepthIs
\* What holds of an allocation with the new tokens and with pages enough.
<1>7. ASSUME NEW al \in AllocRec, alloc'[a] = al, \A c \in TrieAllocs : c # a => alloc'[c] = alloc[c],
             ShapeKept(node', node, born), born' = born,
             al.last = alloc[a].last, al.published = u, al.tokens = toks,
             NEW n \in Nat, n = Len(al.pages), n >= l, n >= wanted
      PROVE  SpellInv'
  <2>1. Depth(al) = u
    <3>1. u <= Len(al.pages)
      BY <1>5, <1>7
    <3>2. QED BY <1>7, <3>1, DepthIs
  <2>2. Fits(al)
    <3>1. PICK e \in Nat : n = wanted + e
      <4>1. n - wanted \in Nat /\ n = wanted + (n - wanted)
        BY <1>7
      <4>2. QED BY <4>1
    <3>2. BlockTokens \in Nat
      BY TrieCacheAssumption
    <3>3. n * BlockTokens = wanted * BlockTokens + e * BlockTokens
          /\ e * BlockTokens \in Nat /\ wanted * BlockTokens \in Nat
      BY <3>1, <3>2
    <3>4. size <= n * BlockTokens
      BY <1>3, <3>3
    <3>5. u * BlockTokens <= size
      <4>1. u * BlockTokens \in Nat /\ Len(s) \in Nat
        BY <3>2
      <4>2. QED BY <1>1, <1>2, <1>5, <4>1
    <3>6. QED BY <1>1, <1>7, <3>4, <3>5 DEF Fits
  <2>3. /\ alloc'[a] \in AllocRec /\ Fits(alloc'[a]) /\ Depth(alloc'[a]) = Depth(alloc[a])
        /\ alloc'[a].last = alloc[a].last /\ alloc'[a].published = alloc[a].published
        /\ Len(alloc[a].tokens) <= Len(alloc'[a].tokens)
        /\ \A j \in 1 .. Len(alloc[a].tokens) : alloc'[a].tokens[j] = alloc[a].tokens[j]
    BY <1>1, <1>2, <1>6, <1>7, <2>1, <2>2
  <2>4. QED BY <1>0, <1>7, <2>3, GrownSpells
<1>8. PICK kept : kept = [alloc[a] EXCEPT !.tokens = toks, !.same = same]
  OBVIOUS
<1>9. /\ kept \in AllocRec /\ kept.last = alloc[a].last /\ kept.published = u
      /\ kept.pages = owned /\ kept.tokens = toks
  BY <1>0, <1>1, <1>8 DEF AllocRec
<1>10. PICK extended : extended = [alloc EXCEPT ![a].tokens = toks, ![a].same = same]
  OBVIOUS
<1>11. extended = [alloc EXCEPT ![a] = kept] /\ extended \in [TrieAllocs -> AllocRec]
  <2>1. extended = [alloc EXCEPT ![a] = kept]
    BY <1>0, <1>8, <1>10
  <2>2. QED BY <1>0, <1>9, <2>1
<1>12. CASE needed <= 0 /\ alloc' = extended /\ UNCHANGED <<free_list, trieVars>>
  <2>1. ShapeKept(node', node, born) /\ born' = born
    BY <1>12 DEF trieVars, ShapeKept
  <2>2. alloc'[a] = kept /\ \A c \in TrieAllocs : c # a => alloc'[c] = alloc[c]
    BY <1>0, <1>11, <1>12
  <2>3. l = Len(kept.pages) /\ l >= wanted
    BY <1>1, <1>4, <1>9, <1>12
  <2>4. QED BY <1>7, <1>9, <2>1, <2>2, <2>3
<1>13. CASE /\ needed > 0 /\ UNCHANGED <<born, lru>>
            /\ \E got \in {ObtainPages(node, lru, needed)} :
                  /\ Commit(got)
                  /\ alloc' = IF got.error # "ok" THEN alloc
                              ELSE [extended EXCEPT ![a].pages = @ \o got.obtained]
  <2>1. PICK got : /\ got = ObtainPages(node, lru, needed) /\ Commit(got)
                   /\ alloc' = IF got.error # "ok" THEN alloc
                               ELSE [extended EXCEPT ![a].pages = @ \o got.obtained]
    BY <1>13
  <2>2. needed \in Nat
    BY <1>13
  <2>3. /\ ShapeKept(got.node, node, born) /\ got.obtained \in Seq(Pool!Pages)
        /\ got.error = "ok" => Len(got.obtained) = needed
    <3>1. Referenced(node)
      BY NodeReferenced
    <3>2. QED BY <1>0, <2>1, <2>2, <3>1, GetCount
  <2>4. ShapeKept(node', node, born) /\ born' = born
    BY <1>13, <2>1, <2>3 DEF Commit
  <2>5. CASE got.error # "ok"
    <3>1. alloc' = alloc
      BY <2>1, <2>5
    <3>2. /\ \A c \in TrieAllocs : c # a => alloc'[c] = alloc[c]
          /\ alloc'[a] \in AllocRec /\ Fits(alloc'[a]) /\ Depth(alloc'[a]) = Depth(alloc[a])
          /\ alloc'[a].last = alloc[a].last /\ alloc'[a].published = alloc[a].published
          /\ Len(alloc[a].tokens) <= Len(alloc'[a].tokens)
          /\ \A j \in 1 .. Len(alloc[a].tokens) : alloc'[a].tokens[j] = alloc[a].tokens[j]
      BY <1>0, <1>1, <3>1
    <3>3. QED BY <1>0, <2>4, <3>2, GrownSpells
  <2>6. CASE got.error = "ok"
    <3>1. PICK al : al = [kept EXCEPT !.pages = @ \o got.obtained]
      OBVIOUS
    <3>2. kept.pages \o got.obtained \in Seq(Pool!Pages) /\ Len(kept.pages \o got.obtained) = l + needed
      <4>1. PICK more \in Seq(Pool!Pages) : more = got.obtained /\ Len(more) = needed
        BY <2>3, <2>6
      <4>2. owned \o more \in Seq(Pool!Pages) /\ Len(owned \o more) = l + needed
        <5>1. owned \o more \in Seq(Pool!Pages) /\ Len(owned \o more) = Len(owned) + Len(more)
          BY ConcatItems
        <5>2. QED BY <1>1, <4>1, <5>1
      <4>3. QED BY <1>9, <4>1, <4>2
    <3>3. /\ al \in AllocRec /\ al.last = alloc[a].last /\ al.published = u /\ al.tokens = toks
          /\ Len(al.pages) = l + needed
      BY <1>9, <3>1, <3>2 DEF AllocRec
    <3>4. alloc'[a] = al /\ \A c \in TrieAllocs : c # a => alloc'[c] = alloc[c]
      <4>1. alloc' = [extended EXCEPT ![a].pages = @ \o got.obtained]
        BY <2>1, <2>6
      <4>2. extended[a] = kept /\ \A c \in TrieAllocs : c # a => extended[c] = alloc[c]
        BY <1>0, <1>11
      <4>3. QED BY <1>11, <3>1, <4>1, <4>2
    <3>5. PICK n \in Nat : n = l + needed /\ n >= l /\ n >= wanted
      BY <1>4, <2>2
    <3>6. QED BY <1>7, <2>4, <3>3, <3>4, <3>5
  <2>7. QED BY <2>5, <2>6
<1>14. QED
  <2>1. TriePagesFor(Len(toks) + 1) - Len(alloc[a].pages) = needed
    BY <1>1, <1>3, <1>4
  <2>2. \/ needed <= 0 /\ alloc' = extended /\ UNCHANGED <<free_list, trieVars>>
        \/ /\ needed > 0 /\ UNCHANGED <<born, lru>>
           /\ \E got \in {ObtainPages(node, lru, needed)} :
                 /\ Commit(got)
                 /\ alloc' = IF got.error # "ok" THEN alloc
                             ELSE [extended EXCEPT ![a].pages = @ \o got.obtained]
    BY <1>10, <2>1 DEF trie_extend_allocation
  <2>3. QED BY <1>12, <1>13, <2>2

LEMMA SameListSpells ==
  ASSUME TrieInv, SpellInv, NEW a \in TrieAllocs, NEW t \in Token,
         ExtendWithSameList(a, Append(alloc[a].tokens, t))
  PROVE  SpellInv'
<1>0. /\ alloc \in [TrieAllocs -> AllocRec] /\ alloc[a] \in AllocRec /\ alloc[a].live /\ alloc[a].same
      /\ Fits(alloc[a])
  BY DEF TrieInv, TrieTypes, ExtendWithSameList, SpellInv
<1>1. PICK s \in Seq(Token) : s = alloc[a].tokens
  BY <1>0 DEF AllocRec
<1>2. PICK toks \in Seq(Token) : /\ toks = Append(s, t) /\ Len(toks) = Len(s) + 1
                                /\ \A j \in 1 .. Len(s) : toks[j] = s[j]
  <2>1. Append(s, t) \in Seq(Token) /\ Len(Append(s, t)) = Len(s) + 1
        /\ \A j \in 1 .. Len(s) : Append(s, t)[j] = s[j]
    BY AppendItems
  <2>2. QED BY <2>1
<1>3. PICK al : al = [alloc[a] EXCEPT !.tokens = toks]
  OBVIOUS
<1>4. /\ al \in AllocRec /\ al.last = alloc[a].last /\ al.pages = alloc[a].pages
      /\ al.published = alloc[a].published /\ al.tokens = toks /\ al.same
  BY <1>0, <1>3 DEF AllocRec
<1>5. alloc'[a] = al /\ \A c \in TrieAllocs : c # a => alloc'[c] = alloc[c]
  BY <1>0, <1>1, <1>2, <1>3 DEF ExtendWithSameList
<1>6. ShapeKept(node', node, born) /\ born' = born
  BY DEF ExtendWithSameList, trieVars, ShapeKept
<1>7. Depth(al) = Depth(alloc[a])
  BY <1>4 DEF Depth
<1>8. Fits(al)
  <2>1. PICK x \in Int : x = al.published * BlockTokens
    <3>1. al.published \in Nat
      BY <1>4 DEF AllocRec
    <3>2. QED BY <3>1, TrieCacheAssumption
  <2>2. x <= Len(s)
    BY <1>0, <1>1, <1>4, <2>1 DEF Fits
  <2>3. Len(s) \in Nat
    OBVIOUS
  <2>4. x <= Len(toks)
    BY <1>2, <2>2, <2>3
  <2>5. QED BY <1>4, <2>1, <2>4 DEF Fits
<1>9. Len(s) <= Len(toks)
  BY <1>2
<1>10. /\ alloc'[a] \in AllocRec /\ Fits(alloc'[a]) /\ Depth(alloc'[a]) = Depth(alloc[a])
       /\ alloc'[a].last = alloc[a].last /\ alloc'[a].published = alloc[a].published
       /\ Len(alloc[a].tokens) <= Len(alloc'[a].tokens)
       /\ \A j \in 1 .. Len(alloc[a].tokens) : alloc'[a].tokens[j] = alloc[a].tokens[j]
  BY <1>1, <1>2, <1>4, <1>5, <1>7, <1>8, <1>9
<1>11. QED BY <1>0, <1>5, <1>6, <1>10, GrownSpells

LEMMA ReleaseSpells ==
  ASSUME TrieInv, SpellInv, NEW a \in TrieAllocs, TrieReleaseLive(a)
  PROVE  SpellInv'
<1>0. /\ born \in Nat /\ 1 .. born \subseteq Nodes /\ node \in [Nodes -> NodeRec]
      /\ alloc \in [TrieAllocs -> AllocRec]
  BY TrieNumbers DEF TrieInv, TrieTypes
<1>1. /\ node' = [node EXCEPT ![alloc[a].last].ref = @ - 1] /\ born' = born
      /\ ~ alloc'[a].live /\ \A c \in TrieAllocs : c # a => alloc'[c] = alloc[c]
  BY <1>0 DEF TrieReleaseLive
<1>2. ShapeKept(node', node, born)
  <2>1. ASSUME NEW n \in 1 .. born
        PROVE  node'[n].block = node[n].block /\ node'[n].parent = node[n].parent
    <3>1. n \in Nodes /\ node[n] \in NodeRec
      BY <1>0
    <3>2. node'[n] = node[n] \/ node'[n] = [node[n] EXCEPT !.ref = @ - 1]
      BY <1>0, <1>1, <3>1
    <3>3. QED BY <3>1, <3>2 DEF NodeRec
  <2>2. QED BY <2>1 DEF ShapeKept
<1>3. born' \in Nat /\ born <= born'
  BY <1>0, <1>1
<1>4. QED BY <1>1, <1>2, <1>3, OthersSpelled

LEMMA SpellStays ==
  ASSUME SpellInv, UNCHANGED trieCacheVars
  PROVE  SpellInv'
<1>1. alloc' = alloc /\ node' = node /\ born' = born
  BY DEF trieCacheVars, trieVars
<1>2. \A a \in TrieAllocs : alloc'[a].live =>
         Fits(alloc'[a]) /\ \E p : Spells(p, alloc'[a], Depth(alloc'[a]), node', born')
  BY <1>1 DEF SpellInv
<1>3. QED BY <1>2 DEF SpellInv, Fits, Depth, Spells

LEMMA SpellSteps == TrieInv /\ SpellInv /\ [TrieNext]_trieCacheVars => SpellInv'
<1> SUFFICES ASSUME TrieInv, SpellInv, [TrieNext]_trieCacheVars PROVE SpellInv'
  OBVIOUS
<1>1. CASE UNCHANGED trieCacheVars
  BY <1>1, SpellStays
<1>2. CASE TrieNext
  <2>1. PICK a \in TrieAllocs : TrieAcquire(a) \/ TriePublish(a) \/ TrieExtend(a) \/ TrieRelease(a)
    BY <1>2 DEF TrieNext
  <2>2. alloc[a] \in AllocRec /\ alloc[a].tokens \in Seq(Token)
    BY DEF TrieInv, TrieTypes, AllocRec
  <2>3. CASE TrieAcquire(a)
    <3>1. PICK toks \in Seq(Token) : trie_acquire_pages(a, toks, 0)
      BY <2>3, TrieCacheAssumption DEF TrieAcquire
    <3>2. QED BY <3>1, AcquireSpells
  <2>4. CASE TriePublish(a)
    BY <2>4, PublishSpells DEF TriePublish
  <2>5. CASE TrieExtend(a)
    <3>1. PICK t \in Token :
             \/ \E same \in BOOLEAN : trie_extend_allocation(a, Append(alloc[a].tokens, t), 1, same)
             \/ ExtendWithSameList(a, Append(alloc[a].tokens, t))
      BY <2>5, TrieCacheAssumption DEF TrieExtend
    <3>2. PICK toks \in Seq(Token) : toks = Append(alloc[a].tokens, t)
      BY <2>2, AppendItems
    <3>3. CASE \E same \in BOOLEAN : trie_extend_allocation(a, toks, 1, same)
      BY <3>3, ExtendSpells
    <3>4. CASE ExtendWithSameList(a, Append(alloc[a].tokens, t))
      BY <3>4, SameListSpells
    <3>5. QED BY <3>1, <3>2, <3>3, <3>4
  <2>6. CASE TrieReleaseLive(a)
    BY <2>6, ReleaseSpells
  <2>7. CASE TrieReleaseAgain(a)
    BY <2>7, SpellStays DEF TrieReleaseAgain
  <2>8. QED BY <2>1, <2>3, <2>4, <2>5, <2>6, <2>7 DEF TrieRelease
<1>3. QED BY <1>1, <1>2

\* LookupsMatchTokens, whatever the pool, the prompts and the calls: the node
\* that counts an allocation is, if a lookup can find it at all, the one that a
\* lookup of the allocation's own tokens finds, as deep as it has published
\* pages.  So no request is given the attention cache of other tokens, through
\* evictions that cut paths, publications of the same tokens by two requests and
\* lists of tokens that grow after they were handed over.
THEOREM LookupsFindTheirTokens == TrieSpec => []LookupsMatchTokens
<1>1. TrieInit => TrieInv /\ SpellInv
  <2>1. TrieInit => SpellInv
    BY DEF TrieInit, SpellInv
  <2>2. QED BY <2>1, TrieStarts
<1>2. TrieInv /\ SpellInv /\ [TrieNext]_trieCacheVars => TrieInv' /\ SpellInv'
  BY TrieSteps, SpellSteps
<1>3. TrieInv /\ SpellInv => LookupsMatchTokens
  BY SpelledIsFound
<1>4. QED BY <1>1, <1>2, <1>3, PTL DEF TrieSpec
=============================================================================
