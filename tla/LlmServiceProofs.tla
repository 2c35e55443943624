-------------------------- MODULE LlmServiceProofs --------------------------
(***************************************************************************)
(* Proofs about LlmService, for any finite set of requests, any pool, page *)
(* size, batch sizes and lengths.                                          *)
(***************************************************************************)
EXTENDS LlmService, ProofLemmas

----------------------------------------------------------------------------
(***************************************************************************)
(* The invariant.                                                          *)
(***************************************************************************)
LlmTypes ==
    /\ client \in {"new", "running", "over"} /\ stream \in BOOLEAN
    /\ parts \in [Requests -> Nat] /\ steps \in [Requests -> Nat] /\ tokens \in [Requests -> Nat]
    /\ generator \in [Requests -> {"none", "new", "waiting", "finished", "failed"}]
    /\ phase \in [Requests -> {"prefill", "decode"}]
    /\ done \in [Requests -> BOOLEAN] /\ logits \in [Requests -> BOOLEAN]
    /\ allocation \in [Requests -> Nat \cup {None}] /\ free \in Nat
    /\ infeed \in Seq(Requests \cup {"strobe"})
    /\ pending_prefills \subseteq Requests /\ pending_decodes \subseteq Requests
    /\ strobes \in Nat
    /\ flights \subseteq Flight

\* A stream has got a part for every token so far, and one more at the end.
PartsSound ==
    \A r \in Requests :
        /\ client = "new" => generator[r] = "none"
        /\ client = "over" => generator[r] \notin {"new", "waiting"}
        /\ generator[r] \in {"none", "new"} => parts[r] = 0 /\ steps[r] = 0
        /\ stream /\ generator[r] = "waiting" => parts[r] = steps[r]
        /\ stream /\ generator[r] = "finished" => parts[r] = steps[r] + 1

\* The three places where a request can be.
Fed(r) == \E i \in DOMAIN infeed : infeed[i] = r
Boarding(r) == r \in pending_prefills \cup pending_decodes
Flown(r) == \E f \in flights : r \in Aboard(f)

Asks(r) == generator[r] = "waiting" /\ ~done[r]

\* It is in one of them, once, as long as its generator waits.
FedOnce == \A i, j \in DOMAIN infeed : infeed[i] \in Requests /\ infeed[i] = infeed[j] => i = j
FlownOnce == \A f, g \in flights : Aboard(f) \cap Aboard(g) # {} => f = g
InOnePlace(r) == /\ ~(Fed(r) /\ Boarding(r))
                 /\ ~(Fed(r) /\ Flown(r))
                 /\ ~(Boarding(r) /\ Flown(r))
                 /\ Asks(r) <=> Fed(r) \/ Boarding(r) \/ Flown(r)

PlacesSound == /\ FedOnce /\ FlownOnce
               /\ pending_prefills \cap pending_decodes = {}
               /\ \A r \in Requests : InOnePlace(r)

\* A flight carries each request once; none has been answered before the results
\* are there.
FlightsSound ==
    \A f \in flights :
        /\ f.returned < Len(f.reqs)
        /\ f.stage # "results" => f.returned = 0
        /\ \A i, j \in DOMAIN f.reqs : f.reqs[i] = f.reqs[j] => i = j

\* A request that has not been prefilled has no pages yet.
AllocationsSound ==
    /\ \A r \in Requests : generator[r] \in {"none", "new"} =>
          allocation[r] = None /\ phase[r] = "prefill" /\ ~done[r]
    /\ \A r \in Requests : Fed(r) /\ phase[r] = "prefill" => allocation[r] = None
    /\ \A r \in pending_prefills : allocation[r] = None

LlmInv == /\ LlmTypes /\ PartsSound /\ PlacesSound /\ FlightsSound /\ AllocationsSound
          /\ PagesSound

----------------------------------------------------------------------------
(***************************************************************************)
(* Pages and lists of requests.                                            *)
(***************************************************************************)

\* Pages are counted in whole numbers.
LEMMA PagesForNat == \A n \in Nat : PagesFor(n) \in Nat
<1> SUFFICES ASSUME NEW n \in Nat PROVE PagesFor(n) \in Nat
  OBVIOUS
<1> DEFINE t == SeqStride
           q == (n + t - 1) \div t
<1>1. t \in Nat /\ t > 0
  BY LlmAssumption
<1> HIDE DEF t
<1>2. n + t - 1 \in Nat
  BY <1>1
<1>3. q \in Nat
  BY <1>1, <1>2
<1>4. QED BY <1>3 DEF PagesFor, t

\* The greater of two.
LEMMA MaxOfTwo ==
  \A a, b \in Int : Max({a, b}) = IF a >= b THEN a ELSE b
<1> SUFFICES ASSUME NEW a \in Int, NEW b \in Int
             PROVE  Max({a, b}) = IF a >= b THEN a ELSE b
  OBVIOUS
<1>1. \E x \in {a, b} : \A y \in {a, b} : x >= y
  OBVIOUS
<1>2. Max({a, b}) \in {a, b} /\ \A y \in {a, b} : Max({a, b}) >= y
  BY <1>1 DEF Max
<1>3. QED BY <1>2

Distinct(s) == \A i, j \in DOMAIN s : s[i] = s[j] => i = j

\* One request more in a list.
LEMMA OneMoreOn ==
  ASSUME NEW s \in Seq(Requests), NEW x \in Requests, Distinct(s), x \notin ToSet(s)
  PROVE  /\ Append(s, x) \in Seq(Requests) /\ Distinct(Append(s, x))
         /\ ToSet(Append(s, x)) = ToSet(s) \cup {x}
<1>1. /\ Append(s, x) \in Seq(Requests)
      /\ Len(s) \in Nat /\ DOMAIN s = 1 .. Len(s)
      /\ DOMAIN Append(s, x) = 1 .. (Len(s) + 1)
      /\ \A i \in DOMAIN s : Append(s, x)[i] = s[i]
      /\ Append(s, x)[Len(s) + 1] = x
  BY AppendItems
<1>2. \A i \in DOMAIN s : s[i] # x
  BY DEF ToSet
<1>3. Distinct(Append(s, x))
  BY <1>1, <1>2 DEF Distinct
<1>4. ToSet(Append(s, x)) = ToSet(s) \cup {x}
  BY <1>1 DEF ToSet
<1>5. QED BY <1>1, <1>3, <1>4

\* A set of requests in some order.
LEMMA InOrder ==
  ASSUME NEW S \in SUBSET Requests, NEW order \in SetToSeqs(S)
  PROVE  order \in Seq(Requests) /\ Distinct(order) /\ ToSet(order) \subseteq S
<1>1. IsFiniteSet(S)
  BY LlmAssumption, FS_Subset
<1>2. Cardinality(S) \in Nat
  BY <1>1, FS_CardinalityType
<1>3. order \in [1 .. Cardinality(S) -> S]
  BY DEF SetToSeqs
<1>4. order \in Seq(S)
  BY <1>2, <1>3
<1>5. \A i, j \in 1 .. Cardinality(S) : i # j => order[i] # order[j]
  BY DEF SetToSeqs
<1>6. QED BY <1>3, <1>4, <1>5 DEF Distinct, ToSet

----------------------------------------------------------------------------
(***************************************************************************)
(* Boarding.                                                               *)
(***************************************************************************)

\* The pages that everybody holds once P has been prefilled and D extended.
HeldWith(P, D) == [r \in Requests |-> IF r \in P THEN PagesFor(tokens[r])
                                      ELSE IF r \in D THEN Max({allocation[r], DecodePages(r)})
                                      ELSE Held[r]]

\* These are numbers of pages.
LEMMA HeldWithNat ==
  ASSUME LlmTypes
  PROVE  /\ Held \in [Requests -> Nat]
         /\ \A P, D : (\A r \in D : allocation[r] # None) => HeldWith(P, D) \in [Requests -> Nat]
<1>1. \A r \in Requests : tokens[r] \in Nat /\ tokens[r] + 1 \in Nat
  BY DEF LlmTypes
<1>2. \A r \in Requests : PagesFor(tokens[r]) \in Nat /\ DecodePages(r) \in Nat
  BY <1>1, PagesForNat DEF DecodePages
<1>3. Held \in [Requests -> Nat]
  BY DEF LlmTypes, Held
<1>4. ASSUME NEW r \in Requests, allocation[r] # None PROVE Max({allocation[r], DecodePages(r)}) \in Nat
  <2>1. allocation[r] \in Nat
    BY <1>4 DEF LlmTypes
  <2>2. allocation[r] \in Int /\ DecodePages(r) \in Int
    BY <1>2, <2>1
  <2>3. Max({allocation[r], DecodePages(r)}) \in {allocation[r], DecodePages(r)}
    BY <2>2, MaxOfTwo
  <2>4. QED BY <1>2, <2>1, <2>3
<1>5. QED BY <1>2, <1>3, <1>4 DEF HeldWith

\* Who is on board of a prefill flight, out of S, and what it leaves of the pool.
PrefillsOn(b, S) ==
    /\ b \in [on : Seq(Requests), free : Nat]
    /\ Distinct(b.on) /\ ToSet(b.on) \subseteq S
    /\ b.free + SumFunctionOnSet(HeldWith(ToSet(b.on), {}), Requests) = PageCount

DecodesOn(b, S, P) ==
    /\ b \in [on : Seq(Requests), free : Nat, raised : BOOLEAN]
    /\ Distinct(b.on) /\ ToSet(b.on) \subseteq S
    /\ \A r \in ToSet(b.on) : allocation[r] # None
    /\ b.free + SumFunctionOnSet(HeldWith(P, ToSet(b.on)), Requests) = PageCount

\* A turn of board_prefills.
LEMMA BoardPrefillKeeps ==
  ASSUME LlmTypes, NEW S \in SUBSET Requests, NEW b, PrefillsOn(b, S),
         NEW x \in Requests \ S, allocation[x] = None
  PROVE  PrefillsOn(BoardPrefill(b, x), S \cup {x})
<1> DEFINE need == PagesFor(tokens[x])
           m == HeldWith(ToSet(b.on), {})
<1>0. /\ b.on \in Seq(Requests) /\ b.free \in Nat /\ Distinct(b.on) /\ x \notin ToSet(b.on)
      /\ b.free + SumFunctionOnSet(m, Requests) = PageCount
  BY DEF PrefillsOn
<1>1. need \in Nat
  BY PagesForNat DEF LlmTypes
<1>2. CASE Len(b.on) < IdealBatch /\ need <= b.free
  <2> DEFINE c == [on |-> Append(b.on, x), free |-> b.free - need]
  <2>1. BoardPrefill(b, x) = c
    BY <1>2 DEF BoardPrefill
  <2>2. /\ Append(b.on, x) \in Seq(Requests) /\ Distinct(Append(b.on, x))
        /\ ToSet(Append(b.on, x)) = ToSet(b.on) \cup {x}
    BY <1>0, OneMoreOn
  <2>3. b.free - need \in Nat
    BY <1>0, <1>1, <1>2
  <2>4. HeldWith(ToSet(b.on) \cup {x}, {}) = [m EXCEPT ![x] = need]
    BY DEF HeldWith
  <2>5. m \in [Requests -> Nat] /\ m[x] = 0
    <3>1. m \in [Requests -> Nat]
      BY HeldWithNat, \A r \in {} : FALSE, Zenon
    <3>2. m[x] = 0
      BY <1>0 DEF HeldWith, Held
    <3>3. QED BY <3>1, <3>2
  <2>6. SumFunctionOnSet(m, Requests) \in Nat
    BY <2>5, SumCounts, LlmAssumption
  <2> HIDE DEF need, m
  <2>7. SumFunctionOnSet([m EXCEPT ![x] = need], Requests) + m[x]
           = SumFunctionOnSet(m, Requests) + need
    <3>1. IsFiniteSet(Requests)
      BY LlmAssumption
    <3>2. QED BY <1>1, <2>5, <3>1, SumAt, Zenon
  <2>8. [m EXCEPT ![x] = need] \in [Requests -> Nat]
    BY <1>1, <2>5
  <2>9. SumFunctionOnSet([m EXCEPT ![x] = need], Requests) \in Nat
    BY <2>8, SumCounts, LlmAssumption
  <2>10. b.free - need + SumFunctionOnSet([m EXCEPT ![x] = need], Requests) = PageCount
    BY <1>0, <1>1, <2>5, <2>6, <2>7, <2>9
  <2>11. c.on = Append(b.on, x) /\ c.free = b.free - need
    OBVIOUS
  <2>12. PrefillsOn(c, S \cup {x})
    BY <2>2, <2>3, <2>4, <2>10, <2>11 DEF PrefillsOn
  <2>13. QED BY <2>1, <2>12
<1>3. CASE ~(Len(b.on) < IdealBatch /\ need <= b.free)
  <2>1. BoardPrefill(b, x) = b
    BY <1>3 DEF BoardPrefill
  <2>2. QED BY <2>1 DEF PrefillsOn
<1>4. QED BY <1>2, <1>3

\* A turn of board_decodes.
LEMMA BoardDecodeKeeps ==
  ASSUME LlmTypes, NEW S \in SUBSET Requests, NEW P, NEW b, DecodesOn(b, S, P),
         NEW x \in Requests \ S, x \notin P
  PROVE  DecodesOn(BoardDecode(b, x), S \cup {x}, P)
<1> DEFINE need == Max({0, DecodePages(x) - allocation[x]})
           now == Max({allocation[x], DecodePages(x)})
           m == HeldWith(P, ToSet(b.on))
<1>0. /\ b \in [on : Seq(Requests), free : Nat, raised : BOOLEAN]
      /\ b.on \in Seq(Requests) /\ b.free \in Nat /\ Distinct(b.on) /\ x \notin ToSet(b.on)
      /\ b.free + SumFunctionOnSet(m, Requests) = PageCount
      /\ ToSet(b.on) \subseteq S /\ \A r \in ToSet(b.on) : allocation[r] # None
  BY DEF DecodesOn
<1>1. DecodePages(x) \in Nat
  <2>1. tokens[x] + 1 \in Nat
    BY DEF LlmTypes
  <2>2. QED BY <2>1, PagesForNat DEF DecodePages
<1>2. CASE ~b.raised /\ Len(b.on) < IdealBatch /\ allocation[x] # None /\ need <= b.free
  <2> DEFINE c == [b EXCEPT !.on = Append(@, x), !.free = @ - need]
  <2>0. Len(b.on) \in Nat /\ IdealBatch \in Nat
    BY <1>0, LlmAssumption
  <2>1. BoardDecode(b, x) = c
    BY <1>2, <2>0 DEF BoardDecode
  <2>2. /\ Append(b.on, x) \in Seq(Requests) /\ Distinct(Append(b.on, x))
        /\ ToSet(Append(b.on, x)) = ToSet(b.on) \cup {x}
    BY <1>0, OneMoreOn
  <2>3. allocation[x] \in Nat
    BY <1>2 DEF LlmTypes
  <2>4. need \in Nat /\ now \in Nat /\ now = allocation[x] + need
    <3>1. {allocation[x], DecodePages(x), DecodePages(x) - allocation[x], 0} \subseteq Int
      BY <1>1, <2>3
    <3>2. /\ now = IF allocation[x] >= DecodePages(x) THEN allocation[x] ELSE DecodePages(x)
          /\ need = IF 0 >= DecodePages(x) - allocation[x] THEN 0
                    ELSE DecodePages(x) - allocation[x]
      BY <3>1, MaxOfTwo
    <3> HIDE DEF now, need
    <3>3. QED BY <1>1, <2>3, <3>2
  <2>5. b.free - need \in Nat
    BY <1>0, <1>2, <2>4
  <2>6. HeldWith(P, ToSet(b.on) \cup {x}) = [m EXCEPT ![x] = now]
    BY DEF HeldWith
  <2>7. m \in [Requests -> Nat] /\ m[x] = allocation[x]
    BY <1>0, <1>2, HeldWithNat DEF HeldWith, Held
  <2>8. SumFunctionOnSet(m, Requests) \in Nat
    BY <2>7, SumCounts, LlmAssumption
  <2> HIDE DEF need, now, m
  <2>9. SumFunctionOnSet([m EXCEPT ![x] = now], Requests) + m[x]
           = SumFunctionOnSet(m, Requests) + now
    <3>1. IsFiniteSet(Requests)
      BY LlmAssumption
    <3>2. QED BY <2>4, <2>7, <3>1, SumAt, Zenon
  <2>10. [m EXCEPT ![x] = now] \in [Requests -> Nat]
    BY <2>4, <2>7
  <2>11. SumFunctionOnSet([m EXCEPT ![x] = now], Requests) \in Nat
    BY <2>10, SumCounts, LlmAssumption
  <2>12. b.free - need + SumFunctionOnSet([m EXCEPT ![x] = now], Requests) = PageCount
    <3> DEFINE new == SumFunctionOnSet([m EXCEPT ![x] = now], Requests)
               old == SumFunctionOnSet(m, Requests)
               had == allocation[x]
    <3>1. b.free \in Nat /\ b.free + old = PageCount
      BY <1>0
    <3>2. need \in Nat /\ now = had + need /\ had \in Nat /\ old \in Nat /\ new \in Nat
      BY <2>3, <2>4, <2>8, <2>11
    <3>3. new + had = old + now
      BY <2>7, <2>9
    <3> HIDE DEF new, old, had
    <3>4. b.free - need + new = PageCount
      BY <3>1, <3>2, <3>3
    <3>5. QED BY <3>4 DEF new
  <2>13. c.on = Append(b.on, x) /\ c.free = b.free - need /\ c.raised = b.raised
    BY <1>0
  <2>14. c \in [on : Seq(Requests), free : Nat, raised : BOOLEAN]
    BY <1>0, <2>2, <2>5
  <2> HIDE DEF c
  <2>15. DecodesOn(c, S \cup {x}, P)
    BY <1>0, <1>2, <2>2, <2>6, <2>12, <2>13, <2>14 DEF DecodesOn
  <2>16. QED BY <2>1, <2>15
<1>3. CASE ~(~b.raised /\ Len(b.on) < IdealBatch /\ allocation[x] # None /\ need <= b.free)
  <2> DEFINE c == [b EXCEPT !.raised = TRUE]
  <2>0. Len(b.on) \in Nat /\ IdealBatch \in Nat
    BY <1>0, LlmAssumption
  <2>1. BoardDecode(b, x) = b \/ BoardDecode(b, x) = c
    BY <1>3, <2>0 DEF BoardDecode
  <2>2. c \in [on : Seq(Requests), free : Nat, raised : BOOLEAN] /\ c.on = b.on /\ c.free = b.free
    BY <1>0
  <2> HIDE DEF c
  <2>3. DecodesOn(b, S \cup {x}, P) /\ DecodesOn(c, S \cup {x}, P)
    BY <1>0, <2>2 DEF DecodesOn
  <2>4. QED BY <2>1, <2>3
<1>4. QED BY <1>2, <1>3


----------------------------------------------------------------------------
(***************************************************************************)
(* The loops of board_prefills and board_decodes.                          *)
(***************************************************************************)
PrefillBoard == [on : Seq(Requests), free : Nat]
DecodeBoard == [on : Seq(Requests), free : Nat, raised : BOOLEAN]

\* A turn leaves a board.
LEMMA BoardPrefillType ==
  ASSUME LlmTypes
  PROVE  \A b \in PrefillBoard, r \in Requests : BoardPrefill(b, r) \in PrefillBoard
<1> TAKE b \in PrefillBoard, r \in Requests
<1>1. PagesFor(tokens[r]) \in Nat
  BY PagesForNat DEF LlmTypes
<1>2. b.on \in Seq(Requests) /\ b.free \in Nat /\ Append(b.on, r) \in Seq(Requests)
  BY DEF PrefillBoard
<1>3. PagesFor(tokens[r]) <= b.free => b.free - PagesFor(tokens[r]) \in Nat
  BY <1>1, <1>2
<1>4. QED BY <1>2, <1>3 DEF BoardPrefill, PrefillBoard

\* A turn of board_decodes leaves a board as well.
LEMMA BoardDecodeType ==
  ASSUME LlmTypes
  PROVE  \A b \in DecodeBoard, r \in Requests : BoardDecode(b, r) \in DecodeBoard
<1> TAKE b \in DecodeBoard, r \in Requests
<1> DEFINE need == Max({0, DecodePages(r) - allocation[r]})
<1>1. DecodePages(r) \in Nat
  <2>1. tokens[r] + 1 \in Nat
    BY DEF LlmTypes
  <2>2. QED BY <2>1, PagesForNat DEF DecodePages
<1>2. b.on \in Seq(Requests) /\ b.free \in Nat /\ Append(b.on, r) \in Seq(Requests)
  BY DEF DecodeBoard
<1>3. need \in Nat
  <2>1. allocation[r] \in Int
    BY DEF LlmTypes, None
  <2>2. DecodePages(r) - allocation[r] \in Int
    BY <1>1, <2>1
  <2>3. need = IF 0 >= DecodePages(r) - allocation[r] THEN 0 ELSE DecodePages(r) - allocation[r]
    BY <2>2, MaxOfTwo
  <2> HIDE DEF need
  <2>4. QED BY <2>2, <2>3
<1> HIDE DEF need
<1>4. need <= b.free => b.free - need \in Nat
  BY <1>2, <1>3
<1>5. /\ [b EXCEPT !.raised = TRUE] \in DecodeBoard
      /\ need <= b.free => [b EXCEPT !.on = Append(@, r), !.free = @ - need] \in DecodeBoard
  BY <1>2, <1>4 DEF DecodeBoard
<1>6. QED BY <1>5 DEF BoardDecode, need

\* The boards that board_prefills goes through.
LEMMA BoardPrefillsDefined ==
  ASSUME LlmTypes, NEW order \in Seq(Requests)
  PROVE  \E f \in [0 .. Len(order) -> PrefillBoard] :
            /\ BoardPrefills(order) = f[Len(order)]
            /\ f[0] = [on |-> << >>, free |-> free]
            /\ \A k \in 1 .. Len(order) : f[k] = BoardPrefill(f[k - 1], order[k])
<1> DEFINE n == Len(order)
           a == [on |-> << >>, free |-> free]
           Def(f) == [k \in 0 .. n |-> IF k = 0 THEN a ELSE BoardPrefill(f[k - 1], order[k])]
           G == [p \in (0 .. n) \X PrefillBoard |->
                   IF p[1] = 0 THEN a ELSE BoardPrefill(p[2], order[p[1]])]
           B == CHOOSE f : f = Def(f)
<1>1. BoardPrefills(order) = B[n]
  BY DEF BoardPrefills
<1>2. n \in Nat /\ \A k \in 1 .. n : order[k] \in Requests
  OBVIOUS
<1>3. a \in PrefillBoard
  BY DEF LlmTypes, PrefillBoard
<1>4. \A b \in PrefillBoard, r \in Requests : BoardPrefill(b, r) \in PrefillBoard
  BY BoardPrefillType
<1> HIDE DEF a
<1>5. G \in [(0 .. n) \X PrefillBoard -> PrefillBoard]
  <2> HIDE DEF n
  <2>1. ASSUME NEW p \in (0 .. n) \X PrefillBoard
        PROVE  (IF p[1] = 0 THEN a ELSE BoardPrefill(p[2], order[p[1]])) \in PrefillBoard
    <3>1. p[1] \in 0 .. n /\ p[2] \in PrefillBoard
      OBVIOUS
    <3>2. p[1] # 0 => order[p[1]] \in Requests
      BY <1>2, <3>1
    <3>3. QED BY <1>3, <1>4, <3>1, <3>2
  <2>2. QED BY <2>1
<1> HIDE DEF n
<1>6. PICK f \in [0 .. n -> PrefillBoard] : f[0] = a /\ \A k \in 1 .. n : f[k] = G[<<k, f[k - 1]>>]
  <2> HIDE DEF G
  <2>1. PICK f : Iterates(f, n, PrefillBoard, a, G)
    BY <1>2, <1>3, <1>5, Recursion
  <2>2. QED BY <2>1 DEF Iterates
<1>7. \A k \in 1 .. n : f[k] = BoardPrefill(f[k - 1], order[k])
  <2> SUFFICES ASSUME NEW k \in 1 .. n PROVE f[k] = BoardPrefill(f[k - 1], order[k])
    OBVIOUS
  <2>1. k \in 0 .. n /\ k - 1 \in 0 .. n /\ k # 0
    BY <1>2
  <2>2. <<k, f[k - 1]>> \in (0 .. n) \X PrefillBoard
    BY <2>1
  <2>3. QED BY <1>6, <2>1, <2>2
<1>8. f = Def(f)
  <2>1. \A k \in 0 .. n : f[k] = IF k = 0 THEN a ELSE BoardPrefill(f[k - 1], order[k])
    BY <1>2, <1>6, <1>7
  <2>2. f = [k \in 0 .. n |-> f[k]]
    OBVIOUS
  <2>3. QED BY <2>1, <2>2
<1>9. B = Def(B)
  <2> HIDE DEF Def
  <2>1. QED BY <1>8
<1> HIDE DEF B
<1>10. B[0] = a /\ \A k \in 1 .. n : B[k] = BoardPrefill(B[k - 1], order[k])
  BY <1>2, <1>9
<1>11. B \in [0 .. n -> PrefillBoard]
  <2> DEFINE T == {k \in 0 .. n : B[k] \in PrefillBoard}
  <2>1. 0 \in T
    BY <1>2, <1>3, <1>10
  <2>2. ASSUME NEW k \in 0 .. n, k \in T, k # n PROVE k + 1 \in T
    <3>1. k + 1 \in 1 .. n /\ (k + 1) - 1 = k /\ B[k] \in PrefillBoard
      BY <1>2, <2>2
    <3>2. B[k + 1] \in PrefillBoard
      BY <1>2, <1>4, <1>10, <3>1
    <3>3. QED BY <3>1, <3>2
  <2>3. 0 .. n \subseteq T
    <3> HIDE DEF T
    <3>1. QED BY <1>2, <2>1, <2>2, UpTo
  <2>4. B = [k \in 0 .. n |-> B[k]]
    BY <1>9
  <2>5. QED BY <2>3, <2>4
<1>12. QED BY <1>1, <1>10, <1>11 DEF a, n

\* The boards that board_decodes goes through.
LEMMA BoardDecodesDefined ==
  ASSUME LlmTypes, NEW order \in Seq(Requests), NEW pool \in Nat
  PROVE  \E f \in [0 .. Len(order) -> DecodeBoard] :
            /\ BoardDecodes(order, pool) = f[Len(order)]
            /\ f[0] = [on |-> << >>, free |-> pool, raised |-> FALSE]
            /\ \A k \in 1 .. Len(order) : f[k] = BoardDecode(f[k - 1], order[k])
<1> DEFINE n == Len(order)
           a == [on |-> << >>, free |-> pool, raised |-> FALSE]
           Def(f) == [k \in 0 .. n |-> IF k = 0 THEN a ELSE BoardDecode(f[k - 1], order[k])]
           G == [p \in (0 .. n) \X DecodeBoard |->
                   IF p[1] = 0 THEN a ELSE BoardDecode(p[2], order[p[1]])]
           B == CHOOSE f : f = Def(f)
<1>1. BoardDecodes(order, pool) = B[n]
  BY DEF BoardDecodes
<1>2. n \in Nat /\ \A k \in 1 .. n : order[k] \in Requests
  OBVIOUS
<1>3. a \in DecodeBoard
  BY DEF LlmTypes, DecodeBoard
<1>4. \A b \in DecodeBoard, r \in Requests : BoardDecode(b, r) \in DecodeBoard
  BY BoardDecodeType
<1> HIDE DEF a
<1>5. G \in [(0 .. n) \X DecodeBoard -> DecodeBoard]
  <2> HIDE DEF n
  <2>1. ASSUME NEW p \in (0 .. n) \X DecodeBoard
        PROVE  (IF p[1] = 0 THEN a ELSE BoardDecode(p[2], order[p[1]])) \in DecodeBoard
    <3>1. p[1] \in 0 .. n /\ p[2] \in DecodeBoard
      OBVIOUS
    <3>2. p[1] # 0 => order[p[1]] \in Requests
      BY <1>2, <3>1
    <3>3. QED BY <1>3, <1>4, <3>1, <3>2
  <2>2. QED BY <2>1
<1> HIDE DEF n
<1>6. PICK f \in [0 .. n -> DecodeBoard] : f[0] = a /\ \A k \in 1 .. n : f[k] = G[<<k, f[k - 1]>>]
  <2> HIDE DEF G
  <2>1. PICK f : Iterates(f, n, DecodeBoard, a, G)
    BY <1>2, <1>3, <1>5, Recursion
  <2>2. QED BY <2>1 DEF Iterates
<1>7. \A k \in 1 .. n : f[k] = BoardDecode(f[k - 1], order[k])
  <2> SUFFICES ASSUME NEW k \in 1 .. n PROVE f[k] = BoardDecode(f[k - 1], order[k])
    OBVIOUS
  <2>1. k \in 0 .. n /\ k - 1 \in 0 .. n /\ k # 0
    BY <1>2
  <2>2. <<k, f[k - 1]>> \in (0 .. n) \X DecodeBoard
    BY <2>1
  <2>3. QED BY <1>6, <2>1, <2>2
<1>8. f = Def(f)
  <2>1. \A k \in 0 .. n : f[k] = IF k = 0 THEN a ELSE BoardDecode(f[k - 1], order[k])
    BY <1>2, <1>6, <1>7
  <2>2. f = [k \in 0 .. n |-> f[k]]
    OBVIOUS
  <2>3. QED BY <2>1, <2>2
<1>9. B = Def(B)
  <2> HIDE DEF Def
  <2>1. QED BY <1>8
<1> HIDE DEF B
<1>10. B[0] = a /\ \A k \in 1 .. n : B[k] = BoardDecode(B[k - 1], order[k])
  BY <1>2, <1>9
<1>11. B \in [0 .. n -> DecodeBoard]
  <2> DEFINE T == {k \in 0 .. n : B[k] \in DecodeBoard}
  <2>1. 0 \in T
    BY <1>2, <1>3, <1>10
  <2>2. ASSUME NEW k \in 0 .. n, k \in T, k # n PROVE k + 1 \in T
    <3>1. k + 1 \in 1 .. n /\ (k + 1) - 1 = k /\ B[k] \in DecodeBoard
      BY <1>2, <2>2
    <3>2. B[k + 1] \in DecodeBoard
      BY <1>2, <1>4, <1>10, <3>1
    <3>3. QED BY <3>1, <3>2
  <2>3. 0 .. n \subseteq T
    <3> HIDE DEF T
    <3>1. QED BY <1>2, <2>1, <2>2, UpTo
  <2>4. B = [k \in 0 .. n |-> B[k]]
    BY <1>9
  <2>5. QED BY <2>3, <2>4
<1>12. QED BY <1>1, <1>10, <1>11 DEF a, n

\* board_prefills takes some of S on board, and the pages they need from the pool.
LEMMA PrefillsBoarded ==
  ASSUME LlmTypes, NEW S \in SUBSET Requests, NEW order \in SetToSeqs(S), PagesAccounted, \A r \in S : allocation[r] = None
  PROVE  PrefillsOn(BoardPrefills(order), S)
<1> DEFINE n == Len(order)
           Seen(k) == {order[i] : i \in 1 .. k}
<1>1. order \in Seq(Requests) /\ Distinct(order) /\ ToSet(order) \subseteq S
  BY InOrder
<1>2. n \in Nat /\ DOMAIN order = 1 .. n
  BY <1>1
<1>3. \A i \in 1 .. n : order[i] \in S
  BY <1>1, <1>2 DEF ToSet
<1>4. PICK f \in [0 .. n -> PrefillBoard] :
         /\ BoardPrefills(order) = f[n]
         /\ f[0] = [on |-> << >>, free |-> free]
         /\ \A k \in 1 .. n : f[k] = BoardPrefill(f[k - 1], order[k])
  BY <1>1, BoardPrefillsDefined
<1> DEFINE T == {k \in 0 .. n : PrefillsOn(f[k], Seen(k))}
<1> HIDE DEF n
<1>5. 0 \in T
  <2>1. 1 .. 0 = {} /\ 0 \in 0 .. n
    BY <1>2
  <2>2. Seen(0) = {} /\ ToSet(<< >>) = {} /\ Distinct(<< >>) /\ << >> \in Seq(Requests)
    BY <2>1 DEF Distinct, ToSet
  <2>3. HeldWith({}, {}) = Held
    BY DEF HeldWith, Held
  <2>4. free + SumFunctionOnSet(HeldWith({}, {}), Requests) = PageCount /\ free \in Nat
    BY <2>3 DEF PagesAccounted, LlmTypes
  <2>5. /\ f[0].on = << >> /\ f[0].free = free /\ f[0] \in PrefillBoard
    BY <1>4, <2>1
  <2> HIDE DEF Seen
  <2>6. PrefillsOn(f[0], Seen(0))
    BY <2>2, <2>4, <2>5 DEF PrefillsOn, PrefillBoard
  <2>7. QED BY <2>1, <2>6
<1>6. ASSUME NEW k \in 0 .. n, k \in T, k # n PROVE k + 1 \in T
  <2>1. k + 1 \in 1 .. n /\ k + 1 \in 0 .. n /\ (k + 1) - 1 = k /\ 1 .. k + 1 = (1 .. k) \cup {k + 1}
    BY <1>2, <1>6
  <2>2. Seen(k + 1) = Seen(k) \cup {order[k + 1]}
    BY <2>1
  <2>3. Seen(k) \in SUBSET Requests /\ order[k + 1] \in Requests \ Seen(k)
    <3>1. \A i \in 1 .. k : i \in 1 .. n /\ i # k + 1
      BY <1>2
    <3>2. \A i \in 1 .. k : order[i] \in Requests /\ order[i] # order[k + 1]
      BY <1>1, <1>2, <1>3, <2>1, <3>1 DEF Distinct
    <3>3. QED BY <1>3, <2>1, <3>2
  <2>4. f[k + 1] = BoardPrefill(f[k], order[k + 1])
    BY <1>4, <2>1
  <2>5. PrefillsOn(f[k], Seen(k))
    BY <1>6
  <2>6. allocation[order[k + 1]] = None
    BY <1>3, <2>1
  <2> HIDE DEF Seen
  <2>7. PrefillsOn(BoardPrefill(f[k], order[k + 1]), Seen(k) \cup {order[k + 1]})
    BY <2>3, <2>5, <2>6, BoardPrefillKeeps
  <2>8. QED BY <2>1, <2>2, <2>4, <2>7
<1>7. 0 .. n \subseteq T
  <2> HIDE DEF T
  <2>1. QED BY <1>2, <1>5, <1>6, UpTo
<1>8. PrefillsOn(f[n], Seen(n)) /\ Seen(n) \subseteq S
  BY <1>2, <1>3, <1>7
<1>9. QED BY <1>4, <1>8 DEF PrefillsOn

\* board_decodes takes some of S on board, and what they are short of from the pool.
LEMMA DecodesBoarded ==
  ASSUME LlmTypes, NEW S \in SUBSET Requests, NEW order \in SetToSeqs(S),
         NEW P, S \cap P = {}, NEW pool \in Nat,
         pool + SumFunctionOnSet(HeldWith(P, {}), Requests) = PageCount
  PROVE  DecodesOn(BoardDecodes(order, pool), S, P)
<1> DEFINE n == Len(order)
           Seen(k) == {order[i] : i \in 1 .. k}
<1>1. order \in Seq(Requests) /\ Distinct(order) /\ ToSet(order) \subseteq S
  BY InOrder
<1>2. n \in Nat /\ DOMAIN order = 1 .. n
  BY <1>1
<1>3. \A i \in 1 .. n : order[i] \in S
  BY <1>1, <1>2 DEF ToSet
<1>4. PICK f \in [0 .. n -> DecodeBoard] :
         /\ BoardDecodes(order, pool) = f[n]
         /\ f[0] = [on |-> << >>, free |-> pool, raised |-> FALSE]
         /\ \A k \in 1 .. n : f[k] = BoardDecode(f[k - 1], order[k])
  BY <1>1, BoardDecodesDefined
<1> DEFINE T == {k \in 0 .. n : DecodesOn(f[k], Seen(k), P)}
<1> HIDE DEF n
<1>5. 0 \in T
  <2>1. 1 .. 0 = {} /\ 0 \in 0 .. n
    BY <1>2
  <2>2. Seen(0) = {} /\ ToSet(<< >>) = {} /\ Distinct(<< >>) /\ << >> \in Seq(Requests)
    BY <2>1 DEF Distinct, ToSet
  <2>3. /\ f[0].on = << >> /\ f[0].free = pool /\ f[0] \in DecodeBoard
    <3>1. f[0] \in DecodeBoard
      BY <1>4, <2>1
    <3>2. f[0] = [on |-> << >>, free |-> pool, raised |-> FALSE]
      BY <1>4
    <3>3. QED BY <3>1, <3>2
  <2> HIDE DEF Seen
  <2>4. DecodesOn(f[0], Seen(0), P)
    BY <2>2, <2>3 DEF DecodesOn, DecodeBoard
  <2>5. QED BY <2>1, <2>4
<1>6. ASSUME NEW k \in 0 .. n, k \in T, k # n PROVE k + 1 \in T
  <2>1. k + 1 \in 1 .. n /\ k + 1 \in 0 .. n /\ (k + 1) - 1 = k /\ 1 .. k + 1 = (1 .. k) \cup {k + 1}
    BY <1>2, <1>6
  <2>2. Seen(k + 1) = Seen(k) \cup {order[k + 1]}
    BY <2>1
  <2>3. Seen(k) \in SUBSET Requests /\ order[k + 1] \in Requests \ Seen(k)
    <3>1. \A i \in 1 .. k : i \in 1 .. n /\ i # k + 1
      BY <1>2
    <3>2. \A i \in 1 .. k : order[i] \in Requests /\ order[i] # order[k + 1]
      BY <1>1, <1>2, <1>3, <2>1, <3>1 DEF Distinct
    <3>3. QED BY <1>3, <2>1, <3>2
  <2>4. f[k + 1] = BoardDecode(f[k], order[k + 1])
    BY <1>4, <2>1
  <2>5. DecodesOn(f[k], Seen(k), P)
    BY <1>6
  <2>6. order[k + 1] \notin P
    BY <1>3, <2>1
  <2> HIDE DEF Seen
  <2>7. DecodesOn(BoardDecode(f[k], order[k + 1]), Seen(k) \cup {order[k + 1]}, P)
    BY <2>3, <2>5, <2>6, BoardDecodeKeeps
  <2>8. QED BY <2>1, <2>2, <2>4, <2>7
<1>7. 0 .. n \subseteq T
  <2> HIDE DEF T
  <2>1. QED BY <1>2, <1>5, <1>6, UpTo
<1>8. DecodesOn(f[n], Seen(n), P) /\ Seen(n) \subseteq S
  BY <1>2, <1>3, <1>7
<1>9. QED BY <1>4, <1>8 DEF DecodesOn

----------------------------------------------------------------------------
(***************************************************************************)
(* What the actions do to the places, and to the pool.                     *)
(***************************************************************************)

\* An item is fed to the batcher.
LEMMA FeedOne ==
  ASSUME LlmTypes, FedOnce, NEW x \in Requests \cup {"strobe"}, x \in Requests => ~Fed(x),
         infeed' = Append(infeed, x)
  PROVE  /\ infeed' \in Seq(Requests \cup {"strobe"})
         /\ FedOnce'
         /\ \A r \in Requests : Fed(r)' <=> Fed(r) \/ r = x
<1>1. infeed \in Seq(Requests \cup {"strobe"})
  BY DEF LlmTypes
<1>2. /\ infeed' \in Seq(Requests \cup {"strobe"})
      /\ Len(infeed) \in Nat /\ DOMAIN infeed = 1 .. Len(infeed)
      /\ DOMAIN infeed' = 1 .. (Len(infeed) + 1)
      /\ \A i \in DOMAIN infeed : infeed'[i] = infeed[i]
      /\ infeed'[Len(infeed) + 1] = x
  BY <1>1, AppendItems
<1>3. \A i \in DOMAIN infeed' : i \in DOMAIN infeed \/ i = Len(infeed) + 1
  BY <1>2
<1>4. Len(infeed) + 1 \in DOMAIN infeed' /\ DOMAIN infeed \subseteq DOMAIN infeed'
  BY <1>2
<1>5. FedOnce'
  BY <1>2, <1>3, <1>4 DEF FedOnce, Fed
<1>6. \A r \in Requests : Fed(r)' <=> Fed(r) \/ r = x
  BY <1>2, <1>3, <1>4 DEF Fed
<1>7. QED BY <1>2, <1>5, <1>6

\* The batcher reads an item.
LEMMA ReadOne ==
  ASSUME LlmTypes, FedOnce, infeed # << >>, infeed' = Tail(infeed)
  PROVE  /\ infeed' \in Seq(Requests \cup {"strobe"})
         /\ FedOnce'
         /\ Item \in Requests => Fed(Item)
         /\ \A r \in Requests : Fed(r)' <=> Fed(r) /\ r # Item
<1>1. infeed \in Seq(Requests \cup {"strobe"})
  BY DEF LlmTypes
<1>2. /\ Item = infeed[1] /\ 1 \in DOMAIN infeed
      /\ infeed' \in Seq(Requests \cup {"strobe"})
      /\ \A i \in DOMAIN infeed' : i + 1 \in DOMAIN infeed /\ infeed'[i] = infeed[i + 1]
                                     /\ i \in Int /\ i > 0
      /\ \A i \in DOMAIN infeed : i = 1 \/ (i - 1 \in DOMAIN infeed' /\ infeed'[i - 1] = infeed[i])
  BY <1>1, TailItems DEF Item
<1>3. FedOnce'
  BY <1>2 DEF FedOnce
<1>4. ASSUME NEW r \in Requests PROVE Fed(r)' <=> Fed(r) /\ r # Item
  <2>1. ASSUME NEW i \in DOMAIN infeed', infeed'[i] = r PROVE Fed(r) /\ r # Item
    <3>1. i + 1 \in DOMAIN infeed /\ infeed[i + 1] = r /\ i + 1 # 1
      BY <1>2, <2>1
    <3>2. QED BY <1>2, <1>4, <3>1 DEF Fed, FedOnce
  <2>2. ASSUME NEW i \in DOMAIN infeed, infeed[i] = r, r # Item PROVE Fed(r)'
    BY <1>2, <2>2 DEF Fed
  <2>3. QED BY <2>1, <2>2 DEF Fed
<1>5. QED BY <1>2, <1>3, <1>4 DEF Fed

\* Who is aboard.
LEMMA AboardOf ==
  ASSUME LlmTypes, FlightsSound, NEW f \in flights
  PROVE  /\ f \in Flight /\ f.reqs \in Seq(Requests) /\ f.returned \in Nat
         /\ f.returned + 1 \in DOMAIN f.reqs
         /\ f.reqs[f.returned + 1] \in Aboard(f)
         /\ Aboard(f) \subseteq Requests
         /\ f.returned = 0 => Aboard(f) = ToSet(f.reqs)
<1>1. f \in Flight /\ f.reqs \in Seq(Requests) /\ f.returned \in Nat /\ f.returned < Len(f.reqs)
  BY DEF LlmTypes, Flight, FlightsSound
<1>2. Len(f.reqs) \in Nat /\ DOMAIN f.reqs = 1 .. Len(f.reqs)
  BY <1>1
<1>3. f.returned + 1 \in DOMAIN f.reqs /\ f.returned + 1 \in (f.returned + 1) .. Len(f.reqs)
  BY <1>1, <1>2
<1>4. (f.returned + 1) .. Len(f.reqs) \subseteq DOMAIN f.reqs
  BY <1>1, <1>2
<1>5. Aboard(f) \subseteq Requests
  BY <1>1, <1>4 DEF Aboard
<1>6. f.returned = 0 => Aboard(f) = ToSet(f.reqs)
  BY <1>2 DEF Aboard, ToSet
<1>7. QED BY <1>1, <1>3, <1>5, <1>6 DEF Aboard

\* Pages that are freed come back to the pool.
LEMMA FreeingKeeps ==
  ASSUME LlmTypes, PagesAccounted, NEW S \in SUBSET Requests, FreeCachePages(S)
  PROVE  /\ free' \in Nat /\ allocation' \in [Requests -> Nat \cup {None}]
         /\ PagesAccounted'
         /\ \A r \in Requests : allocation'[r] = IF r \in S THEN None ELSE allocation[r]
<1>1. Held \in [Requests -> Nat] /\ IsFiniteSet(Requests) /\ IsFiniteSet(S)
  BY HeldWithNat, LlmAssumption, FS_Subset
<1>2. /\ free' = free + SumFunctionOnSet(Held, S)
      /\ allocation' = [r \in Requests |-> IF r \in S THEN None ELSE allocation[r]]
  BY DEF FreeCachePages
<1>3. Held' = Zeroed(Held, Requests, S)
  <2>1. Held' = [r \in Requests |-> IF allocation'[r] = None THEN 0 ELSE allocation'[r]]
    BY DEF Held
  <2>2. QED BY <1>2, <2>1 DEF Held, Zeroed
<1>4. /\ Held' \in [Requests -> Nat]
      /\ SumFunctionOnSet(Held, Requests) = SumFunctionOnSet(Held, S) + SumFunctionOnSet(Held', Requests)
  <2> DEFINE h == Held
  <2> HIDE DEF h
  <2>1. h \in [Requests -> Nat]
    BY <1>1 DEF h
  <2>2. /\ Zeroed(h, Requests, S) \in [Requests -> Nat]
        /\ SumFunctionOnSet(h, Requests)
              = SumFunctionOnSet(h, S) + SumFunctionOnSet(Zeroed(h, Requests, S), Requests)
    BY <1>1, <2>1, SumSplits
  <2>3. QED BY <1>3, <2>2 DEF h
<1>5. /\ SumFunctionOnSet(Held, S) \in Nat /\ SumFunctionOnSet(Held, Requests) \in Nat
      /\ SumFunctionOnSet(Held', Requests) \in Nat
  BY <1>1, <1>4, SumCounts
<1>6. free \in Nat /\ free + SumFunctionOnSet(Held, Requests) = PageCount
  BY DEF LlmTypes, PagesAccounted
<1>7. free' + SumFunctionOnSet(Held', Requests) = PageCount
  BY <1>2, <1>4, <1>5, <1>6
<1>8. PagesAccounted'
  BY <1>7 DEF PagesAccounted
<1>9. free' \in Nat
  BY <1>2, <1>5, <1>6
<1>10. allocation' \in [Requests -> Nat \cup {None}]
  BY <1>2 DEF LlmTypes
<1>11. QED BY <1>2, <1>8, <1>9, <1>10

\* The requests that the batcher has once it has read an item.
LEMMA ReadBoarding ==
  ASSUME LlmInv, infeed # << >>
  PROVE  /\ Prefills \in SUBSET Requests /\ Decodes \in SUBSET Requests
         /\ Prefills \cap Decodes = {}
         /\ \A r \in Prefills : allocation[r] = None
         /\ \A r \in Requests : r \in Prefills \cup Decodes <=> Boarding(r) \/ r = Item
         /\ Item \in Requests => Fed(Item)
<1>1. pending_prefills \subseteq Requests /\ pending_decodes \subseteq Requests
  BY DEF LlmInv, LlmTypes
<1>2. Item \in Requests => Fed(Item)
  <2>1. infeed \in Seq(Requests \cup {"strobe"})
    BY DEF LlmInv, LlmTypes
  <2>2. Item = infeed[1] /\ 1 \in DOMAIN infeed
    BY <2>1, TailItems DEF Item
  <2>3. QED BY <2>2 DEF Fed
<1>3. Item \in Requests => ~Boarding(Item) /\ phase[Item] \in {"prefill", "decode"}
  BY <1>2 DEF LlmInv, PlacesSound, InOnePlace, LlmTypes
<1>4. Prefills \in SUBSET Requests /\ Decodes \in SUBSET Requests
  BY <1>1 DEF Prefills, Decodes
<1>5. Prefills \cap Decodes = {}
  BY <1>3 DEF Prefills, Decodes, LlmInv, PlacesSound, Boarding
<1>6. \A r \in Prefills : allocation[r] = None
  BY <1>2 DEF Prefills, LlmInv, AllocationsSound
<1>7. \A r \in Requests : r \in Prefills \cup Decodes <=> Boarding(r) \/ r = Item
  BY <1>3 DEF Prefills, Decodes, Boarding
<1>8. QED BY <1>2, <1>4, <1>5, <1>6, <1>7

\* What board_flights does to the pool, with P and D on board.
OnBoard(P, D) ==
    /\ P \subseteq Prefills /\ D \subseteq Decodes
    /\ free' \in Nat /\ allocation' \in [Requests -> Nat \cup {None}]
    /\ PagesAccounted'
    /\ \A r \in P : allocation'[r] = PagesFor(tokens[r])
    /\ \A r \in D : allocation'[r] >= DecodePages(r)
    /\ \A r \in Requests \ (P \cup D) : allocation'[r] = allocation[r]

\* The pages that board_flights takes are those that its flights write to.
LEMMA BoardingKeeps ==
  ASSUME LlmInv, infeed # << >>,
         NEW op \in SetToSeqs(Prefills), NEW od \in SetToSeqs(Decodes),
         NEW bp, bp = BoardPrefills(op), NEW bd, bd = BoardDecodes(od, bp.free),
         allocation' = Allocated(bp, bd), free' = bd.free
  PROVE  /\ bp.on \in Seq(Requests) /\ Distinct(bp.on)
         /\ bd.on \in Seq(Requests) /\ Distinct(bd.on)
         /\ OnBoard(ToSet(bp.on), ToSet(bd.on))
<1> DEFINE P == ToSet(bp.on)
           D == ToSet(bd.on)
<1>1. LlmTypes /\ PagesAccounted
  BY DEF LlmInv, PagesSound
<1>2. /\ Prefills \in SUBSET Requests /\ Decodes \in SUBSET Requests
      /\ Prefills \cap Decodes = {} /\ \A r \in Prefills : allocation[r] = None
  BY ReadBoarding
<1>3. PrefillsOn(bp, Prefills)
  BY <1>1, <1>2, PrefillsBoarded
<1>4. /\ bp.on \in Seq(Requests) /\ bp.free \in Nat /\ Distinct(bp.on) /\ P \subseteq Prefills
      /\ bp.free + SumFunctionOnSet(HeldWith(P, {}), Requests) = PageCount
  BY <1>3 DEF PrefillsOn
<1>5. DecodesOn(bd, Decodes, P)
  <2>1. Decodes \cap P = {}
    BY <1>2, <1>4
  <2> HIDE DEF P
  <2>2. QED BY <1>1, <1>2, <1>4, <2>1, DecodesBoarded
<1>6. /\ bd.on \in Seq(Requests) /\ bd.free \in Nat /\ Distinct(bd.on) /\ D \subseteq Decodes
      /\ \A r \in D : allocation[r] # None
      /\ bd.free + SumFunctionOnSet(HeldWith(P, D), Requests) = PageCount
  BY <1>5 DEF DecodesOn
<1>7. HeldWith(P, D) \in [Requests -> Nat]
  BY <1>1, <1>6, HeldWithNat
<1>8. allocation' = [r \in Requests |-> IF r \in P THEN PagesFor(tokens[r])
                                        ELSE IF r \in D THEN Max({allocation[r], DecodePages(r)})
                                        ELSE allocation[r]]
  BY DEF Allocated
<1>9. \A r \in P \cup D : r \in Requests /\ allocation'[r] = HeldWith(P, D)[r]
  BY <1>2, <1>4, <1>6, <1>8 DEF HeldWith
<1>10. Held' = HeldWith(P, D)
  <2>1. Held' = [r \in Requests |-> IF allocation'[r] = None THEN 0 ELSE allocation'[r]]
    BY DEF Held
  <2>2. \A r \in Requests : (IF allocation'[r] = None THEN 0 ELSE allocation'[r]) = HeldWith(P, D)[r]
    <3> SUFFICES ASSUME NEW r \in Requests
                 PROVE  (IF allocation'[r] = None THEN 0 ELSE allocation'[r]) = HeldWith(P, D)[r]
      OBVIOUS
    <3>1. CASE r \in P \cup D
      <4>1. allocation'[r] = HeldWith(P, D)[r] /\ HeldWith(P, D)[r] \in Nat
        BY <1>7, <1>9, <3>1
      <4>2. allocation'[r] # None
        BY <4>1 DEF None
      <4>3. QED BY <4>1, <4>2
    <3>2. CASE r \notin P \cup D
      <4>1. allocation'[r] = allocation[r]
        BY <1>8, <3>2
      <4>2. HeldWith(P, D)[r] = IF allocation[r] = None THEN 0 ELSE allocation[r]
        BY <3>2 DEF HeldWith, Held
      <4>3. QED BY <4>1, <4>2
    <3>3. QED BY <3>1, <3>2
  <2> DEFINE h == HeldWith(P, D)
  <2>3. h = [r \in Requests |-> h[r]]
    BY DEF HeldWith
  <2> HIDE DEF h, P, D
  <2>4. \A r \in Requests : (IF allocation'[r] = None THEN 0 ELSE allocation'[r]) = h[r]
    BY <2>2 DEF h
  <2>5. Held' = h
    BY <2>1, <2>3, <2>4
  <2>6. QED BY <2>5 DEF h
<1> HIDE DEF P, D
<1>11. PagesAccounted'
  BY <1>6, <1>10 DEF PagesAccounted
<1>12. \A r \in P : allocation'[r] = PagesFor(tokens[r])
  BY <1>2, <1>4, <1>8
<1>13. \A r \in D : allocation'[r] >= DecodePages(r)
  <2> SUFFICES ASSUME NEW r \in D PROVE allocation'[r] >= DecodePages(r)
    OBVIOUS
  <2>1. r \in Requests /\ r \notin P /\ allocation[r] # None
    BY <1>2, <1>4, <1>6
  <2>2. allocation'[r] = Max({allocation[r], DecodePages(r)})
    BY <1>8, <2>1
  <2>3. allocation[r] \in Int
    BY <1>1, <2>1 DEF LlmTypes, None
  <2>4. DecodePages(r) \in Nat
    <3>1. tokens[r] + 1 \in Nat
      BY <1>1, <2>1 DEF LlmTypes
    <3>2. QED BY <3>1, PagesForNat DEF DecodePages
  <2>5. Max({allocation[r], DecodePages(r)})
           = IF allocation[r] >= DecodePages(r) THEN allocation[r] ELSE DecodePages(r)
    BY <2>3, <2>4, MaxOfTwo
  <2>6. QED BY <2>2, <2>3, <2>4, <2>5
<1>14. \A r \in Requests \ (P \cup D) : allocation'[r] = allocation[r]
  BY <1>8
<1>15. allocation' \in [Requests -> Nat \cup {None}]
  <2>1. \A r \in Requests : allocation'[r] \in Nat \cup {None}
    <3> SUFFICES ASSUME NEW r \in Requests PROVE allocation'[r] \in Nat \cup {None}
      OBVIOUS
    <3>1. CASE r \in P \cup D
      BY <1>7, <1>9, <3>1
    <3>2. CASE r \notin P \cup D
      BY <1>1, <1>14, <3>2 DEF LlmTypes
    <3>3. QED BY <3>1, <3>2
  <2>2. allocation' = [r \in Requests |-> allocation'[r]]
    BY <1>8
  <2>3. QED BY <2>1, <2>2
<1>16. QED BY <1>4, <1>6, <1>11, <1>12, <1>13, <1>14, <1>15 DEF OnBoard, P, D

----------------------------------------------------------------------------
(***************************************************************************)
(* Every step keeps the invariant.                                         *)
(***************************************************************************)

\* The service starts with nobody anywhere and every page in the pool.
LEMMA InitKeeps == Init => LlmInv
<1> SUFFICES ASSUME Init PROVE LlmInv
  OBVIOUS
<1> USE DEF Init
<1>1. LlmTypes
  <2>1. PageCount \in Nat /\ 1 .. MaxPrompt \subseteq Nat
    BY LlmAssumption
  <2>2. << >> \in Seq(Requests \cup {"strobe"})
    OBVIOUS
  <2>3. tokens \in [Requests -> Nat]
    BY <2>1
  <2>4. QED BY <2>1, <2>2, <2>3 DEF LlmTypes
<1>2. PartsSound
  BY DEF PartsSound
<1>3. PlacesSound
  BY DEF PlacesSound, FedOnce, FlownOnce, InOnePlace, Asks, Fed, Boarding, Flown
<1>4. FlightsSound
  BY DEF FlightsSound
<1>5. AllocationsSound
  BY DEF AllocationsSound, Fed
<1>6. PagesSound
  <2>1. Held \in [Requests -> Nat] /\ \A r \in Requests : Held[r] = 0
    BY DEF Held
  <2>2. SumFunctionOnSet(Held, Requests) = 0
    <3> DEFINE h == Held
    <3>1. h \in [Requests -> Nat] /\ \A r \in Requests : h[r] = 0
      BY <2>1
    <3> HIDE DEF h
    <3>2. IsFiniteSet(Requests)
      BY LlmAssumption
    <3>3. SumFunctionOnSet(h, Requests) = 0
      BY <3>1, <3>2, SumOfNothing
    <3>4. QED BY <3>3 DEF h
  <2>3. QED BY <2>2, LlmAssumption DEF PagesSound, PagesAccounted, CommittedCacheState
<1>7. QED BY <1>1, <1>2, <1>3, <1>4, <1>5, <1>6 DEF LlmInv

\* The parts of the invariant that a step leaves alone.
LEMMA SameFlights ==
  ASSUME FlightsSound, FlownOnce, UNCHANGED flights
  PROVE  FlightsSound' /\ FlownOnce' /\ \A r \in Requests : Flown(r)' <=> Flown(r)
BY DEF FlightsSound, FlownOnce, Flown

\* A step that leaves the pool, the lengths and the flights alone.
LEMMA SamePages ==
  ASSUME PagesSound, UNCHANGED <<free, allocation, tokens, flights>>
  PROVE  PagesSound'
BY DEF PagesSound, PagesAccounted, CommittedCacheState, Held

\* A step that moves nobody.
LEMMA SamePlaces ==
  ASSUME PlacesSound, UNCHANGED <<infeed, pending_prefills, pending_decodes, flights>>,
         \A r \in Requests : Asks(r)' <=> Asks(r)
  PROVE  PlacesSound'
<1>1. \A r \in Requests : (Fed(r)' <=> Fed(r)) /\ (Boarding(r)' <=> Boarding(r)) /\ (Flown(r)' <=> Flown(r))
  BY DEF Fed, Boarding, Flown
<1>2. \A r \in Requests : InOnePlace(r)'
  BY <1>1 DEF PlacesSound, InOnePlace
<1>3. FedOnce' /\ FlownOnce' /\ (pending_prefills \cap pending_decodes = {})'
  BY DEF PlacesSound, FedOnce, FlownOnce
<1>4. QED BY <1>2, <1>3 DEF PlacesSound

\* Nothing that the invariant is about changes.
LEMMA QuietKeeps ==
  ASSUME LlmInv,
         UNCHANGED <<client, stream, parts, steps, tokens, generator, phase, done, logits,
                     allocation, free, infeed, pending_prefills, pending_decodes, strobes, flights>>
  PROVE  LlmInv'
<1>1. LlmTypes' /\ PartsSound' /\ FlightsSound'
  BY DEF LlmInv, LlmTypes, PartsSound, FlightsSound
<1>2. PlacesSound'
  BY SamePlaces DEF LlmInv, Asks
<1>3. AllocationsSound'
  BY DEF LlmInv, AllocationsSound, Fed
<1>4. PagesSound'
  BY SamePages DEF LlmInv
<1>5. QED BY <1>1, <1>2, <1>3, <1>4 DEF LlmInv

\* The client's coroutine.
LEMMA ClientKeeps ==
  ASSUME LlmInv, ClientStarts \/ ClientRejects \/ ClientEnds
  PROVE  LlmInv'
<1>1. /\ client' \in {"running", "over"}
      /\ UNCHANGED <<stream, parts, steps, phase, tokens, done, logits, allocation, free, infeed,
                     pending_prefills, pending_decodes, strobes, flights>>
  BY DEF ClientStarts, ClientRejects, ClientEnds, InferenceIdle, request, cache, feed, boarding
<1>2. \/ /\ client' = "running" /\ generator' = [r \in Requests |-> "new"]
         /\ \A r \in Requests : generator[r] = "none"
      \/ /\ client' = "over" /\ generator' = generator
         /\ \A r \in Requests : generator[r] \notin {"new", "waiting"}
  <2>1. CASE ClientStarts
    BY <2>1 DEF ClientStarts, LlmInv, PartsSound
  <2>2. CASE ClientRejects
    BY <2>2 DEF ClientRejects, LlmInv, PartsSound
  <2>3. CASE ClientEnds
    BY <2>3 DEF ClientEnds, Gathered
  <2>4. QED BY <2>1, <2>2, <2>3
<1>3. /\ generator' \in [Requests -> {"none", "new", "waiting", "finished", "failed"}]
      /\ \A r \in Requests : /\ generator'[r] \in {"none", "new"} => generator[r] \in {"none", "new"}
                             /\ \/ generator'[r] = generator[r]
                                \/ generator'[r] = "new" /\ generator[r] = "none"
  <2>1. generator \in [Requests -> {"none", "new", "waiting", "finished", "failed"}]
    BY DEF LlmInv, LlmTypes
  <2>2. CASE /\ generator' = [r \in Requests |-> "new"]
             /\ \A r \in Requests : generator[r] = "none"
    BY <2>2
  <2>3. CASE generator' = generator
    BY <2>1, <2>3
  <2>4. QED BY <1>2, <2>2, <2>3
<1>4. LlmTypes'
  BY <1>1, <1>3 DEF LlmInv, LlmTypes
<1>5. PartsSound'
  BY <1>1, <1>2, <1>3 DEF LlmInv, PartsSound
<1>6. PlacesSound'
  <2>1. \A r \in Requests : Asks(r)' <=> Asks(r)
    BY <1>1, <1>3 DEF Asks
  <2>2. QED BY <1>1, <2>1, SamePlaces DEF LlmInv
<1>7. FlightsSound'
  BY <1>1 DEF LlmInv, FlightsSound
<1>8. AllocationsSound'
  BY <1>1, <1>3 DEF LlmInv, AllocationsSound, Fed
<1>9. PagesSound'
  BY <1>1, SamePages DEF LlmInv
<1>10. QED BY <1>4, <1>5, <1>6, <1>7, <1>8, <1>9 DEF LlmInv

\* A generator feeds its request to the batcher.
LEMMA GenerateStartKeeps ==
  ASSUME LlmInv, NEW r \in Requests, GenerateStart(r)
  PROVE  LlmInv'
<1>1. /\ generator[r] = "new" /\ generator' = [generator EXCEPT ![r] = "waiting"]
      /\ infeed' = Append(infeed, r)
      /\ UNCHANGED <<client, stream, parts, steps, phase, tokens, done, logits, allocation, free,
                     pending_prefills, pending_decodes, strobes, flights>>
  BY DEF GenerateStart, web, request, cache, boarding
<1>2. LlmTypes /\ PartsSound /\ PlacesSound /\ FlightsSound /\ AllocationsSound /\ PagesSound
  BY DEF LlmInv
<1>3. /\ allocation[r] = None /\ ~done[r] /\ parts[r] = 0 /\ steps[r] = 0
      /\ client \notin {"new", "over"}
  BY <1>1, <1>2 DEF AllocationsSound, PartsSound
<1>4. ~Fed(r) /\ ~Boarding(r) /\ ~Flown(r)
  BY <1>1, <1>2 DEF PlacesSound, InOnePlace, Asks
<1>5. /\ infeed' \in Seq(Requests \cup {"strobe"}) /\ FedOnce'
      /\ \A q \in Requests : Fed(q)' <=> Fed(q) \/ q = r
  BY <1>1, <1>2, <1>4, FeedOne DEF PlacesSound
<1>6. /\ generator' \in [Requests -> {"none", "new", "waiting", "finished", "failed"}]
      /\ generator'[r] = "waiting" /\ \A q \in Requests \ {r} : generator'[q] = generator[q]
  BY <1>1, <1>2 DEF LlmTypes
<1>7. LlmTypes'
  BY <1>1, <1>2, <1>5, <1>6 DEF LlmTypes
<1>8. PartsSound'
  BY <1>1, <1>2, <1>3, <1>6 DEF PartsSound
<1>9. FlightsSound' /\ FlownOnce' /\ \A q \in Requests : Flown(q)' <=> Flown(q)
  BY <1>1, <1>2, SameFlights DEF PlacesSound
<1>10. PlacesSound'
  <2>1. \A q \in Requests : Boarding(q)' <=> Boarding(q)
    BY <1>1 DEF Boarding
  <2>2. \A q \in Requests : Asks(q)' <=> Asks(q) \/ q = r
    BY <1>1, <1>3, <1>6 DEF Asks
  <2>3. \A q \in Requests : InOnePlace(q)'
    BY <1>2, <1>4, <1>5, <1>9, <2>1, <2>2 DEF PlacesSound, InOnePlace
  <2>4. (pending_prefills \cap pending_decodes = {})'
    BY <1>1, <1>2 DEF PlacesSound
  <2>5. QED BY <1>5, <1>9, <2>3, <2>4 DEF PlacesSound
<1>11. AllocationsSound'
  BY <1>1, <1>2, <1>3, <1>5, <1>6 DEF AllocationsSound
<1>12. PagesSound'
  BY <1>1, <1>2, SamePages
<1>13. QED BY <1>7, <1>8, <1>9, <1>10, <1>11, <1>12 DEF LlmInv

\* A generator whose request is done, and so in none of the places, asks for
\* another token.
LEMMA GenerateNextKeeps ==
  ASSUME LlmInv, NEW r \in Requests, GenerateNext(r)
  PROVE  LlmInv'
<1>1. /\ generator[r] = "waiting" /\ done[r]
      /\ parts' = [parts EXCEPT ![r] = IF stream THEN @ + 1 ELSE @]
      /\ steps' = [steps EXCEPT ![r] = @ + 1]
      /\ phase' = [phase EXCEPT ![r] = "decode"]
      /\ done' = [done EXCEPT ![r] = FALSE]
      /\ logits' = [logits EXCEPT ![r] = FALSE]
      /\ tokens' = [tokens EXCEPT ![r] = @ + 1]
      /\ infeed' = Append(infeed, r)
      /\ UNCHANGED <<client, stream, generator, allocation, free,
                     pending_prefills, pending_decodes, strobes, flights>>
  BY DEF GenerateNext, Awake, AppendToken, Reset, web, cache, boarding
<1>2. LlmTypes /\ PartsSound /\ PlacesSound /\ FlightsSound /\ AllocationsSound /\ PagesSound
  BY DEF LlmInv
<1>3. ~Fed(r) /\ ~Boarding(r) /\ ~Flown(r)
  BY <1>1, <1>2 DEF PlacesSound, InOnePlace, Asks
<1>4. /\ infeed' \in Seq(Requests \cup {"strobe"}) /\ FedOnce'
      /\ \A q \in Requests : Fed(q)' <=> Fed(q) \/ q = r
  BY <1>1, <1>2, <1>3, FeedOne DEF PlacesSound
<1>5. LlmTypes'
  <2>1. /\ parts \in [Requests -> Nat] /\ steps \in [Requests -> Nat] /\ tokens \in [Requests -> Nat]
        /\ phase \in [Requests -> {"prefill", "decode"}]
        /\ done \in [Requests -> BOOLEAN] /\ logits \in [Requests -> BOOLEAN]
    BY <1>2 DEF LlmTypes
  <2>2. parts[r] + 1 \in Nat /\ steps[r] + 1 \in Nat /\ tokens[r] + 1 \in Nat
    BY <2>1
  <2>3. /\ parts' \in [Requests -> Nat] /\ steps' \in [Requests -> Nat] /\ tokens' \in [Requests -> Nat]
        /\ phase' \in [Requests -> {"prefill", "decode"}]
        /\ done' \in [Requests -> BOOLEAN] /\ logits' \in [Requests -> BOOLEAN]
    BY <1>1, <2>1, <2>2
  <2>4. QED BY <1>1, <1>2, <1>4, <2>3 DEF LlmTypes
<1>6. PartsSound'
  <2>1. /\ parts'[r] = IF stream THEN parts[r] + 1 ELSE parts[r]
        /\ steps'[r] = steps[r] + 1
        /\ \A q \in Requests \ {r} : parts'[q] = parts[q] /\ steps'[q] = steps[q]
    BY <1>1, <1>2 DEF LlmTypes
  <2>2. QED BY <1>1, <1>2, <2>1 DEF PartsSound
<1>7. FlightsSound' /\ FlownOnce' /\ \A q \in Requests : Flown(q)' <=> Flown(q)
  BY <1>1, <1>2, SameFlights DEF PlacesSound
<1>8. /\ ~done'[r] /\ phase'[r] = "decode"
      /\ \A q \in Requests \ {r} : done'[q] = done[q] /\ phase'[q] = phase[q] /\ tokens'[q] = tokens[q]
  BY <1>1, <1>2 DEF LlmTypes
<1>9. PlacesSound'
  <2>1. \A q \in Requests : Boarding(q)' <=> Boarding(q)
    BY <1>1 DEF Boarding
  <2>2. \A q \in Requests : Asks(q)' <=> Asks(q) \/ q = r
    BY <1>1, <1>8 DEF Asks
  <2>3. \A q \in Requests : InOnePlace(q)'
    BY <1>2, <1>3, <1>4, <1>7, <2>1, <2>2 DEF PlacesSound, InOnePlace
  <2>4. (pending_prefills \cap pending_decodes = {})'
    BY <1>1, <1>2 DEF PlacesSound
  <2>5. QED BY <1>4, <1>7, <2>3, <2>4 DEF PlacesSound
<1>10. AllocationsSound'
  BY <1>1, <1>2, <1>4, <1>8 DEF AllocationsSound
<1>11. PagesSound'
  <2>1. PagesAccounted'
    BY <1>1, <1>2 DEF PagesSound, PagesAccounted, Held
  <2>2. ASSUME NEW f \in flights, NEW q \in Aboard(f)
        PROVE  allocation[q] >= PagesFor(tokens'[q] + (IF f.phase = "decode" THEN 1 ELSE 0))
    <3>1. q \in Requests
      BY <1>2, <2>2, AboardOf
    <3>2. q # r
      BY <1>3, <2>2 DEF Flown
    <3>3. tokens'[q] = tokens[q]
      BY <1>8, <3>1, <3>2
    <3>4. QED BY <1>2, <2>2, <3>3 DEF PagesSound, CommittedCacheState
  <2>3. QED BY <1>1, <2>1, <2>2 DEF PagesSound, CommittedCacheState
<1>12. QED BY <1>5, <1>6, <1>7, <1>9, <1>10, <1>11 DEF LlmInv

\* A generator that is over frees its pages.
LEMMA GenerateOverKeeps ==
  ASSUME LlmInv, NEW r \in Requests, GenerateEnd(r) \/ GenerateRaises(r)
  PROVE  LlmInv'
<1>1. /\ generator[r] = "waiting" /\ done[r] /\ FreeCachePages({r})
      /\ \/ /\ parts' = [parts EXCEPT ![r] = IF stream THEN @ + 1 ELSE @]
            /\ generator' = [generator EXCEPT ![r] = "finished"]
         \/ parts' = parts /\ generator' = [generator EXCEPT ![r] = "failed"]
      /\ UNCHANGED <<client, stream, steps, phase, tokens, done, logits, infeed,
                     pending_prefills, pending_decodes, strobes, flights>>
  BY DEF GenerateEnd, GenerateRaises, Awake, AppendToken, web, request, feed, boarding
<1>2. LlmTypes /\ PartsSound /\ PlacesSound /\ FlightsSound /\ AllocationsSound /\ PagesSound
  BY DEF LlmInv
<1>3. ~Fed(r) /\ ~Boarding(r) /\ ~Flown(r)
  BY <1>1, <1>2 DEF PlacesSound, InOnePlace, Asks
<1>4. /\ free' \in Nat /\ allocation' \in [Requests -> Nat \cup {None}] /\ PagesAccounted'
      /\ \A q \in Requests : allocation'[q] = IF q = r THEN None ELSE allocation[q]
  <2>1. {r} \in SUBSET Requests
    OBVIOUS
  <2>2. PagesAccounted
    BY <1>2 DEF PagesSound
  <2>3. /\ free' \in Nat /\ allocation' \in [Requests -> Nat \cup {None}] /\ PagesAccounted'
        /\ \A q \in Requests : allocation'[q] = IF q \in {r} THEN None ELSE allocation[q]
    BY <1>1, <1>2, <2>1, <2>2, FreeingKeeps, Zenon
  <2>4. QED BY <2>3
<1>5. /\ generator' \in [Requests -> {"none", "new", "waiting", "finished", "failed"}]
      /\ parts' \in [Requests -> Nat]
      /\ \/ parts'[r] = (IF stream THEN parts[r] + 1 ELSE parts[r]) /\ generator'[r] = "finished"
         \/ generator'[r] = "failed"
      /\ \A q \in Requests \ {r} : generator'[q] = generator[q] /\ parts'[q] = parts[q]
  <2>1. /\ parts \in [Requests -> Nat]
        /\ generator \in [Requests -> {"none", "new", "waiting", "finished", "failed"}]
    BY <1>2 DEF LlmTypes
  <2>2. parts[r] + 1 \in Nat
    BY <2>1
  <2>3. QED BY <1>1, <2>1, <2>2
<1>6. LlmTypes'
  BY <1>1, <1>2, <1>4, <1>5 DEF LlmTypes
<1>7. PartsSound'
  BY <1>1, <1>2, <1>5 DEF PartsSound
<1>8. PlacesSound'
  <2>1. \A q \in Requests : Asks(q)' <=> Asks(q)
    BY <1>1, <1>5 DEF Asks
  <2>2. QED BY <1>1, <1>2, <2>1, SamePlaces
<1>9. FlightsSound'
  BY <1>1, <1>2 DEF FlightsSound
<1>10. AllocationsSound'
  <2>1. pending_prefills \subseteq Requests
    BY <1>2 DEF LlmTypes
  <2>2. QED BY <1>1, <1>2, <1>4, <1>5, <2>1 DEF AllocationsSound, Fed
<1>11. PagesSound'
  <2>1. ASSUME NEW f \in flights, NEW q \in Aboard(f) PROVE allocation'[q] = allocation[q]
    <3>1. q \in Requests
      BY <1>2, <2>1, AboardOf
    <3>2. q # r
      BY <1>3, <2>1 DEF Flown
    <3>3. QED BY <1>4, <3>1, <3>2
  <2>2. CommittedCacheState'
    BY <1>1, <1>2, <2>1 DEF PagesSound, CommittedCacheState
  <2>3. QED BY <1>4, <2>2 DEF PagesSound
<1>12. QED BY <1>6, <1>7, <1>8, <1>9, <1>10, <1>11 DEF LlmInv

\* The strober feeds a strobe, or nothing.
LEMMA StrobeKeeps ==
  ASSUME LlmInv, Strobe
  PROVE  LlmInv'
<1>1. /\ infeed' = infeed \/ infeed' = Append(infeed, "strobe")
      /\ UNCHANGED <<client, stream, parts, steps, tokens, generator, phase, done, logits,
                     allocation, free, pending_prefills, pending_decodes, strobes, flights>>
  BY DEF Strobe, web, request, cache, boarding
<1>2. CASE infeed' = infeed
  BY <1>1, <1>2, QuietKeeps
<1>3. CASE infeed' = Append(infeed, "strobe")
  <2>1. LlmTypes /\ PartsSound /\ PlacesSound /\ FlightsSound /\ AllocationsSound /\ PagesSound
    BY DEF LlmInv
  <2>2. "strobe" \notin Requests
    BY LlmAssumption
  <2>3. /\ infeed' \in Seq(Requests \cup {"strobe"}) /\ FedOnce'
        /\ \A q \in Requests : Fed(q)' <=> Fed(q)
    <3>1. /\ infeed' \in Seq(Requests \cup {"strobe"}) /\ FedOnce'
          /\ \A q \in Requests : Fed(q)' <=> Fed(q) \/ q = "strobe"
      BY <1>3, <2>1, <2>2, FeedOne DEF PlacesSound
    <3>2. QED BY <2>2, <3>1
  <2>4. LlmTypes'
    BY <1>1, <2>1, <2>3 DEF LlmTypes
  <2>5. PartsSound'
    BY <1>1, <2>1 DEF PartsSound
  <2>6. FlightsSound' /\ FlownOnce' /\ \A q \in Requests : Flown(q)' <=> Flown(q)
    BY <1>1, <2>1, SameFlights DEF PlacesSound
  <2>7. PlacesSound'
    <3>1. \A q \in Requests : (Boarding(q)' <=> Boarding(q)) /\ (Asks(q)' <=> Asks(q))
      BY <1>1 DEF Boarding, Asks
    <3>2. \A q \in Requests : InOnePlace(q)'
      BY <2>1, <2>3, <2>6, <3>1 DEF PlacesSound, InOnePlace
    <3>3. (pending_prefills \cap pending_decodes = {})'
      BY <1>1, <2>1 DEF PlacesSound
    <3>4. QED BY <2>3, <2>6, <3>2, <3>3 DEF PlacesSound
  <2>8. AllocationsSound'
    BY <1>1, <2>1, <2>3 DEF AllocationsSound
  <2>9. PagesSound'
    BY <1>1, <2>1, SamePages
  <2>10. QED BY <2>4, <2>5, <2>6, <2>7, <2>8, <2>9 DEF LlmInv
<1>4. QED BY <1>1, <1>2, <1>3

\* The strobes are counted up to 2.
LEMMA StrobesNat == strobes \in Nat => Strobes \in Nat
<1> SUFFICES ASSUME strobes \in Nat PROVE Strobes \in Nat
  OBVIOUS
<1>1. Min({2, strobes + 1}) \in Nat
  <2> DEFINE M == {2, strobes + 1}
  <2>1. \E x \in M : \A y \in M : x <= y
    OBVIOUS
  <2>2. Min(M) \in M
    BY <2>1 DEF Min
  <2>3. M \subseteq Nat
    OBVIOUS
  <2> HIDE DEF M
  <2>4. Min(M) \in Nat
    BY <2>2, <2>3
  <2>5. QED BY <2>4 DEF M
<1>2. QED BY <1>1 DEF Strobes

\* The batcher reads an item and goes on waiting.
LEMMA BatcherWaitsKeeps ==
  ASSUME LlmInv, BatcherWaits
  PROVE  LlmInv'
<1>1. /\ infeed # << >> /\ infeed' = Tail(infeed)
      /\ pending_prefills' = Prefills /\ pending_decodes' = Decodes /\ strobes' = Strobes
      /\ UNCHANGED <<client, stream, parts, steps, tokens, generator, phase, done, logits,
                     allocation, free, flights>>
  BY DEF BatcherWaits, Reading, web, request, cache
<1>2. LlmTypes /\ PartsSound /\ PlacesSound /\ FlightsSound /\ AllocationsSound /\ PagesSound
  BY DEF LlmInv
<1>3. /\ infeed' \in Seq(Requests \cup {"strobe"}) /\ FedOnce'
      /\ Item \in Requests => Fed(Item)
      /\ \A q \in Requests : Fed(q)' <=> Fed(q) /\ q # Item
  BY <1>1, <1>2, ReadOne DEF PlacesSound
<1>4. /\ Prefills \in SUBSET Requests /\ Decodes \in SUBSET Requests
      /\ Prefills \cap Decodes = {}
      /\ \A q \in Prefills : allocation[q] = None
      /\ \A q \in Requests : q \in Prefills \cup Decodes <=> Boarding(q) \/ q = Item
  BY <1>1, ReadBoarding
<1>5. LlmTypes'
  <2>1. strobes' \in Nat
    BY <1>1, <1>2, StrobesNat DEF LlmTypes
  <2>2. QED BY <1>1, <1>2, <1>3, <1>4, <2>1 DEF LlmTypes
<1>6. PartsSound'
  BY <1>1, <1>2 DEF PartsSound
<1>7. FlightsSound' /\ FlownOnce' /\ \A q \in Requests : Flown(q)' <=> Flown(q)
  BY <1>1, <1>2, SameFlights DEF PlacesSound
<1>8. PlacesSound'
  <2>1. \A q \in Requests : Boarding(q)' <=> Boarding(q) \/ q = Item
    BY <1>1, <1>4 DEF Boarding
  <2>2. \A q \in Requests : Asks(q)' <=> Asks(q)
    BY <1>1 DEF Asks
  <2>3. \A q \in Requests : InOnePlace(q)'
    BY <1>2, <1>3, <1>7, <2>1, <2>2 DEF PlacesSound, InOnePlace
  <2>4. (pending_prefills \cap pending_decodes = {})'
    BY <1>1, <1>4
  <2>5. QED BY <1>3, <1>7, <2>3, <2>4 DEF PlacesSound
<1>9. AllocationsSound'
  BY <1>1, <1>2, <1>3, <1>4 DEF AllocationsSound
<1>10. PagesSound'
  BY <1>1, <1>2, SamePages
<1>11. QED BY <1>5, <1>6, <1>7, <1>8, <1>9, <1>10 DEF LlmInv

\* A flight that is launched.
LEMMA LaunchOf ==
  ASSUME NEW reqs \in Seq(Requests), Distinct(reqs), NEW ph \in {"prefill", "decode"},
         NEW f \in Launch(ph, reqs)
  PROVE  /\ f \in Flight /\ f.phase = ph /\ f.reqs = reqs /\ f.returned = 0
         /\ f.returned < Len(f.reqs) /\ Distinct(f.reqs)
         /\ Aboard(f) = ToSet(reqs)
<1>1. /\ reqs # << >>
      /\ f = [phase |-> ph, reqs |-> reqs, stage |-> "launched", returned |-> 0]
  BY DEF Launch
<1>2. Len(reqs) \in Nat /\ Len(reqs) > 0 /\ DOMAIN reqs = 1 .. Len(reqs)
  BY <1>1
<1>3. f.phase = ph /\ f.reqs = reqs /\ f.returned = 0 /\ f.stage = "launched"
  BY <1>1
<1>4. f \in Flight
  BY <1>1 DEF Flight, Stages
<1>5. Aboard(f) = ToSet(reqs)
  <2>1. (f.returned + 1) .. Len(f.reqs) = DOMAIN reqs
    BY <1>2, <1>3
  <2>2. QED BY <1>3, <2>1 DEF Aboard, ToSet
<1>6. QED BY <1>2, <1>3, <1>4, <1>5

\* Whose flight it is.
LEMMA LaunchedIn ==
  ASSUME NEW reqs \in Seq(Requests), Distinct(reqs), NEW ph \in {"prefill", "decode"},
         NEW r \in ToSet(reqs)
  PROVE  \E f \in Launch(ph, reqs) : r \in Aboard(f)
<1> DEFINE f == [phase |-> ph, reqs |-> reqs, stage |-> "launched", returned |-> 0]
<1>1. reqs # << >>
  BY DEF ToSet
<1>2. f \in Launch(ph, reqs)
  BY <1>1 DEF Launch
<1>3. QED BY <1>2, LaunchOf

\* Flights that are launched with P and D on board.
Launches(L, P, D) ==
    /\ \A f \in L : /\ f \in Flight /\ f.returned = 0 /\ f.returned < Len(f.reqs) /\ Distinct(f.reqs)
                    /\ \/ f.phase = "prefill" /\ Aboard(f) \subseteq P
                       \/ f.phase = "decode" /\ Aboard(f) \subseteq D
    /\ \A f, g \in L : Aboard(f) \cap Aboard(g) # {} => f = g

\* Flights that leave with their pages, and with nobody who was flying.
LEMMA LaunchesKeep ==
  ASSUME LlmInv, infeed # << >>, NEW P, NEW D, OnBoard(P, D),
         NEW L, Launches(L, P, D), flights' = flights \cup L, UNCHANGED tokens
  PROVE  flights' \subseteq Flight /\ FlightsSound' /\ FlownOnce' /\ PagesSound'
<1>1. LlmTypes /\ PlacesSound /\ FlightsSound /\ PagesSound
  BY DEF LlmInv
<1>2. /\ P \subseteq Prefills /\ D \subseteq Decodes /\ PagesAccounted'
      /\ \A r \in P : allocation'[r] = PagesFor(tokens[r])
      /\ \A r \in D : allocation'[r] >= DecodePages(r)
      /\ \A r \in Requests \ (P \cup D) : allocation'[r] = allocation[r]
  BY DEF OnBoard
<1>3. /\ Prefills \in SUBSET Requests /\ Decodes \in SUBSET Requests
      /\ \A r \in Requests : r \in Prefills \cup Decodes <=> Boarding(r) \/ r = Item
      /\ Item \in Requests => Fed(Item)
  BY ReadBoarding
<1>4. \A f \in flights : Aboard(f) \subseteq Requests /\ Aboard(f) \cap (P \cup D) = {}
  <2> SUFFICES ASSUME NEW f \in flights, NEW r \in Aboard(f)
               PROVE  r \in Requests /\ r \notin P \cup D
    OBVIOUS
  <2>1. r \in Requests
    BY <1>1, AboardOf
  <2>2. Flown(r)
    BY DEF Flown
  <2>3. ~Boarding(r) /\ ~Fed(r)
    BY <1>1, <2>1, <2>2 DEF PlacesSound, InOnePlace
  <2>4. QED BY <1>2, <1>3, <2>1, <2>3
<1>5. flights' \subseteq Flight
  BY <1>1 DEF LlmTypes, Launches
<1>6. FlightsSound'
  <2>1. \A f \in flights' : f.returned < Len(f.reqs)
    BY <1>1 DEF FlightsSound, Launches
  <2>2. \A f \in flights' : f.stage # "results" => f.returned = 0
    BY <1>1 DEF FlightsSound, Launches
  <2>3. \A f \in flights' : \A i, j \in DOMAIN f.reqs : f.reqs[i] = f.reqs[j] => i = j
    BY <1>1 DEF FlightsSound, Launches, Distinct
  <2>4. QED BY <2>1, <2>2, <2>3 DEF FlightsSound
<1>7. FlownOnce'
  <2>1. ASSUME NEW f \in flights, NEW g \in L PROVE Aboard(f) \cap Aboard(g) = {}
    BY <1>4 DEF Launches
  <2>2. QED BY <1>1, <2>1 DEF PlacesSound, FlownOnce, Launches
<1>8. ASSUME NEW f \in flights', NEW r \in Aboard(f)
      PROVE  allocation'[r] >= PagesFor(tokens[r] + (IF f.phase = "decode" THEN 1 ELSE 0))
  <2>1. CASE f \in flights
    <3>1. allocation'[r] = allocation[r]
      BY <1>2, <1>4, <2>1
    <3>2. QED BY <1>1, <2>1, <3>1 DEF PagesSound, CommittedCacheState
  <2>2. CASE f \in L
    <3>1. CASE f.phase = "prefill" /\ r \in P
      <4>1. tokens[r] \in Nat
        BY <1>1, <1>2, <1>3, <3>1 DEF LlmTypes
      <4>2. tokens[r] + (IF f.phase = "decode" THEN 1 ELSE 0) = tokens[r]
        BY <3>1, <4>1
      <4>3. allocation'[r] = PagesFor(tokens[r]) /\ PagesFor(tokens[r]) \in Nat
        BY <1>2, <3>1, <4>1, PagesForNat
      <4>4. allocation'[r] >= PagesFor(tokens[r])
        BY <4>3
      <4>5. QED BY <4>2, <4>4
    <3>2. CASE f.phase = "decode" /\ r \in D
      BY <1>2, <3>2 DEF DecodePages
    <3>3. QED BY <2>2, <3>1, <3>2 DEF Launches
  <2>3. QED BY <2>1, <2>2
<1>9. PagesSound'
  BY <1>2, <1>8 DEF PagesSound, CommittedCacheState
<1>10. QED BY <1>5, <1>6, <1>7, <1>9

\* What is known of a turn in which flights leave.
LEMMA BatcherBoardsKeeps ==
  ASSUME LlmInv, infeed # << >>,
         NEW op \in SetToSeqs(Prefills), NEW od \in SetToSeqs(Decodes), BatcherBoards(op, od)
  PROVE  LlmInv'
<1> DEFINE bp == BoardPrefills(op)
           bd == BoardDecodes(od, bp.free)
           P == ToSet(bp.on)
           D == ToSet(bd.on)
           L == Launch("prefill", bp.on) \cup Launch("decode", bd.on)
<1>1. /\ infeed' = Tail(infeed)
      /\ allocation' = Allocated(bp, bd) /\ free' = bd.free
      /\ flights' = flights \cup L
      /\ pending_prefills' = {} /\ pending_decodes' = Decodes \ D
      /\ done' = [r \in Requests |-> done[r] \/ r \in Prefills \ P]
      /\ strobes' = 0
      /\ UNCHANGED <<client, stream, parts, steps, tokens, generator, phase, logits>>
  BY DEF BatcherBoards, web
<1>2. LlmTypes /\ PartsSound /\ PlacesSound /\ FlightsSound /\ AllocationsSound /\ PagesSound
  BY DEF LlmInv
<1>3. /\ bp.on \in Seq(Requests) /\ Distinct(bp.on)
      /\ bd.on \in Seq(Requests) /\ Distinct(bd.on)
      /\ OnBoard(P, D)
  BY <1>1, BoardingKeeps
<1>4. /\ infeed' \in Seq(Requests \cup {"strobe"}) /\ FedOnce'
      /\ Item \in Requests => Fed(Item)
      /\ \A q \in Requests : Fed(q)' <=> Fed(q) /\ q # Item
  BY <1>1, <1>2, ReadOne DEF PlacesSound
<1>5. /\ Prefills \in SUBSET Requests /\ Decodes \in SUBSET Requests
      /\ Prefills \cap Decodes = {}
      /\ \A q \in Requests : q \in Prefills \cup Decodes <=> Boarding(q) \/ q = Item
  BY ReadBoarding
<1> HIDE DEF bp, bd
<1>6. /\ P \subseteq Prefills /\ D \subseteq Decodes
      /\ free' \in Nat /\ allocation' \in [Requests -> Nat \cup {None}]
      /\ \A q \in Requests \ (P \cup D) : allocation'[q] = allocation[q]
  BY <1>3 DEF OnBoard
<1>7. Launches(L, P, D) /\ \A q \in P \cup D : \E f \in L : q \in Aboard(f)
  <2>1. \A f \in Launch("prefill", bp.on) :
           /\ f \in Flight /\ f.phase = "prefill" /\ f.reqs = bp.on /\ f.returned = 0
           /\ f.returned < Len(f.reqs) /\ Distinct(f.reqs) /\ Aboard(f) = P
    BY <1>3, LaunchOf
  <2>2. \A f \in Launch("decode", bd.on) :
           /\ f \in Flight /\ f.phase = "decode" /\ f.reqs = bd.on /\ f.returned = 0
           /\ f.returned < Len(f.reqs) /\ Distinct(f.reqs) /\ Aboard(f) = D
    BY <1>3, LaunchOf
  <2>3. P \cap D = {}
    BY <1>5, <1>6
  <2>4. \A ph, reqs : \A f, g \in Launch(ph, reqs) : f = g
    BY DEF Launch
  <2>5. \A q \in P \cup D : \E f \in L : q \in Aboard(f)
    BY <1>3, LaunchedIn
  <2> HIDE DEF P, D
  <2>6. \A f, g \in L : Aboard(f) \cap Aboard(g) # {} => f = g
    BY <2>1, <2>2, <2>3, <2>4
  <2>7. \A f \in L : /\ f \in Flight /\ f.returned = 0 /\ f.returned < Len(f.reqs) /\ Distinct(f.reqs)
                     /\ \/ f.phase = "prefill" /\ Aboard(f) \subseteq P
                        \/ f.phase = "decode" /\ Aboard(f) \subseteq D
    BY <2>1, <2>2
  <2>8. QED BY <2>5, <2>6, <2>7 DEF Launches
<1> HIDE DEF P, D, L
<1>8. flights' \subseteq Flight /\ FlightsSound' /\ FlownOnce' /\ PagesSound'
  BY <1>1, <1>3, <1>7, LaunchesKeep
<1>9. \A q \in Requests : Flown(q)' <=> Flown(q) \/ q \in P \cup D
  <2>1. \A f \in L : Aboard(f) \subseteq P \cup D
    BY <1>7 DEF Launches
  <2>2. QED BY <1>1, <1>7, <2>1 DEF Flown
<1>10. LlmTypes'
  BY <1>1, <1>2, <1>4, <1>5, <1>6, <1>8 DEF LlmTypes
<1>11. PartsSound'
  BY <1>1, <1>2 DEF PartsSound
<1>12. PlacesSound'
  <2>1. \A q \in Requests : Boarding(q)' <=> q \in Decodes \ D
    BY <1>1 DEF Boarding
  <2>2. \A q \in Requests : Asks(q)' <=> Asks(q) /\ q \notin Prefills \ P
    BY <1>1 DEF Asks
  <2>3. \A q \in Requests : InOnePlace(q)'
    <3> SUFFICES ASSUME NEW q \in Requests PROVE InOnePlace(q)'
      OBVIOUS
    <3>1. InOnePlace(q)
      BY <1>2 DEF PlacesSound
    <3>2. q \in Prefills \cup Decodes <=> Boarding(q) \/ q = Item
      BY <1>5
    <3>3. (Fed(q)' <=> Fed(q) /\ q # Item) /\ (q = Item => Fed(q))
      BY <1>4
    <3>4. (Flown(q)' <=> Flown(q) \/ q \in P \cup D) /\ (Boarding(q)' <=> q \in Decodes \ D)
      BY <1>9, <2>1
    <3>5. QED BY <1>5, <1>6, <2>2, <3>1, <3>2, <3>3, <3>4 DEF InOnePlace
  <2>4. (pending_prefills \cap pending_decodes = {})'
    BY <1>1
  <2>5. QED BY <1>4, <1>8, <2>3, <2>4 DEF PlacesSound
<1>13. AllocationsSound'
  <2>1. ASSUME NEW q \in Requests, q \in Prefills \cup Decodes PROVE Asks(q)
    BY <1>2, <1>4, <1>5, <2>1 DEF PlacesSound, InOnePlace
  <2>2. ASSUME NEW q \in Requests, generator[q] \in {"none", "new"}
        PROVE  allocation'[q] = allocation[q] /\ done'[q] = done[q]
    <3>1. q \notin Prefills \cup Decodes
      BY <2>1, <2>2 DEF Asks
    <3>2. done'[q] = (done[q] \/ q \in Prefills \ P)
      BY <1>1
    <3>3. done[q] \in BOOLEAN
      BY <1>2 DEF LlmTypes
    <3>4. QED BY <1>6, <3>1, <3>2, <3>3
  <2>3. ASSUME NEW q \in Requests, Fed(q)' PROVE Fed(q) /\ allocation'[q] = allocation[q]
    <3>1. Fed(q) /\ q # Item
      BY <1>4, <2>3
    <3>2. q \notin Prefills \cup Decodes
      BY <1>2, <1>5, <3>1 DEF PlacesSound, InOnePlace
    <3>3. QED BY <1>6, <3>1, <3>2
  <2>4. QED BY <1>1, <1>2, <2>2, <2>3 DEF AllocationsSound
<1>14. QED BY <1>8, <1>10, <1>11, <1>12, <1>13 DEF LlmInv

\* The turn in which it dies: the decode flight does not leave.
LEMMA BatcherDiesKeeps ==
  ASSUME LlmInv, infeed # << >>,
         NEW op \in SetToSeqs(Prefills), NEW od \in SetToSeqs(Decodes), BatcherDies(op, od)
  PROVE  LlmInv'
<1> DEFINE bp == BoardPrefills(op)
           bd == BoardDecodes(od, bp.free)
           P == ToSet(bp.on)
           D == ToSet(bd.on)
           L == Launch("prefill", bp.on)
<1>1. /\ infeed' = Tail(infeed)
      /\ allocation' = Allocated(bp, bd) /\ free' = bd.free
      /\ flights' = flights \cup L
      /\ pending_prefills' = Prefills \ P /\ pending_decodes' = Decodes
      /\ strobes' = 0
      /\ UNCHANGED <<client, stream, parts, steps, tokens, generator, phase, done, logits>>
  BY DEF BatcherDies, web, request
<1>2. LlmTypes /\ PartsSound /\ PlacesSound /\ FlightsSound /\ AllocationsSound /\ PagesSound
  BY DEF LlmInv
<1>3. /\ bp.on \in Seq(Requests) /\ Distinct(bp.on)
      /\ OnBoard(P, D)
  BY <1>1, BoardingKeeps
<1>4. /\ infeed' \in Seq(Requests \cup {"strobe"}) /\ FedOnce'
      /\ Item \in Requests => Fed(Item)
      /\ \A q \in Requests : Fed(q)' <=> Fed(q) /\ q # Item
  BY <1>1, <1>2, ReadOne DEF PlacesSound
<1>5. /\ Prefills \in SUBSET Requests /\ Decodes \in SUBSET Requests
      /\ Prefills \cap Decodes = {} /\ \A q \in Prefills : allocation[q] = None
      /\ \A q \in Requests : q \in Prefills \cup Decodes <=> Boarding(q) \/ q = Item
  BY ReadBoarding
<1> HIDE DEF bp, bd
<1>6. /\ P \subseteq Prefills /\ D \subseteq Decodes
      /\ free' \in Nat /\ allocation' \in [Requests -> Nat \cup {None}]
      /\ \A q \in Requests \ (P \cup D) : allocation'[q] = allocation[q]
  BY <1>3 DEF OnBoard
<1>7. Launches(L, P, D) /\ \A q \in P : \E f \in L : q \in Aboard(f)
  <2>1. \A f \in L :
           /\ f \in Flight /\ f.phase = "prefill" /\ f.reqs = bp.on /\ f.returned = 0
           /\ f.returned < Len(f.reqs) /\ Distinct(f.reqs) /\ Aboard(f) = P
    BY <1>3, LaunchOf
  <2>2. \A f, g \in L : f = g
    BY DEF Launch
  <2>3. \A q \in P : \E f \in L : q \in Aboard(f)
    BY <1>3, LaunchedIn
  <2> HIDE DEF P, D, L
  <2>4. QED BY <2>1, <2>2, <2>3 DEF Launches
<1> HIDE DEF P, D
<1>8. flights' \subseteq Flight /\ FlightsSound' /\ FlownOnce' /\ PagesSound'
  <2> HIDE DEF L
  <2>1. QED BY <1>1, <1>3, <1>7, LaunchesKeep
<1>9. \A q \in Requests : Flown(q)' <=> Flown(q) \/ q \in P
  <2>1. \A f \in L : Aboard(f) \subseteq P
    <3>1. \A f \in L : Aboard(f) = ToSet(bp.on)
      BY <1>3, LaunchOf
    <3>2. QED BY <3>1 DEF P
  <2> HIDE DEF L
  <2>2. QED BY <1>1, <1>7, <2>1 DEF Flown
<1> HIDE DEF L
<1>10. LlmTypes'
  BY <1>1, <1>2, <1>4, <1>5, <1>6, <1>8 DEF LlmTypes
<1>11. PartsSound'
  BY <1>1, <1>2 DEF PartsSound
<1>12. PlacesSound'
  <2>1. \A q \in Requests : Boarding(q)' <=> q \in (Prefills \ P) \cup Decodes
    BY <1>1 DEF Boarding
  <2>2. \A q \in Requests : Asks(q)' <=> Asks(q)
    BY <1>1 DEF Asks
  <2>3. \A q \in Requests : InOnePlace(q)'
    <3> SUFFICES ASSUME NEW q \in Requests PROVE InOnePlace(q)'
      OBVIOUS
    <3>1. InOnePlace(q)
      BY <1>2 DEF PlacesSound
    <3>2. q \in Prefills \cup Decodes <=> Boarding(q) \/ q = Item
      BY <1>5
    <3>3. (Fed(q)' <=> Fed(q) /\ q # Item) /\ (q = Item => Fed(q))
      BY <1>4
    <3>4. /\ Flown(q)' <=> Flown(q) \/ q \in P
          /\ Boarding(q)' <=> q \in (Prefills \ P) \cup Decodes
      BY <1>9, <2>1
    <3>5. QED BY <1>5, <1>6, <2>2, <3>1, <3>2, <3>3, <3>4 DEF InOnePlace
  <2>4. (pending_prefills \cap pending_decodes = {})'
    BY <1>1, <1>5
  <2>5. QED BY <1>4, <1>8, <2>3, <2>4 DEF PlacesSound
<1>13. AllocationsSound'
  <2>1. ASSUME NEW q \in Requests, q \in Prefills \cup Decodes PROVE Asks(q)
    BY <1>2, <1>4, <1>5, <2>1 DEF PlacesSound, InOnePlace
  <2>2. ASSUME NEW q \in Requests, generator[q] \in {"none", "new"}
        PROVE  allocation'[q] = allocation[q]
    <3>1. q \notin Prefills \cup Decodes
      BY <2>1, <2>2 DEF Asks
    <3>2. QED BY <1>6, <3>1
  <2>3. ASSUME NEW q \in Requests, Fed(q)' PROVE Fed(q) /\ allocation'[q] = allocation[q]
    <3>1. Fed(q) /\ q # Item
      BY <1>4, <2>3
    <3>2. q \notin Prefills \cup Decodes
      BY <1>2, <1>5, <3>1 DEF PlacesSound, InOnePlace
    <3>3. QED BY <1>6, <3>1, <3>2
  <2>4. ASSUME NEW q \in Prefills \ P PROVE allocation'[q] = None
    BY <1>5, <1>6
  <2>5. QED BY <1>1, <1>2, <2>2, <2>3, <2>4 DEF AllocationsSound
<1>14. QED BY <1>8, <1>10, <1>11, <1>12, <1>13 DEF LlmInv

----------------------------------------------------------------------------
(***************************************************************************)
(* The executors.                                                          *)
(***************************************************************************)

\* A flight goes on, with nobody aboard who was not.
LEMMA MoveKeeps ==
  ASSUME LlmInv, NEW f \in flights, NEW g \in Flight, g.reqs = f.reqs, g.phase = f.phase,
         Aboard(g) \subseteq Aboard(f), g.returned < Len(g.reqs),
         g.stage # "results" => g.returned = 0,
         MoveTo(f, g), UNCHANGED <<free, allocation, tokens>>
  PROVE  /\ flights' \subseteq Flight /\ FlightsSound' /\ FlownOnce' /\ PagesSound'
         /\ \A r \in Requests : Flown(r)' <=> \/ Flown(r) /\ r \notin Aboard(f)
                                              \/ r \in Aboard(g)
<1>1. LlmTypes /\ FlownOnce /\ FlightsSound /\ PagesSound
  BY DEF LlmInv, PlacesSound
<1>2. flights' = (flights \ {f}) \cup {g}
  BY DEF MoveTo
<1>3. flights' \subseteq Flight
  BY <1>1, <1>2 DEF LlmTypes
<1>4. FlightsSound'
  BY <1>1, <1>2 DEF FlightsSound
<1>5. \A h \in flights \ {f} : Aboard(h) \cap Aboard(f) = {}
  BY <1>1 DEF FlownOnce
<1>6. \A h \in flights \ {f} : Aboard(h) \cap Aboard(g) = {}
  BY <1>5
<1>7. FlownOnce'
  BY <1>1, <1>2, <1>6 DEF FlownOnce
<1>8. PagesSound'
  <2>1. PagesAccounted'
    BY <1>1 DEF PagesSound, PagesAccounted, Held
  <2>2. CommittedCacheState'
    BY <1>1, <1>2 DEF PagesSound, CommittedCacheState
  <2>3. QED BY <2>1, <2>2 DEF PagesSound
<1>9. ASSUME NEW r \in Requests
      PROVE  Flown(r)' <=> (Flown(r) /\ r \notin Aboard(f)) \/ r \in Aboard(g)
  <2>1. Flown(r)' <=> (\E h \in flights \ {f} : r \in Aboard(h)) \/ r \in Aboard(g)
    BY <1>2 DEF Flown
  <2>2. (\E h \in flights \ {f} : r \in Aboard(h)) <=> Flown(r) /\ r \notin Aboard(f)
    BY <1>5 DEF Flown
  <2>3. QED BY <2>1, <2>2
<1>10. QED BY <1>3, <1>4, <1>7, <1>8, <1>9

\* A flight is over.
LEMMA LandingKeeps ==
  ASSUME LlmInv, NEW f \in flights, flights' = flights \ {f}
  PROVE  /\ flights' \subseteq Flight /\ FlightsSound' /\ FlownOnce'
         /\ \A r \in Requests : Flown(r)' <=> Flown(r) /\ r \notin Aboard(f)
<1>1. LlmTypes /\ FlownOnce /\ FlightsSound
  BY DEF LlmInv, PlacesSound
<1>2. flights' \subseteq Flight /\ FlightsSound' /\ FlownOnce'
  BY <1>1 DEF LlmTypes, FlightsSound, FlownOnce
<1>3. \A h \in flights \ {f} : Aboard(h) \cap Aboard(f) = {}
  BY <1>1 DEF FlownOnce
<1>4. \A r \in Requests : Flown(r)' <=> Flown(r) /\ r \notin Aboard(f)
  BY <1>3 DEF Flown
<1>5. QED BY <1>2, <1>4

\* The executor invokes, or the invocation returns.
LEMMA InvokeKeeps ==
  ASSUME LlmInv, NEW f \in flights, Invoke(f) \/ InvokeReturns(f)
  PROVE  LlmInv'
<1> DEFINE g == [f EXCEPT !.stage = IF Invoke(f) THEN "invoked" ELSE "results"]
<1>1. /\ f.stage # "results" /\ MoveTo(f, g)
      /\ UNCHANGED <<client, stream, parts, steps, tokens, generator, phase, done, logits,
                     allocation, free, infeed, pending_prefills, pending_decodes, strobes>>
  <2>1. f.stage # "results"
    BY DEF Invoke, InvokeReturns
  <2>2. MoveTo(f, g)
    BY DEF Invoke, InvokeReturns
  <2>3. UNCHANGED <<client, stream, parts, steps, tokens, generator, phase, done, logits,
                    allocation, free, infeed, pending_prefills, pending_decodes, strobes>>
    BY DEF Invoke, InvokeReturns, web, request, cache, feed, boarding
  <2>4. QED BY <2>1, <2>2, <2>3
<1>2. LlmTypes /\ PartsSound /\ PlacesSound /\ FlightsSound /\ AllocationsSound /\ PagesSound
  BY DEF LlmInv
<1>3. /\ f \in Flight /\ f.returned < Len(f.reqs) /\ f.returned = 0
  BY <1>1, <1>2 DEF LlmTypes, FlightsSound
<1>4. /\ g \in Flight /\ g.reqs = f.reqs /\ g.phase = f.phase /\ g.returned = f.returned
  BY <1>3 DEF Flight, Stages
<1> HIDE DEF g
<1>5. Aboard(g) = Aboard(f)
  BY <1>4 DEF Aboard
<1>6. /\ flights' \subseteq Flight /\ FlightsSound' /\ FlownOnce' /\ PagesSound'
      /\ \A r \in Requests : Flown(r)' <=> Flown(r)
  <2>1. g.returned < Len(g.reqs) /\ (g.stage # "results" => g.returned = 0)
    BY <1>3, <1>4
  <2>2. /\ flights' \subseteq Flight /\ FlightsSound' /\ FlownOnce' /\ PagesSound'
        /\ \A r \in Requests : Flown(r)' <=> (Flown(r) /\ r \notin Aboard(f)) \/ r \in Aboard(g)
    BY <1>1, <1>4, <1>5, <2>1, MoveKeeps
  <2>3. \A r \in Aboard(f) : Flown(r)
    BY DEF Flown
  <2>4. QED BY <1>5, <2>2, <2>3
<1>7. LlmTypes' /\ PartsSound'
  BY <1>1, <1>2, <1>6 DEF LlmTypes, PartsSound
<1>8. PlacesSound'
  <2>1. \A r \in Requests : (Fed(r)' <=> Fed(r)) /\ (Boarding(r)' <=> Boarding(r)) /\ (Asks(r)' <=> Asks(r))
    BY <1>1 DEF Fed, Boarding, Asks
  <2>2. \A r \in Requests : InOnePlace(r)'
    BY <1>2, <1>6, <2>1 DEF PlacesSound, InOnePlace
  <2>3. FedOnce' /\ (pending_prefills \cap pending_decodes = {})'
    BY <1>1, <1>2 DEF PlacesSound, FedOnce
  <2>4. QED BY <1>6, <2>2, <2>3 DEF PlacesSound
<1>9. AllocationsSound'
  BY <1>1, <1>2 DEF AllocationsSound, Fed
<1>10. QED BY <1>6, <1>7, <1>8, <1>9 DEF LlmInv

\* Requests that leave the flights are done.
LEMMA AnswersKeep ==
  ASSUME LlmInv, NEW S \in SUBSET Requests, \A r \in S : Flown(r),
         FlownOnce', FlightsSound', flights' \subseteq Flight, PagesSound',
         free' \in Nat, allocation' \in [Requests -> Nat \cup {None}],
         logits' \in [Requests -> BOOLEAN],
         done' = [r \in Requests |-> done[r] \/ r \in S],
         \A r \in Requests : Flown(r)' <=> Flown(r) /\ r \notin S,
         \A r \in Requests : allocation'[r] \in {None, allocation[r]},
         UNCHANGED <<client, stream, parts, steps, tokens, generator, phase, infeed,
                     pending_prefills, pending_decodes, strobes>>
  PROVE  LlmInv'
<1>1. LlmTypes /\ PartsSound /\ PlacesSound /\ AllocationsSound
  BY DEF LlmInv
<1>2. done' \in [Requests -> BOOLEAN]
  BY <1>1 DEF LlmTypes
<1>3. LlmTypes' /\ PartsSound'
  BY <1>1, <1>2 DEF LlmTypes, PartsSound
<1>4. PlacesSound'
  <2>1. \A r \in Requests : (Fed(r)' <=> Fed(r)) /\ (Boarding(r)' <=> Boarding(r))
    BY DEF Fed, Boarding
  <2>2. \A r \in Requests : Asks(r)' <=> Asks(r) /\ r \notin S
    BY DEF Asks
  <2>3. \A r \in Requests : InOnePlace(r)'
    BY <1>1, <2>1, <2>2 DEF PlacesSound, InOnePlace
  <2>4. FedOnce' /\ (pending_prefills \cap pending_decodes = {})'
    BY <1>1 DEF PlacesSound, FedOnce
  <2>5. QED BY <2>3, <2>4 DEF PlacesSound
<1>5. AllocationsSound'
  <2>1. ASSUME NEW r \in Requests, generator[r] \in {"none", "new"} PROVE done'[r] = done[r]
    <3>1. r \notin S
      BY <1>1, <2>1 DEF PlacesSound, InOnePlace, Asks
    <3>2. done'[r] = (done[r] \/ r \in S) /\ done[r] \in BOOLEAN
      BY <1>1 DEF LlmTypes
    <3>3. QED BY <3>1, <3>2
  <2>2. pending_prefills \subseteq Requests
    BY <1>1 DEF LlmTypes
  <2>3. \A r \in Requests : Fed(r)' <=> Fed(r)
    BY DEF Fed
  <2>4. \A r \in Requests : allocation[r] = None => allocation'[r] = None
    OBVIOUS
  <2>5. QED BY <1>1, <2>1, <2>2, <2>3, <2>4 DEF AllocationsSound
<1>6. QED BY <1>3, <1>4, <1>5 DEF LlmInv

\* A request is given its result.
LEMMA ReturnResultKeeps ==
  ASSUME LlmInv, NEW f \in flights, ReturnResult(f)
  PROVE  LlmInv'
<1> DEFINE r == f.reqs[f.returned + 1]
           g == [f EXCEPT !.returned = @ + 1]
<1>1. /\ f.stage = "results"
      /\ logits' = [logits EXCEPT ![r] = TRUE] /\ done' = [done EXCEPT ![r] = TRUE]
      /\ IF f.returned + 1 = Len(f.reqs) THEN flights' = flights \ {f} ELSE MoveTo(f, g)
      /\ UNCHANGED <<client, stream, parts, steps, tokens, generator, phase, allocation, free, infeed,
                     pending_prefills, pending_decodes, strobes>>
  BY DEF ReturnResult, web, cache, feed, boarding
<1>2. LlmTypes /\ PlacesSound /\ FlightsSound /\ PagesSound
  BY DEF LlmInv
<1>3. /\ f \in Flight /\ f.reqs \in Seq(Requests) /\ f.returned \in Nat
      /\ f.returned + 1 \in DOMAIN f.reqs /\ r \in Aboard(f) /\ Aboard(f) \subseteq Requests
  BY <1>2, AboardOf
<1>4. r \in Requests /\ Flown(r)
  BY <1>3 DEF Flown
<1>5. /\ flights' \subseteq Flight /\ FlightsSound' /\ FlownOnce' /\ PagesSound'
      /\ \A q \in Requests : Flown(q)' <=> Flown(q) /\ q # r
  <2>1. \A i, j \in DOMAIN f.reqs : f.reqs[i] = f.reqs[j] => i = j
    BY <1>2 DEF FlightsSound
  <2>2. Len(f.reqs) \in Nat /\ DOMAIN f.reqs = 1 .. Len(f.reqs) /\ f.returned < Len(f.reqs)
    BY <1>2, <1>3 DEF FlightsSound
  <2>3. CASE f.returned + 1 = Len(f.reqs)
    <3>1. Aboard(f) = {r}
      <4>1. (f.returned + 1) .. Len(f.reqs) = {f.returned + 1}
        BY <1>3, <2>3
      <4>2. QED BY <4>1 DEF Aboard
    <3>2. flights' = flights \ {f}
      BY <1>1, <2>3
    <3> HIDE DEF r
    <3>3. /\ flights' \subseteq Flight /\ FlightsSound' /\ FlownOnce'
          /\ \A q \in Requests : Flown(q)' <=> Flown(q) /\ q \notin Aboard(f)
      BY <3>2, LandingKeeps
    <3>4. PagesAccounted'
      BY <1>1, <1>2 DEF PagesSound, PagesAccounted, Held
    <3>5. CommittedCacheState'
      BY <1>1, <1>2, <3>2 DEF PagesSound, CommittedCacheState
    <3>6. QED BY <3>1, <3>3, <3>4, <3>5 DEF PagesSound
  <2>4. CASE f.returned + 1 # Len(f.reqs)
    <3>1. /\ g \in Flight /\ g.reqs = f.reqs /\ g.phase = f.phase /\ g.stage = f.stage
          /\ g.returned = f.returned + 1
      BY <1>3 DEF Flight
    <3>2. MoveTo(f, g)
      BY <1>1, <2>4
    <3> HIDE DEF g
    <3>3. g.returned < Len(g.reqs) /\ g.stage = "results"
      BY <1>1, <1>3, <2>2, <2>4, <3>1
    <3>4. Aboard(g) = Aboard(f) \ {r}
      <4>1. /\ (f.returned + 1) .. Len(f.reqs)
                  = {f.returned + 1} \cup ((g.returned + 1) .. Len(g.reqs))
            /\ f.returned + 1 \notin (g.returned + 1) .. Len(g.reqs)
            /\ (g.returned + 1) .. Len(g.reqs) \subseteq DOMAIN f.reqs
        BY <1>3, <2>2, <3>1
      <4>2. \A i \in (g.returned + 1) .. Len(g.reqs) : f.reqs[i] # r
        BY <1>3, <2>1, <4>1
      <4>3. Aboard(g) = {f.reqs[i] : i \in (g.returned + 1) .. Len(g.reqs)}
        BY <3>1 DEF Aboard
      <4>4. Aboard(f) = {f.reqs[i] : i \in (f.returned + 1) .. Len(f.reqs)}
        BY DEF Aboard
      <4>5. QED BY <4>1, <4>2, <4>3, <4>4
    <3> HIDE DEF r
    <3>5. /\ flights' \subseteq Flight /\ FlightsSound' /\ FlownOnce' /\ PagesSound'
          /\ \A q \in Requests : Flown(q)' <=> (Flown(q) /\ q \notin Aboard(f)) \/ q \in Aboard(g)
      BY <1>1, <3>1, <3>2, <3>3, <3>4, MoveKeeps
    <3>6. \A q \in Aboard(f) : Flown(q)
      BY DEF Flown
    <3>7. QED BY <1>3, <3>4, <3>5, <3>6
  <2>5. QED BY <2>3, <2>4
<1> HIDE DEF r, g
<1>6. /\ logits' \in [Requests -> BOOLEAN]
      /\ done' = [q \in Requests |-> done[q] \/ q \in {r}]
  <2>1. done \in [Requests -> BOOLEAN] /\ logits \in [Requests -> BOOLEAN]
    BY <1>2 DEF LlmTypes
  <2>2. logits' \in [Requests -> BOOLEAN]
    BY <1>1, <2>1
  <2>3. done' \in [Requests -> BOOLEAN] /\ \A q \in Requests : done'[q] = IF q = r THEN TRUE ELSE done[q]
    BY <1>1, <1>4, <2>1
  <2>4. \A q \in Requests : done'[q] = (done[q] \/ q \in {r})
    BY <2>1, <2>3
  <2>5. QED BY <2>2, <2>3, <2>4
<1>7. /\ free' \in Nat /\ allocation' \in [Requests -> Nat \cup {None}]
      /\ \A q \in Requests : allocation'[q] \in {None, allocation[q]}
  BY <1>1, <1>2 DEF LlmTypes
<1>8. /\ {r} \in SUBSET Requests /\ \A q \in {r} : Flown(q)
      /\ \A q \in Requests : Flown(q)' <=> Flown(q) /\ q \notin {r}
  BY <1>4, <1>5
<1>9. QED BY <1>1, <1>5, <1>6, <1>7, <1>8, AnswersKeep

\* A batch fails before any of its requests has been given a result.
LEMMA ExecutorFailsKeeps ==
  ASSUME "result" \notin Failures, LlmInv, NEW f \in flights, ExecutorFails(f)
  PROVE  LlmInv'
<1> DEFINE S == ToSet(f.reqs)
<1>1. /\ Raises(f)
      /\ logits' = [r \in Requests |-> logits[r] /\ r \notin S]
      /\ done' = [r \in Requests |-> done[r] \/ r \in S]
      /\ FreeCachePages(S)
      /\ flights' = flights \ {f}
      /\ UNCHANGED <<client, stream, parts, steps, tokens, generator, phase, infeed,
                     pending_prefills, pending_decodes, strobes>>
  BY DEF ExecutorFails, web, feed, boarding
<1>2. LlmTypes /\ PlacesSound /\ FlightsSound /\ PagesSound
  BY DEF LlmInv
<1>3. f.stage # "results"
  BY <1>1 DEF Raises
<1>4. S = Aboard(f) /\ S \in SUBSET Requests
  <2>1. f.returned = 0
    BY <1>2, <1>3 DEF FlightsSound
  <2>2. QED BY <1>2, <2>1, AboardOf
<1>5. \A r \in S : Flown(r)
  BY <1>4 DEF Flown
<1> HIDE DEF S
<1>6. /\ flights' \subseteq Flight /\ FlightsSound' /\ FlownOnce'
      /\ \A r \in Requests : Flown(r)' <=> Flown(r) /\ r \notin S
  BY <1>1, <1>4, LandingKeeps
<1>7. /\ free' \in Nat /\ allocation' \in [Requests -> Nat \cup {None}] /\ PagesAccounted'
      /\ \A r \in Requests : allocation'[r] = IF r \in S THEN None ELSE allocation[r]
  <2>1. PagesAccounted
    BY <1>2 DEF PagesSound
  <2>2. QED BY <1>1, <1>2, <1>4, <2>1, FreeingKeeps, Zenon
<1>8. PagesSound'
  <2>1. ASSUME NEW h \in flights \ {f}, NEW r \in Aboard(h) PROVE allocation'[r] = allocation[r]
    <3>1. r \in Requests
      BY <1>2, <2>1, AboardOf
    <3>2. r \notin S
      BY <1>2, <1>4, <2>1 DEF PlacesSound, FlownOnce
    <3>3. QED BY <1>7, <3>1, <3>2
  <2>2. CommittedCacheState'
    BY <1>1, <1>2, <2>1 DEF PagesSound, CommittedCacheState
  <2>3. QED BY <1>7, <2>2 DEF PagesSound
<1>9. logits' \in [Requests -> BOOLEAN]
  BY <1>1
<1>10. \A r \in Requests : allocation'[r] \in {None, allocation[r]}
  BY <1>7
<1>11. QED BY <1>1, <1>4, <1>5, <1>6, <1>7, <1>8, <1>9, <1>10, AnswersKeep

----------------------------------------------------------------------------
(***************************************************************************)
(* The theorems.                                                           *)
(***************************************************************************)

\* A step of the batcher, and any other.
LEMMA BatcherReadsKeeps ==
  ASSUME LlmInv, BatcherReads
  PROVE  LlmInv'
<1>1. CASE BatcherWaits
  BY <1>1, BatcherWaitsKeeps
<1>2. ASSUME Reading, NEW op \in SetToSeqs(Prefills), NEW od \in SetToSeqs(Decodes),
             BatcherBoards(op, od) \/ BatcherDies(op, od)
      PROVE  LlmInv'
  <2>1. infeed # << >>
    BY <1>2 DEF Reading
  <2>2. CASE BatcherBoards(op, od)
    BY <2>1, <2>2, BatcherBoardsKeeps
  <2>3. CASE BatcherDies(op, od)
    BY <2>1, <2>3, BatcherDiesKeeps
  <2>4. QED BY <1>2, <2>2, <2>3
<1>3. QED BY <1>1, <1>2 DEF BatcherReads

\* A step of anybody, as long as reading a result does not fail.
LEMMA NextKeeps ==
  ASSUME "result" \notin Failures, LlmInv, [Next]_vars
  PROVE  LlmInv'
<1>1. CASE ClientStarts \/ ClientRejects \/ ClientEnds
  BY <1>1, ClientKeeps
<1>2. CASE LoopCloses \/ Shutdown \/ BatcherEnds
  <2>1. UNCHANGED <<client, stream, parts, steps, tokens, generator, phase, done, logits,
                    allocation, free, infeed, pending_prefills, pending_decodes, strobes, flights>>
    BY <1>2 DEF LoopCloses, Shutdown, BatcherEnds, InferenceIdle, web, request, cache, feed, boarding
  <2>2. QED BY <2>1, QuietKeeps
<1>3. ASSUME NEW r \in Requests, Generate(r) PROVE LlmInv'
  BY <1>3, GenerateStartKeeps, GenerateNextKeeps, GenerateOverKeeps DEF Generate
<1>4. CASE Strobe
  BY <1>4, StrobeKeeps
<1>5. CASE BatcherReads
  BY <1>5, BatcherReadsKeeps
<1>6. ASSUME NEW f \in flights, Execute(f) PROVE LlmInv'
  <2>1. CASE Invoke(f) \/ InvokeReturns(f)
    BY <2>1, InvokeKeeps
  <2>2. CASE ReturnResult(f)
    BY <2>2, ReturnResultKeeps
  <2>3. CASE ExecutorFails(f)
    BY <2>3, ExecutorFailsKeeps
  <2>4. QED BY <1>6, <2>1, <2>2, <2>3 DEF Execute
<1>7. CASE UNCHANGED vars
  <2>1. UNCHANGED <<client, stream, parts, steps, tokens, generator, phase, done, logits,
                    allocation, free, infeed, pending_prefills, pending_decodes, strobes, flights>>
    BY <1>7 DEF vars, web, request, cache, feed, boarding
  <2>2. QED BY <2>1, QuietKeeps
<1>8. QED BY <1>1, <1>2, <1>3, <1>4, <1>5, <1>6, <1>7 DEF Next

\* The invariant holds throughout, unless reading a result fails.
LEMMA LlmInvariant ==
  ASSUME "result" \notin Failures
  PROVE  Spec => []LlmInv
<1>1. Init => LlmInv
  BY InitKeeps
<1>2. LlmInv /\ [Next]_vars => LlmInv'
  BY NextKeeps
<1>3. QED BY <1>1, <1>2, PTL DEF Spec

\* The pages that a batch writes to are there for as long as it runs, and no page
\* is lost or freed twice, whatever fails before the results are read.
THEOREM PagesKept ==
  ASSUME "result" \notin Failures
  PROVE  Spec => []PagesSound
<1>1. LlmInv => PagesSound
  BY DEF LlmInv
<1>2. QED BY <1>1, LlmInvariant, PTL

\* The number of members of a set that has one at most.
LEMMA AtMostOne ==
  ASSUME NEW S, \A x, y \in S : x = y
  PROVE  Cardinality(S) = IF S = {} THEN 0 ELSE 1
<1>1. CASE S = {}
  BY <1>1, FS_EmptySet
<1>2. CASE S # {}
  <2>1. PICK x \in S : S = {x}
    BY <1>2
  <2>2. Cardinality({x}) = 1
    BY FS_Singleton
  <2>3. QED BY <1>2, <2>1, <2>2
<1>3. QED BY <1>1, <1>2

\* Counting the places in which the invariant has a request.
LEMMA InvImpliesOnePlace == LlmInv => OnePlace
<1> SUFFICES ASSUME LlmInv, NEW r \in Requests
             PROVE  Occurrences(r) = IF generator[r] = "waiting" /\ ~done[r] THEN 1 ELSE 0
  BY DEF OnePlace
<1> DEFINE F == {i \in DOMAIN infeed : infeed[i] = r}
           L == {f \in flights : r \in Aboard(f)}
           A == {r} \cap pending_prefills
           B == {r} \cap pending_decodes
<1>1. /\ FedOnce /\ FlownOnce /\ pending_prefills \cap pending_decodes = {} /\ InOnePlace(r)
  BY DEF LlmInv, PlacesSound
<1>2. Cardinality(F) = IF Fed(r) THEN 1 ELSE 0
  <2>1. \A x, y \in F : x = y
    BY <1>1 DEF FedOnce
  <2>2. F = {} <=> ~Fed(r)
    BY DEF Fed
  <2> HIDE DEF F
  <2>3. Cardinality(F) = IF F = {} THEN 0 ELSE 1
    BY <2>1, AtMostOne
  <2>4. QED BY <2>2, <2>3
<1>3. Cardinality(L) = IF Flown(r) THEN 1 ELSE 0
  <2>1. \A x, y \in L : x = y
    BY <1>1 DEF FlownOnce
  <2>2. L = {} <=> ~Flown(r)
    BY DEF Flown
  <2> HIDE DEF L
  <2>3. Cardinality(L) = IF L = {} THEN 0 ELSE 1
    BY <2>1, AtMostOne
  <2>4. QED BY <2>2, <2>3
<1>4. /\ Cardinality(A) = IF r \in pending_prefills THEN 1 ELSE 0
      /\ Cardinality(B) = IF r \in pending_decodes THEN 1 ELSE 0
  <2>1. (\A x, y \in A : x = y) /\ (A = {} <=> r \notin pending_prefills)
    OBVIOUS
  <2>2. (\A x, y \in B : x = y) /\ (B = {} <=> r \notin pending_decodes)
    OBVIOUS
  <2> HIDE DEF A, B
  <2>3. /\ Cardinality(A) = IF A = {} THEN 0 ELSE 1
        /\ Cardinality(B) = IF B = {} THEN 0 ELSE 1
    BY <2>1, <2>2, AtMostOne
  <2>4. QED BY <2>1, <2>2, <2>3
<1>5. Occurrences(r) = Cardinality(F) + Cardinality(A) + Cardinality(B) + Cardinality(L)
  BY DEF Occurrences
<1> HIDE DEF F, L, A, B
<1>6. Boarding(r) <=> r \in pending_prefills \/ r \in pending_decodes
  BY DEF Boarding
<1>7. ~(r \in pending_prefills /\ r \in pending_decodes)
  BY <1>1
<1>8. QED BY <1>1, <1>2, <1>3, <1>4, <1>5, <1>6, <1>7 DEF InOnePlace, Asks

\* A request is being fed, boarding or in one flight, as long as its generator
\* waits for it and not a step longer, unless reading a result fails.
THEOREM Placed ==
  ASSUME "result" \notin Failures
  PROVE  Spec => []OnePlace
<1>1. QED BY InvImpliesOnePlace, LlmInvariant, PTL

\* What the parts of a stream depend on, whatever fails.
PartsInv ==
    /\ client \in {"new", "running", "over"} /\ stream \in BOOLEAN
    /\ parts \in [Requests -> Nat] /\ steps \in [Requests -> Nat]
    /\ generator \in [Requests -> {"none", "new", "waiting", "finished", "failed"}]
    /\ PartsSound

\* Only the generators and the client touch it.
LEMMA PartsKept ==
  ASSUME PartsInv, [Next]_vars
  PROVE  PartsInv'
<1> USE DEF PartsInv, PartsSound
<1>1. CASE ClientStarts
  BY <1>1 DEF ClientStarts, InferenceIdle
<1>2. CASE ClientRejects
  BY <1>2 DEF ClientRejects, InferenceIdle
<1>3. CASE ClientEnds
  BY <1>3 DEF ClientEnds, InferenceIdle, Gathered
<1>4. ASSUME NEW r \in Requests, GenerateStart(r) PROVE PartsInv'
  BY <1>4 DEF GenerateStart, web
<1>5. ASSUME NEW r \in Requests, GenerateNext(r) PROVE PartsInv'
  <2>1. /\ generator[r] = "waiting" /\ UNCHANGED <<client, stream, generator>>
        /\ parts' = [parts EXCEPT ![r] = IF stream THEN @ + 1 ELSE @]
        /\ steps' = [steps EXCEPT ![r] = @ + 1]
    BY <1>5 DEF GenerateNext, Awake, AppendToken, web
  <2>2. parts[r] \in Nat /\ steps[r] \in Nat /\ parts[r] + 1 \in Nat /\ steps[r] + 1 \in Nat
    OBVIOUS
  <2>3. /\ parts' \in [Requests -> Nat] /\ steps' \in [Requests -> Nat]
        /\ parts'[r] = IF stream THEN parts[r] + 1 ELSE parts[r]
        /\ steps'[r] = steps[r] + 1
        /\ \A q \in Requests \ {r} : parts'[q] = parts[q] /\ steps'[q] = steps[q]
    BY <2>1, <2>2
  <2>4. QED BY <2>1, <2>3
<1>6. ASSUME NEW r \in Requests, GenerateEnd(r) \/ GenerateRaises(r) PROVE PartsInv'
  <2>1. /\ generator[r] = "waiting" /\ UNCHANGED <<client, stream, steps>>
        /\ \/ /\ parts' = [parts EXCEPT ![r] = IF stream THEN @ + 1 ELSE @]
              /\ generator' = [generator EXCEPT ![r] = "finished"]
           \/ parts' = parts /\ generator' = [generator EXCEPT ![r] = "failed"]
    BY <1>6 DEF GenerateEnd, GenerateRaises, Awake, AppendToken, web
  <2>2. parts[r] \in Nat /\ parts[r] + 1 \in Nat
    OBVIOUS
  <2>3. /\ generator' \in [Requests -> {"none", "new", "waiting", "finished", "failed"}]
        /\ parts' \in [Requests -> Nat]
        /\ \/ parts'[r] = (IF stream THEN parts[r] + 1 ELSE parts[r]) /\ generator'[r] = "finished"
           \/ generator'[r] = "failed"
        /\ \A q \in Requests \ {r} : generator'[q] = generator[q] /\ parts'[q] = parts[q]
    BY <2>1, <2>2
  <2>4. QED BY <2>1, <2>3
<1>7. CASE UNCHANGED <<client, stream, parts, steps, generator>>
  BY <1>7
<1>8. CASE LoopCloses \/ Strobe \/ BatcherReads \/ Shutdown \/ BatcherEnds
  <2>1. UNCHANGED <<client, stream, parts, steps, generator>>
    BY <1>8 DEF LoopCloses, Strobe, BatcherReads, BatcherWaits, BatcherBoards, BatcherDies, Shutdown,
                BatcherEnds, InferenceIdle, web
  <2>2. QED BY <1>7, <2>1
<1>9. ASSUME NEW f \in flights, Execute(f) PROVE PartsInv'
  <2>1. UNCHANGED <<client, stream, parts, steps, generator>>
    BY <1>9 DEF Execute, Invoke, InvokeReturns, ReturnResult, ExecutorFails, web
  <2>2. QED BY <1>7, <2>1
<1>10. CASE UNCHANGED vars
  BY <1>7, <1>10 DEF vars, web
<1>11. QED BY <1>1, <1>2, <1>3, <1>4, <1>5, <1>6, <1>8, <1>9, <1>10 DEF Next, Generate

\* A response ends when no generator is under way any more, and a stream has got
\* a part for every token then, whatever fails.
THEOREM Complete == Spec => []ResponseComplete
<1>1. Init => PartsInv
  BY DEF Init, PartsInv, PartsSound
<1>2. PartsInv /\ [Next]_vars => PartsInv'
  BY PartsKept
<1>3. PartsInv => ResponseComplete
  BY DEF PartsInv, PartsSound, ResponseComplete
<1>4. QED BY <1>1, <1>2, <1>3, PTL DEF Spec
=============================================================================
