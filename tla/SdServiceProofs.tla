-------------------------- MODULE SdServiceProofs ---------------------------
(* Proofs about SdService, for any clients and bodies, any topology whose    *)
(* fibers are divided evenly among the workers, and any size of the batches. *)
EXTENDS SdService, ProofLemmas

----------------------------------------------------------------------------
(***************************************************************************)
(* sort_batches.  A filing puts some of the requests, each once, into      *)
(* batches that are not too large and share their metadata.                *)
(***************************************************************************)
\* The minimum that File and Assignments take.
LEMMA MinIn ==
  ASSUME NEW T \in SUBSET Nat, T # {}
  PROVE  Min(T) \in T /\ \A t \in T : Min(T) <= t
BY LeastNat DEF Min

Batches == Seq(Seq(Images))

Uniform(b) == /\ Len(b) \in 1 .. IdealBatch
              /\ \A k \in DOMAIN b : MetaOf(b[k]) = MetaOf(b[1])

Filing(bs, S) ==
    /\ bs \in Batches
    /\ \A k \in DOMAIN bs : Uniform(bs[k]) /\ ToSet(bs[k]) \subseteq S
    /\ \A k, l \in DOMAIN bs : ToSet(bs[k]) \cap ToSet(bs[l]) # {} => k = l

\* What appending does to the elements.
LEMMA AppendSet ==
  ASSUME NEW T, NEW b \in Seq(T), NEW i \in T
  PROVE  /\ Append(b, i) \in Seq(T)
         /\ ToSet(Append(b, i)) = ToSet(b) \cup {i}
         /\ Len(Append(b, i)) = Len(b) + 1
         /\ DOMAIN Append(b, i) = DOMAIN b \cup {Len(b) + 1}
         /\ \A k \in DOMAIN b : Append(b, i)[k] = b[k]
         /\ Append(b, i)[Len(b) + 1] = i
BY DEF ToSet

\* service.py 290-319: filing one more request.
LEMMA FileKeeps ==
  ASSUME NEW S \in SUBSET Images, NEW i \in Images \ S, NEW bs, Filing(bs, S)
  PROVE  Filing(File(bs, i), S \cup {i})
<1> DEFINE fit == {k \in DOMAIN bs : RoomFor(bs[k], i)}
<1>0. bs \in Batches /\ DOMAIN bs = 1 .. Len(bs) /\ fit \in SUBSET Nat
  BY DEF Filing, Batches
<1>1. CASE fit = {}
  <2>1. File(bs, i) = Append(bs, <<i>>)
    BY <1>1 DEF File
  <2>2. <<i>> \in Seq(Images) /\ ToSet(<<i>>) = {i} /\ Uniform(<<i>>)
    BY SdAssumption DEF Uniform, ToSet
  <2>3. /\ Append(bs, <<i>>) \in Batches
        /\ DOMAIN Append(bs, <<i>>) = DOMAIN bs \cup {Len(bs) + 1}
        /\ \A k \in DOMAIN bs : Append(bs, <<i>>)[k] = bs[k]
        /\ Append(bs, <<i>>)[Len(bs) + 1] = <<i>>
    BY <1>0, <2>2, AppendSet DEF Batches
  <2>4. \A k \in DOMAIN bs : i \notin ToSet(bs[k])
    BY DEF Filing
  <2>5. QED BY <2>1, <2>2, <2>3, <2>4 DEF Filing
<1>2. CASE fit # {}
  <2> DEFINE m == Min(fit)
             b == Append(bs[m], i)
  <2>1. m \in fit
    BY <1>0, <1>2, MinIn
  <2>2. File(bs, i) = [bs EXCEPT ![m] = b]
    BY <1>2 DEF File
  <2>3. bs[m] \in Seq(Images) /\ Uniform(bs[m]) /\ RoomFor(bs[m], i) /\ m \in DOMAIN bs
    BY <1>0, <2>1 DEF Filing, Batches
  <2> HIDE DEF m, fit
  <2>4. /\ b \in Seq(Images) /\ ToSet(b) = ToSet(bs[m]) \cup {i}
        /\ Len(b) = Len(bs[m]) + 1 /\ DOMAIN b = DOMAIN bs[m] \cup {Len(bs[m]) + 1}
        /\ \A k \in DOMAIN bs[m] : b[k] = bs[m][k]
        /\ b[Len(bs[m]) + 1] = i
    BY <2>3, AppendSet
  <2> HIDE DEF b
  <2>5. Uniform(b)
    <3>1. Len(b) \in 1 .. IdealBatch /\ 1 \in DOMAIN bs[m]
      BY <2>3, <2>4, SdAssumption DEF Uniform, RoomFor
    <3>2. QED BY <2>3, <2>4, <3>1 DEF Uniform, RoomFor
  <2>6. /\ File(bs, i) \in Batches /\ DOMAIN File(bs, i) = DOMAIN bs
        /\ \A k \in DOMAIN bs : File(bs, i)[k] = IF k = m THEN b ELSE bs[k]
    BY <1>0, <2>2, <2>3, <2>4 DEF Batches
  <2>7. \A k \in DOMAIN bs : i \notin ToSet(bs[k])
    BY DEF Filing
  <2>8. \A k \in DOMAIN bs : Uniform(File(bs, i)[k]) /\ ToSet(File(bs, i)[k]) \subseteq S \cup {i}
    BY <2>3, <2>4, <2>5, <2>6 DEF Filing
  <2>9. ASSUME NEW k \in DOMAIN bs, NEW l \in DOMAIN bs,
               ToSet(File(bs, i)[k]) \cap ToSet(File(bs, i)[l]) # {}
        PROVE  k = l
    <3>1. \A n \in DOMAIN bs : ToSet(File(bs, i)[n]) = IF n = m THEN ToSet(bs[m]) \cup {i}
                                                    ELSE ToSet(bs[n])
      BY <2>4, <2>6
    <3>2. QED BY <2>3, <2>7, <2>9, <3>1 DEF Filing
  <2>10. QED BY <2>6, <2>8, <2>9 DEF Filing
<1>3. QED BY <1>1, <1>2

\* What LET batches[k \in 0 .. Len(order)] of sort_batches stands for.
LEMMA BatchesDefined ==
  ASSUME NEW order \in Seq(Images),
         \A bs \in Batches, i \in Images : File(bs, i) \in Batches
  PROVE  \E f \in [0 .. Len(order) -> Batches] :
            /\ sort_batches(order) = f[Len(order)]
            /\ f[0] = << >>
            /\ \A k \in 1 .. Len(order) : f[k] = File(f[k - 1], order[k])
<1> DEFINE n == Len(order)
           Def(f) == [k \in 0 .. n |-> IF k = 0 THEN << >> ELSE File(f[k - 1], order[k])]
           G == [p \in (0 .. n) \X Batches |->
                   IF p[1] = 0 THEN << >> ELSE File(p[2], order[p[1]])]
           B == CHOOSE f : f = Def(f)
<1>1. sort_batches(order) = B[n]
  BY DEF sort_batches
<1>2. n \in Nat /\ << >> \in Batches /\ \A k \in 1 .. n : order[k] \in Images
  BY DEF Batches
<1>3. G \in [(0 .. n) \X Batches -> Batches]
  BY <1>2
<1> HIDE DEF n
<1>4. PICK f \in [0 .. n -> Batches] :
             f[0] = << >> /\ \A k \in 1 .. n : f[k] = G[<<k, f[k - 1]>>]
  <2> DEFINE a == << >>
  <2>1. n \in Nat /\ a \in Batches
    BY <1>2
  <2> HIDE DEF G, a
  <2>2. PICK f : Iterates(f, n, Batches, a, G)
    BY <1>3, <2>1, Recursion
  <2>3. QED BY <2>2 DEF a, Iterates
<1>5. \A k \in 1 .. n : f[k] = File(f[k - 1], order[k])
  <2> SUFFICES ASSUME NEW k \in 1 .. n PROVE f[k] = File(f[k - 1], order[k])
    OBVIOUS
  <2>1. k \in 0 .. n /\ k - 1 \in 0 .. n /\ k # 0
    BY <1>2
  <2>2. <<k, f[k - 1]>> \in (0 .. n) \X Batches
    BY <2>1
  <2>3. QED BY <1>4, <2>1, <2>2
<1>6. f = Def(f)
  <2>1. \A k \in 0 .. n : f[k] = IF k = 0 THEN << >> ELSE File(f[k - 1], order[k])
    BY <1>2, <1>4, <1>5
  <2>2. f = [k \in 0 .. n |-> f[k]]
    OBVIOUS
  <2>3. QED BY <2>1, <2>2
<1>7. B = Def(B)
  <2> HIDE DEF Def
  <2>1. QED BY <1>6
<1> HIDE DEF B
<1>8. B[0] = << >> /\ \A k \in 1 .. n : B[k] = File(B[k - 1], order[k])
  BY <1>2, <1>7
<1>9. B \in [0 .. n -> Batches]
  <2> DEFINE T == {k \in 0 .. n : B[k] \in Batches}
  <2>1. 0 \in T
    BY <1>2, <1>8
  <2>2. ASSUME NEW k \in 0 .. n, k \in T, k # n PROVE k + 1 \in T
    <3>1. k + 1 \in 1 .. n /\ (k + 1) - 1 = k /\ B[k] \in Batches
      BY <1>2, <2>2
    <3>2. B[k + 1] \in Batches
      BY <1>2, <1>8, <3>1
    <3>3. QED BY <3>1, <3>2
  <2>3. 0 .. n \subseteq T
    <3> HIDE DEF T
    <3>1. QED BY <1>2, <2>1, <2>2, UpTo
  <2>4. DOMAIN B = 0 .. n
    BY <1>7
  <2>5. B = [k \in 0 .. n |-> B[k]]
    BY <1>7
  <2>6. QED BY <2>3, <2>5
<1>10. QED BY <1>1, <1>8, <1>9 DEF n

\* service.py 290-319: the batches hold no request twice.
LEMMA SortKeeps ==
  ASSUME NEW w \in SUBSET Images, IsFiniteSet(w), NEW order \in SetToSeqs(w)
  PROVE  Filing(sort_batches(order), w)
<1> DEFINE n == Len(order)
           Filed(k) == {order[m] : m \in 1 .. k}
<1>1. /\ order \in Seq(Images) /\ n \in Nat /\ DOMAIN order = 1 .. n
      /\ \A k \in 1 .. n : order[k] \in w
      /\ \A k, l \in 1 .. n : order[k] = order[l] => k = l
  <2>1. Cardinality(w) \in Nat
    BY FS_CardinalityType
  <2>2. order \in [1 .. Cardinality(w) -> w]
    BY DEF SetToSeqs
  <2>3. order \in Seq(w) /\ n = Cardinality(w)
    BY <2>1, <2>2
  <2>4. QED BY <2>1, <2>2, <2>3 DEF SetToSeqs
<1>2. \A bs \in Batches, i \in Images : File(bs, i) \in Batches
  <2> SUFFICES ASSUME NEW bs \in Batches, NEW i \in Images PROVE File(bs, i) \in Batches
    OBVIOUS
  <2> DEFINE fit == {k \in DOMAIN bs : RoomFor(bs[k], i)}
  <2>1. CASE fit = {}
    BY <2>1 DEF File, Batches
  <2>2. CASE fit # {}
    <3>1. fit \in SUBSET Nat
      BY DEF Batches
    <3>2. Min(fit) \in fit
      BY <2>2, <3>1, MinIn
    <3>3. QED BY <2>2, <3>2 DEF File, Batches
  <2>3. QED BY <2>1, <2>2
<1>3. PICK f \in [0 .. n -> Batches] :
             /\ sort_batches(order) = f[n]
             /\ f[0] = << >>
             /\ \A k \in 1 .. n : f[k] = File(f[k - 1], order[k])
  BY <1>1, <1>2, BatchesDefined
<1> DEFINE T == {k \in 0 .. n : Filing(f[k], Filed(k))}
<1>4. 0 \in T
  BY <1>1, <1>3 DEF Filing, Batches
<1>5. ASSUME NEW k \in 0 .. n, k \in T, k # n PROVE k + 1 \in T
  <2>1. k + 1 \in 1 .. n /\ k + 1 \in 0 .. n /\ (k + 1) - 1 = k
    <3>1. n \in Nat
      BY <1>1
    <3> HIDE DEF n, T
    <3>2. QED BY <1>5, <3>1
  <2>2. Filed(k + 1) = Filed(k) \cup {order[k + 1]}
    BY <1>1, <2>1
  <2>3. Filed(k) \in SUBSET Images /\ order[k + 1] \in Images \ Filed(k)
    BY <1>1, <2>1
  <2>4. f[k + 1] = File(f[k], order[k + 1])
    BY <1>3, <2>1
  <2>5. Filing(f[k], Filed(k))
    BY <1>5
  <2> HIDE DEF Filed
  <2>6. Filing(File(f[k], order[k + 1]), Filed(k) \cup {order[k + 1]})
    BY <2>3, <2>5, FileKeeps
  <2>7. QED BY <2>1, <2>2, <2>4, <2>6
<1>6. 0 .. n \subseteq T
  <2> HIDE DEF T
  <2>1. QED BY <1>1, <1>4, <1>5, UpTo
<1>7. Filing(f[n], Filed(n)) /\ Filed(n) \subseteq w
  BY <1>1, <1>6
<1>8. QED BY <1>3, <1>7 DEF Filing

----------------------------------------------------------------------------
(***************************************************************************)
(* Fibers, workers and programs.                                           *)
(***************************************************************************)

\* What % and \div are.
LEMMA Division ==
  ASSUME NEW a \in Int, NEW b \in Nat \ {0}
  PROVE  /\ a \div b \in Int /\ a % b \in 0 .. b - 1
         /\ a = b * (a \div b) + (a % b)
OBVIOUS

\* ... and that nothing else is.
LEMMA DivUnique ==
  ASSUME NEW a \in Int, NEW b \in Nat \ {0}, NEW c \in Int, NEW r \in 0 .. b - 1,
         a = b * c + r
  PROVE  a \div b = c /\ a % b = r
<1> DEFINE d == a \div b
<1>1. d \in Int /\ a % b \in 0 .. b - 1 /\ a = b * d + (a % b)
  BY Division
<1> HIDE DEF d
<1>2. b * (d - c) = r - (a % b)
  BY <1>1
<1>3. ~(d > c)
  <2> SUFFICES ASSUME d - c >= 1 PROVE FALSE
    BY <1>1
  <2>1. b * (d - c) >= b
    BY <1>1
  <2>2. QED BY <1>1, <1>2, <2>1
<1>4. ~(c > d)
  <2> SUFFICES ASSUME c - d >= 1 PROVE FALSE
    BY <1>1
  <2>1. b * (c - d) >= b
    BY <1>1
  <2>2. b * (c - d) = (a % b) - r
    BY <1>1
  <2>3. QED BY <1>1, <2>1, <2>2
<1>5. d = c
  BY <1>1, <1>3, <1>4
<1>6. QED BY <1>1, <1>5 DEF d

\* service.py 75-102, 126-152: the program of the worker that get_worker_index
\* finds for a fiber was loaded for the fiber's device.
LEMMA ProgramLoaded ==
  ASSUME NEW t \in Topologies, NEW f \in Fibers(t)
  PROVE  ProgramDevice(t, get_worker_index(t, f)) = DeviceOf(t, f)
<1> DEFINE F == t.fibers
           W == t.workers
           q == F \div W
           r == f % q
           d == f \div F
           e == f % F
<1>1. F \in Nat \ {0} /\ W \in Nat \ {0} /\ t.devices \in Nat \ {0} /\ F % W = 0
  BY SdAssumption
<1>2. t.devices * F \in Int
  BY <1>1
<1>3. f \in Nat
  BY <1>2 DEF Fibers
<1> HIDE DEF F, W
<1>4. F = W * q /\ q \in Int
  BY <1>1, Division
<1>5. q \in Nat \ {0}
  BY <1>1, <1>4
<1>6. FibersPerWorker(t) = q
  BY DEF FibersPerWorker, F, W
<1> HIDE DEF q
<1>7. r \in 0 .. q - 1 /\ f \div q \in Int /\ f = q * (f \div q) + r
  BY <1>3, <1>5, Division
<1>8. d \in Int /\ e \in 0 .. F - 1 /\ f = F * d + e
  BY <1>1, <1>3, Division
<1> HIDE DEF d, e, r
<1>9. e \div q \in Int /\ e % q \in 0 .. q - 1 /\ e = q * (e \div q) + (e % q)
  <2>1. e \in Int
    BY <1>1, <1>8
  <2>2. QED BY <1>5, <2>1, Division
<1>10. (f - r) \div q = f \div q
  <2>0. r \in Int
    BY <1>5, <1>7
  <2>1. f - r = q * (f \div q) + 0 /\ f - r \in Int /\ 0 \in 0 .. q - 1
    BY <1>3, <1>5, <1>7, <2>0
  <2>2. QED BY <1>5, <1>7, <2>1, DivUnique
<1>11. r = e % q
  <2>1. f = q * (W * d + (e \div q)) + (e % q)
    <3>1. F * d = q * (W * d)
      BY <1>1, <1>4, <1>5, <1>8
    <3>2. W * d \in Int
      BY <1>1, <1>8
    <3>3. q * (W * d + (e \div q)) = q * (W * d) + q * (e \div q)
      BY <1>5, <1>9, <3>2
    <3>4. f = q * (W * d) + (q * (e \div q) + (e % q))
      BY <1>8, <1>9, <3>1
    <3> DEFINE x == q * (W * d)
               y == q * (e \div q)
    <3>5. x \in Int /\ y \in Int /\ e % q \in Int
      BY <1>5, <1>9, <3>2
    <3>6. q * (W * d + (e \div q)) = x + y /\ f = x + (y + (e % q))
      BY <3>3, <3>4
    <3> HIDE DEF x, y
    <3>7. QED BY <3>5, <3>6
  <2>2. W * d + (e \div q) \in Int
    BY <1>1, <1>8, <1>9
  <2>3. QED BY <1>3, <1>5, <1>9, <2>1, <2>2, DivUnique DEF r
<1>12. e - r \in 0 .. F - 1
  <2>1. e \div q >= 0
    <3> SUFFICES ASSUME e \div q <= -1 PROVE FALSE
      BY <1>9
    <3> DEFINE x == e \div q
    <3>1. x \in Int /\ x <= -1
      BY <1>9
    <3> HIDE DEF x
    <3>2. q * x <= q * (-1)
      BY <1>5, <3>1
    <3>3. QED BY <1>5, <1>8, <1>9, <3>2 DEF x
  <2>2. q * (e \div q) >= 0
    BY <1>5, <1>9, <2>1
  <2>3. QED BY <1>1, <1>5, <1>7, <1>8, <1>9, <1>11, <2>2
<1>13. (f \div q) * q = F * d + (e - r)
  BY <1>1, <1>3, <1>5, <1>7, <1>8
<1>14. ((f \div q) * q) \div F = d
  <2>1. (f \div q) * q \in Int
    BY <1>5, <1>7
  <2>2. QED BY <1>1, <1>8, <1>12, <1>13, <2>1, DivUnique
<1>15. get_worker_index(t, f) = f \div q
  BY <1>6, <1>10 DEF get_worker_index, r
<1>16. QED
  BY <1>6, <1>14, <1>15 DEF ProgramDevice, DeviceOf, F, d

----------------------------------------------------------------------------
(***************************************************************************)
(* The inductive invariant.  An image is where its state says: its request *)
(* is fed, then pending, then aloft, and once only; what is done stays so. *)
(***************************************************************************)
FlightRecords == [reqs : Seq(Images), fiber : Fibers(topology), stage : 1 .. 5, turn : Nat]

SdTypeOK ==
    /\ topology \in Topologies
    /\ DOMAIN request = Clients /\ DOMAIN response = Clients
    /\ client \in [Clients -> {"new", "generating", "over"}]
    /\ image \in [Images -> {"new", "launched", "waiting", "over"}]
    /\ done \in [Images -> BOOLEAN] /\ result \in [Images -> BOOLEAN]
    /\ infeed \in Seq(Images \cup {Strobing})
    /\ IsFiniteSet(pending) /\ pending \subseteq Images
    /\ idle \subseteq Fibers(topology) /\ flights \subseteq FlightRecords
    /\ strobes \in 0 .. 2 /\ faults \in Nat

Waits(i) == image[i] = "waiting" /\ ~done[i]
Fed(i) == \E k \in DOMAIN infeed : infeed[k] = i
Aloft(i) == \E x \in flights : i \in ToSet(x.reqs)

FedOnce == \A k, l \in DOMAIN infeed : infeed[k] = infeed[l] /\ infeed[k] # Strobing => k = l

OnePlaceEach ==
    \A i \in Images : /\ Fed(i) => Waits(i) /\ i \notin pending /\ ~Aloft(i)
                      /\ i \in pending => Waits(i) /\ ~Aloft(i)
                      /\ Waits(i) => Fed(i) \/ i \in pending \/ Aloft(i)

\* An image is in one flight, is not done before the flight has landed, and its
\* flight is a batch.
FlightsSound ==
    /\ \A x, y \in flights : ToSet(x.reqs) \cap ToSet(y.reqs) # {} => x = y
    /\ \A x \in flights :
          /\ Uniform(x.reqs)
          /\ \A i \in ToSet(x.reqs) : IF x.stage < 5 THEN Waits(i) ELSE done[i]

ImagesSound ==
    \A i \in Images : /\ image[i] = "over" => done[i]
                      /\ done[i] => image[i] \in {"waiting", "over"}
                      /\ client[i[1]] = "new" => image[i] = "new"
                      /\ faults = 0 /\ done[i] => result[i]

ClientsSound ==
    \A c \in Clients :
        \/ response[c] = << >>
        \/ /\ client[c] = "over" /\ \E S : response[c] = <<S>>
           /\ \A i \in ImagesOf(c) : image[i] = "over"
           /\ faults = 0 => response[c] = <<ImagesOf(c)>>

SdInv == /\ SdTypeOK /\ FedOnce /\ OnePlaceEach /\ FlightsSound /\ FibersExclusive
         /\ ImagesSound /\ ClientsSound

\* Where the requests stay, so do the images that they ask for, and what their
\* batches have in common.
LEMMA SameRequests ==
  ASSUME request' = request
  PROVE  /\ \A b : Uniform(b)' = Uniform(b)
         /\ \A c : ImagesOf(c)' = ImagesOf(c)
BY DEF Uniform, MetaOf, ExecRequest, ImagesOf

\* Fibers, topology and flights that stay as they are.
LEMMA SameFlights ==
  ASSUME SdInv, flights' = flights, idle' = idle, topology' = topology
  PROVE  FibersExclusive' /\ \A i : Aloft(i)' = Aloft(i)
BY DEF SdInv, FibersExclusive, Aloft

\* What a flight carries.
LEMMA FlightImages ==
  ASSUME SdTypeOK
  PROVE  \A x \in flights : x.reqs \in Seq(Images) /\ ToSet(x.reqs) \subseteq Images
BY DEF SdTypeOK, FlightRecords, ToSet

\* A request that post_init rejects leaves nothing behind.
LEMMA RequestRejectedKeeps ==
  ASSUME SdInv, NEW c \in Clients, RequestRejected(c) PROVE SdInv'
<1> USE DEF RequestRejected, work, feed, boarding
<1>1. SdTypeOK' /\ FedOnce'
  BY DEF SdInv, SdTypeOK, FlightRecords, FedOnce
<1>2. OnePlaceEach' /\ FlightsSound'
  BY SameRequests, SameFlights DEF SdInv, OnePlaceEach, FlightsSound, Fed, Waits
<1>3. ImagesSound' /\ ClientsSound'
  BY SameRequests DEF SdInv, SdTypeOK, ImagesSound, ClientsSound
<1>4. QED BY <1>1, <1>2, <1>3, SameFlights DEF SdInv

\* The images of a new client are in no place yet.
LEMMA ClientStartsKeeps ==
  ASSUME SdInv, NEW c \in Clients, ClientStarts(c) PROVE SdInv'
<1> USE DEF ClientStarts, feed, boarding
<1>1. SdTypeOK' /\ FedOnce'
  BY DEF SdInv, SdTypeOK, FlightRecords, FedOnce
<1>2. \A i \in Images : i[1] = c => image[i] = "new" /\ ~Waits(i) /\ ~done[i]
  BY DEF SdInv, ImagesSound, SdTypeOK, Waits
<1>3. \A i \in Images : i[1] # c => image'[i] = image[i] /\ MetaOf(i)' = MetaOf(i)
  BY DEF SdInv, SdTypeOK, ImagesOf, MetaOf, ExecRequest, Images
<1>4. \A i \in Images : i[1] = c => image'[i] \in {"new", "launched"}
  BY <1>2 DEF SdInv, SdTypeOK
<1>5. \A i \in Images : Waits(i)' = Waits(i)
  BY <1>2, <1>3, <1>4 DEF Waits
<1>6. OnePlaceEach'
  BY <1>5, SameFlights DEF SdInv, OnePlaceEach, Fed
<1>7. FlightsSound'
  <2>1. ASSUME NEW x \in flights PROVE Uniform(x.reqs)'
    <3>1. x.reqs \in Seq(Images) /\ Uniform(x.reqs)
      BY DEF SdInv, SdTypeOK, FlightRecords, FlightsSound
    <3>2. \A k \in DOMAIN x.reqs : x.reqs[k] \in Images /\ x.reqs[k][1] # c
      BY <1>2, <3>1 DEF SdInv, FlightsSound, ToSet
    <3>3. 1 \in DOMAIN x.reqs
      BY <3>1 DEF Uniform
    <3>4. \A k \in DOMAIN x.reqs : MetaOf(x.reqs[k])' = MetaOf(x.reqs[k])
      BY <1>3, <3>2 DEF MetaOf, ExecRequest
    <3>5. QED BY <3>1, <3>3, <3>4 DEF Uniform
  <2>2. QED BY <1>5, <2>1, FlightImages DEF SdInv, FlightsSound
<1>8. ImagesSound'
  BY <1>2, <1>3, <1>4 DEF SdInv, SdTypeOK, ImagesSound
<1>9. ClientsSound'
  <2>1. response[c] = << >>
    BY DEF SdInv, ClientsSound
  <2>2. ASSUME NEW d \in Clients, d # c
        PROVE  /\ ImagesOf(d)' = ImagesOf(d) /\ client'[d] = client[d]
               /\ \A i \in ImagesOf(d) : image'[i] = image[i]
    <3>1. ImagesOf(d)' = ImagesOf(d) /\ \A i \in ImagesOf(d) : i \in Images /\ i[1] # c
      BY <2>2 DEF SdInv, SdTypeOK, ImagesOf
    <3>2. QED BY <1>3, <2>2, <3>1 DEF SdInv, SdTypeOK
  <2>3. QED BY <2>1, <2>2 DEF SdInv, ClientsSound
<1>10. QED BY <1>1, <1>6, <1>7, <1>8, <1>9, SameFlights DEF SdInv

\* A launched image enters the infeed, and is nowhere else.
LEMMA ImageSubmitsKeeps ==
  ASSUME SdInv, NEW i \in Images, ImageSubmits(i) PROVE SdInv'
<1> USE DEF ImageSubmits, web, boarding
<1>1. infeed \in Seq(Images \cup {Strobing}) /\ i \in Images \cup {Strobing}
  BY DEF SdInv, SdTypeOK
<1>2. SdTypeOK'
  BY <1>1, AppendSet DEF SdInv, SdTypeOK, FlightRecords
<1>3. ~Waits(i) /\ ~done[i] /\ ~Fed(i) /\ i \notin pending /\ ~Aloft(i)
  <2>1. ~Waits(i)
    BY DEF Waits
  <2>2. ~done[i]
    BY DEF SdInv, ImagesSound
  <2>3. ~Aloft(i)
    BY <2>1, <2>2 DEF SdInv, FlightsSound, Aloft
  <2>4. QED BY <2>1, <2>2, <2>3 DEF SdInv, OnePlaceEach
<1>4. \A j : Fed(j)' <=> j = i \/ Fed(j)
  BY <1>1, AppendSet DEF Fed
<1>5. FedOnce'
  BY <1>1, <1>3, AppendSet DEF SdInv, FedOnce, Fed
<1>6. \A j \in Images : Waits(j)' <=> j = i \/ Waits(j)
  BY <1>3 DEF Waits, SdInv, SdTypeOK
<1>7. OnePlaceEach'
  BY <1>3, <1>4, <1>6, SameFlights DEF SdInv, OnePlaceEach
<1>8. FlightsSound'
  BY <1>3, <1>6, SameRequests, FlightImages DEF SdInv, FlightsSound
<1>9. ImagesSound'
  BY <1>3 DEF SdInv, SdTypeOK, ImagesSound
<1>10. ClientsSound'
  BY SameRequests DEF SdInv, SdTypeOK, ClientsSound, ImagesOf
<1>11. QED BY <1>2, <1>5, <1>7, <1>8, <1>9, <1>10, SameFlights DEF SdInv

\* An image process ends once its request is done.
LEMMA ImageEndsKeeps ==
  ASSUME SdInv, NEW i \in Images, ImageEnds(i) PROVE SdInv'
<1> USE DEF ImageEnds, web, feed, boarding
<1>1. SdTypeOK' /\ FedOnce'
  BY DEF SdInv, SdTypeOK, FlightRecords, FedOnce
<1>2. ~Waits(i) /\ done[i]
  BY DEF Waits
<1>3. \A j \in Images : Waits(j)' = Waits(j)
  BY <1>2 DEF Waits, SdInv, SdTypeOK
<1>4. OnePlaceEach' /\ FlightsSound'
  <2>1. OnePlaceEach'
    BY <1>3, SameFlights DEF SdInv, OnePlaceEach, Fed
  <2>2. FlightsSound'
    BY <1>3, SameRequests, FlightImages DEF SdInv, FlightsSound
  <2>3. QED BY <2>1, <2>2
<1>5. ImagesSound'
  BY <1>2 DEF SdInv, SdTypeOK, ImagesSound
<1>6. ClientsSound'
  BY SameRequests DEF SdInv, SdTypeOK, ClientsSound, ImagesOf
<1>7. QED BY <1>1, <1>4, <1>5, <1>6, SameFlights DEF SdInv

\* gather has ended: all images of the client are over, and the response names them.
LEMMA ClientEndsKeeps ==
  ASSUME SdInv, NEW c \in Clients, ClientEnds(c) PROVE SdInv'
<1> USE DEF ClientEnds, work, feed, boarding
<1>1. SdTypeOK' /\ FedOnce'
  BY DEF SdInv, SdTypeOK, FlightRecords, FedOnce
<1>2. OnePlaceEach' /\ FlightsSound'
  BY SameRequests, SameFlights DEF SdInv, OnePlaceEach, FlightsSound, Fed, Waits
<1>3. ImagesSound'
  BY DEF SdInv, SdTypeOK, ImagesSound
<1>4. /\ \A i \in ImagesOf(c) : i \in Images /\ image[i] = "over"
      /\ faults = 0 => \A i \in ImagesOf(c) : result[i]
  BY DEF SdInv, ImagesSound, AllOver, ImagesOf
<1>5. faults = 0 => {i \in ImagesOf(c) : result[i]} = ImagesOf(c)
  BY <1>4
<1>6. ClientsSound'
  BY <1>4, <1>5, SameRequests DEF SdInv, SdTypeOK, ClientsSound, Responses
<1>7. QED BY <1>1, <1>2, <1>3, <1>6, SameFlights DEF SdInv

\* A strobe is no request.
LEMMA StrobeKeeps ==
  ASSUME SdInv, Strobe PROVE SdInv'
<1> USE DEF Strobe, web, work, boarding
<1>1. infeed \in Seq(Images \cup {Strobing}) /\ Strobing \in Images \cup {Strobing}
  BY DEF SdInv, SdTypeOK
<1>2. SdTypeOK'
  BY <1>1, AppendSet DEF SdInv, SdTypeOK, FlightRecords
<1>3. \A i \in Images : i # Strobing
  BY DEF Strobing, Images
<1>4. FedOnce' /\ \A i \in Images : Fed(i)' = Fed(i)
  BY <1>1, <1>3, AppendSet DEF SdInv, FedOnce, Fed
<1>5. OnePlaceEach' /\ FlightsSound'
  BY <1>4, SameRequests, SameFlights DEF SdInv, OnePlaceEach, FlightsSound, Waits
<1>6. ImagesSound' /\ ClientsSound'
  BY SameRequests DEF SdInv, ImagesSound, ClientsSound
<1>7. QED BY <1>2, <1>4, <1>5, <1>6, SameFlights DEF SdInv

\* Closing, ending and stuttering.
LEMMA RestKeeps ==
  ASSUME SdInv, Shutdown \/ BatcherEnds \/ LoopCloses \/ UNCHANGED vars PROVE SdInv'
<1>1. UNCHANGED <<topology, request, client, response, work, infeed, pending, strobes, idle,
                  flights, faults>>
  BY DEF Shutdown, BatcherEnds, LoopCloses, vars, web, feed, boarding
<1>2. SdTypeOK' /\ FedOnce'
  BY <1>1 DEF SdInv, SdTypeOK, FlightRecords, FedOnce, work
<1>3. OnePlaceEach' /\ FlightsSound'
  BY <1>1, SameRequests, SameFlights DEF SdInv, OnePlaceEach, FlightsSound, Fed, Waits, work
<1>4. ImagesSound' /\ ClientsSound'
  BY <1>1, SameRequests DEF SdInv, ImagesSound, ClientsSound, work
<1>5. QED BY <1>1, <1>2, <1>3, <1>4, SameFlights DEF SdInv

----------------------------------------------------------------------------
\* A stage that moves on keeps what its flight carries.
LEMMA StageRunsKeeps ==
  ASSUME SdInv, NEW x \in flights, StageRuns(x) PROVE SdInv'
<1>1. x \in FlightRecords /\ x.stage < 4
  BY DEF SdInv, SdTypeOK, StageRuns
<1>2. UNCHANGED <<topology, request, client, response, image, done, result, infeed, pending,
                  strobes, idle, faults>>
  BY DEF StageRuns, web, work, feed, boarding
<1>3. PICK y : /\ flights' = (flights \ {x}) \cup {y}
               /\ y \in FlightRecords /\ y.reqs = x.reqs /\ y.fiber = x.fiber /\ y.stage < 5
  <2> DEFINE y == [x EXCEPT !.turn = @ + 1]
             z == [x EXCEPT !.stage = @ + 1, !.turn = 1]
  <2>1. flights' = (flights \ {x}) \cup {y} \/ flights' = (flights \ {x}) \cup {z}
    BY DEF StageRuns, MoveTo
  <2>2. y \in FlightRecords /\ y.reqs = x.reqs /\ y.fiber = x.fiber /\ y.stage < 5
    BY <1>1 DEF FlightRecords
  <2>3. z \in FlightRecords /\ z.reqs = x.reqs /\ z.fiber = x.fiber /\ z.stage < 5
    <3>1. x.stage \in 1 .. 3 /\ x.stage + 1 \in 1 .. 5
      BY <1>1 DEF FlightRecords
    <3>2. [x EXCEPT !.stage = x.stage + 1] \in FlightRecords
      BY <1>1, <3>1 DEF FlightRecords
    <3>3. z = [[x EXCEPT !.stage = x.stage + 1] EXCEPT !.turn = 1]
      BY <1>1 DEF FlightRecords
    <3>4. z.stage = x.stage + 1 /\ z.reqs = x.reqs /\ z.fiber = x.fiber
      BY <1>1, <3>3 DEF FlightRecords
    <3>5. z \in FlightRecords
      BY <3>2, <3>3 DEF FlightRecords
    <3>6. QED BY <3>1, <3>4, <3>5
  <2> HIDE DEF y, z
  <2>4. QED BY <2>1, <2>2, <2>3
<1>4. SdTypeOK' /\ FedOnce'
  BY <1>2, <1>3 DEF SdInv, SdTypeOK, FlightRecords, FedOnce
<1>5. \A i : Aloft(i)' = Aloft(i)
  BY <1>3 DEF Aloft
<1>6. OnePlaceEach'
  BY <1>2, <1>5 DEF SdInv, OnePlaceEach, Fed, Waits
<1>7. FlightsSound'
  <2>1. \A i : Waits(i)' = Waits(i)
    BY <1>2 DEF Waits
  <2>2. x.stage < 5
    BY <1>1 DEF FlightRecords
  <2>3. QED BY <1>2, <1>3, <2>1, <2>2, SameRequests DEF SdInv, FlightsSound
<1>8. FibersExclusive'
  BY <1>2, <1>3 DEF SdInv, FibersExclusive
<1>9. ImagesSound' /\ ClientsSound'
  BY <1>2, SameRequests DEF SdInv, ImagesSound, ClientsSound
<1>10. QED BY <1>4, <1>6, <1>7, <1>8, <1>9 DEF SdInv

\* A flight that ends, with or without an exception: its requests are done.
LEMMA DoneKeeps ==
  ASSUME SdInv, NEW x \in flights, x.stage < 5,
         UNCHANGED <<topology, request, client, response, image, infeed, pending, strobes, idle>>,
         NEW y, flights' = flights \ {x} \/ flights' = (flights \ {x}) \cup {y},
         y \in FlightRecords, y.reqs = x.reqs, y.fiber = x.fiber, y.stage = 5,
         done' = FailedDone(x), result' \in [Images -> BOOLEAN],
         \A i \in Images : result[i] => result'[i],
         faults' \in Nat, faults' = 0 => faults = 0 /\ \A i \in ToSet(x.reqs) : result'[i]
  PROVE  SdInv'
<1>1. x.reqs \in Seq(Images) /\ ToSet(x.reqs) \subseteq Images
  BY FlightImages DEF SdInv
<1>2. /\ done' \in [Images -> BOOLEAN]
      /\ \A i \in Images : done'[i] <=> done[i] \/ i \in ToSet(x.reqs)
  BY DEF SdInv, SdTypeOK, FailedDone
<1>3. \A i \in Images : Waits(i)' <=> Waits(i) /\ i \notin ToSet(x.reqs)
  BY <1>2 DEF Waits
<1>4. \A i \in ToSet(x.reqs) : Waits(i)
  BY DEF SdInv, FlightsSound
<1>5. SdTypeOK' /\ FedOnce'
  BY <1>2 DEF SdInv, SdTypeOK, FlightRecords, FedOnce
<1>6. OnePlaceEach'
  <2> SUFFICES ASSUME NEW i \in Images
               PROVE  /\ Fed(i)' => Waits(i)' /\ i \notin pending' /\ ~Aloft(i)'
                      /\ i \in pending' => Waits(i)' /\ ~Aloft(i)'
                      /\ Waits(i)' => Fed(i)' \/ i \in pending' \/ Aloft(i)'
    BY DEF OnePlaceEach
  <2>1. Fed(i)' = Fed(i)
    BY DEF Fed
  <2>2. Aloft(i)' => Aloft(i)
    BY DEF Aloft
  <2>3. i \notin ToSet(x.reqs) /\ Aloft(i) => Aloft(i)'
    BY DEF Aloft
  <2>4. i \in ToSet(x.reqs) => Aloft(i)
    BY DEF Aloft
  <2>5. QED BY <1>3, <2>1, <2>2, <2>3, <2>4 DEF SdInv, OnePlaceEach
<1>7. FlightsSound'
  <2>1. ASSUME NEW z \in flights, z # x, NEW i \in ToSet(z.reqs)
        PROVE  i \in Images /\ i \notin ToSet(x.reqs)
    BY <2>1, FlightImages DEF SdInv, FlightsSound
  <2>2. \A i \in ToSet(x.reqs) : i \in Images /\ done'[i]
    BY <1>1, <1>2
  <2>3. ASSUME NEW z \in flights, z # x, NEW i \in ToSet(z.reqs)
        PROVE  IF z.stage < 5 THEN Waits(i)' ELSE done'[i]
    BY <1>2, <1>3, <2>1, <2>3 DEF SdInv, FlightsSound
  <2>4. QED BY <2>1, <2>2, <2>3, SameRequests DEF SdInv, FlightsSound
<1>8. FibersExclusive'
  BY DEF SdInv, FibersExclusive
<1>9. ImagesSound'
  BY <1>2, <1>4 DEF SdInv, ImagesSound, Waits
<1>10. ClientsSound'
  BY SameRequests DEF SdInv, ClientsSound
<1>11. QED BY <1>5, <1>6, <1>7, <1>8, <1>9, <1>10 DEF SdInv

\* _postprocess: the results are set with the requests' done.
LEMMA FlightLandsKeeps ==
  ASSUME SdInv, NEW x \in flights, FlightLands(x) PROVE SdInv'
<1> DEFINE y == [x EXCEPT !.stage = 5]
<1>1. x \in FlightRecords /\ x.stage = 4
  BY DEF SdInv, SdTypeOK, FlightLands
<1>2. y \in FlightRecords /\ y.reqs = x.reqs /\ y.fiber = x.fiber /\ y.stage = 5
  BY <1>1 DEF FlightRecords
<1>3. UNCHANGED <<topology, request, client, response, image, infeed, pending, strobes, idle,
                  faults>>
  BY DEF FlightLands, web, feed, boarding
<1>4. /\ flights' = (flights \ {x}) \cup {y} /\ done' = FailedDone(x)
      /\ result' = [i \in Images |-> result[i] \/ i \in ToSet(x.reqs)]
  BY DEF FlightLands, FailedDone, MoveTo
<1>5. /\ result' \in [Images -> BOOLEAN] /\ \A i \in Images : result[i] => result'[i]
      /\ \A i \in ToSet(x.reqs) : result'[i]
  BY <1>4, FlightImages DEF SdInv
<1>6. faults \in Nat
  BY DEF SdInv, SdTypeOK
<1> HIDE DEF y
<1>7. QED BY <1>1, <1>2, <1>3, <1>4, <1>5, <1>6, DoneKeeps

\* PrepareFails and FlightFails: an exception leaves the fiber out.
LEMMA FailsKeeps ==
  ASSUME SdInv, NEW x \in flights, NEW S, x.stage < 5, Fails(x, S) PROVE SdInv'
<1> DEFINE y == [x EXCEPT !.stage = 5]
<1>1. x \in FlightRecords
  BY DEF SdInv, SdTypeOK
<1>2. y \in FlightRecords /\ y.reqs = x.reqs /\ y.fiber = x.fiber /\ y.stage = 5
  BY <1>1 DEF FlightRecords
<1>3. UNCHANGED <<topology, request, client, response, image, infeed, pending, strobes, idle>>
  BY DEF Fails, web, feed, boarding
<1>4. /\ flights' = flights \ {x} /\ done' = FailedDone(x) /\ faults' = faults + 1
      /\ result' = [i \in Images |-> result[i] \/ i \in S]
  BY DEF Fails
<1>5. result' \in [Images -> BOOLEAN] /\ \A i \in Images : result[i] => result'[i]
  BY <1>4
<1>6. faults' \in Nat /\ faults' # 0
  BY <1>4 DEF SdInv, SdTypeOK
<1> HIDE DEF y
<1>7. QED BY <1>2, <1>3, <1>4, <1>5, <1>6, DoneKeeps

\* return_fiber: the flight that held the fiber is gone.
LEMMA ReturnFiberKeeps ==
  ASSUME SdInv, NEW x \in flights, ReturnFiber(x) PROVE SdInv'
<1> USE DEF ReturnFiber, web, work, feed, boarding
<1>1. x.stage = 5 /\ flights' = flights \ {x} /\ x.fiber \in Fibers(topology)
  BY DEF SdInv, SdTypeOK, FlightRecords
<1>2. SdTypeOK' /\ FedOnce'
  BY <1>1 DEF SdInv, SdTypeOK, FlightRecords, FedOnce, FiberReturned
<1>3. \A i \in Images : (Waits(i)' = Waits(i)) /\ (Fed(i)' = Fed(i))
  BY DEF Waits, Fed
<1>4. \A i \in Images : Waits(i) => i \notin ToSet(x.reqs)
  BY <1>1 DEF SdInv, FlightsSound, Waits
<1>5. \A i \in Images : (Aloft(i)' => Aloft(i)) /\ (Waits(i) /\ Aloft(i) => Aloft(i)')
  BY <1>1, <1>4 DEF Aloft
<1>6. OnePlaceEach'
  BY <1>3, <1>5 DEF SdInv, OnePlaceEach
<1>7. FlightsSound'
  BY <1>1, <1>3, SameRequests, FlightImages DEF SdInv, FlightsSound
<1>8. FibersExclusive'
  BY <1>1 DEF SdInv, FibersExclusive, FiberReturned
<1>9. ImagesSound' /\ ClientsSound'
  BY SameRequests DEF SdInv, ImagesSound, ClientsSound
<1>10. QED BY <1>2, <1>6, <1>7, <1>8, <1>9 DEF SdInv

----------------------------------------------------------------------------
\* Fibers are finitely many, so the batches that board are among those sorted.
LEMMA AssignmentsFit ==
  ASSUME SdTypeOK, NEW n \in Nat, NEW g \in Assignments(n)
  PROVE  \E k \in 0 .. n : g \in [1 .. k -> idle] /\ (PerFiber => IsInjective(g))
<1> DEFINE c == Cardinality(idle)
           k == IF PerFiber THEN Min({n, c}) ELSE IF idle = {} THEN 0 ELSE n
<1>1. IsFiniteSet(Fibers(topology))
  <2>1. topology.devices \in Nat /\ topology.fibers \in Nat
    BY SdAssumption DEF SdTypeOK
  <2>2. 0 \in Int /\ topology.devices * topology.fibers - 1 \in Int
    BY <2>1
  <2>3. QED BY <2>2, FS_Interval DEF Fibers
<1>2. c \in Nat
  BY <1>1, FS_Subset, FS_CardinalityType DEF SdTypeOK
<1>3. k \in 0 .. n
  <2> HIDE DEF c
  <2>1. {n, c} \in SUBSET Nat /\ {n, c} # {}
    BY <1>2
  <2> DEFINE m == Min({n, c})
  <2>2. m \in {n, c} /\ m <= n
    BY <2>1, MinIn
  <2> HIDE DEF m
  <2>3. m \in 0 .. n
    BY <1>2, <2>2
  <2>4. QED BY <2>3 DEF m
<1>4. g \in [1 .. k -> idle] /\ (PerFiber => IsInjective(g))
  BY DEF Assignments
<1>5. QED BY <1>3, <1>4

\* board_flights, with the requests in w: the flights that leave are batches of
\* these requests, on fibers that were idle, and what is left is pending.
LEMMA Boarded ==
  ASSUME SdInv, NEW w, w \subseteq Images, IsFiniteSet(w), NEW s \in 0 .. 2,
         BoardFlights(w, s)
  PROVE  /\ strobes' \in 0 .. 2 /\ idle' \subseteq idle
         /\ pending' \subseteq w /\ IsFiniteSet(pending')
         /\ \E N \in SUBSET FlightRecords :
               /\ flights' = flights \cup N
               /\ \A x \in N : x.stage = 1 /\ Uniform(x.reqs) /\ ToSet(x.reqs) \subseteq w
               /\ \A x, y \in N : ToSet(x.reqs) \cap ToSet(y.reqs) # {} => x = y
               /\ \A i \in w : i \in pending' <=> ~ \E x \in N : i \in ToSet(x.reqs)
               /\ PerFiber => /\ \A x \in N : x.fiber \in idle /\ x.fiber \notin idle'
                              /\ \A x, y \in N : x.fiber = y.fiber => x = y
<1>1. CASE w = {} \/ (Cardinality(w) < IdealBatch /\ s < 2)
  <2>1. pending' = w /\ strobes' = s /\ idle' = idle /\ flights' = flights \cup {}
    BY <1>1 DEF BoardFlights
  <2> DEFINE N == {}
  <2>2. /\ N \in SUBSET FlightRecords /\ flights' = flights \cup N
        /\ \A x : x \notin N
    BY <2>1
  <2> HIDE DEF N
  <2>3. QED BY <2>1, <2>2
<1>2. CASE ~(w = {} \/ (Cardinality(w) < IdealBatch /\ s < 2))
  <2>1. PICK order \in SetToSeqs(w) : \E bs \in {sort_batches(order)} :
           \E g \in Assignments(Len(bs)) :
                /\ strobes' = 0
                /\ pending' = w \ UNION {ToSet(bs[k]) : k \in DOMAIN g}
                /\ idle' = StillIdle(g)
                /\ flights' = flights \cup {Flight(bs[k], g[k]) : k \in DOMAIN g}
    BY <1>2 DEF BoardFlights
  <2> DEFINE bs == sort_batches(order)
  <2>0. PICK g \in Assignments(Len(bs)) :
                /\ strobes' = 0
                /\ pending' = w \ UNION {ToSet(bs[k]) : k \in DOMAIN g}
                /\ idle' = StillIdle(g)
                /\ flights' = flights \cup {Flight(bs[k], g[k]) : k \in DOMAIN g}
    BY <2>1
  <2>2. Filing(bs, w)
    BY <2>1, SortKeeps
  <2> HIDE DEF bs
  <2>3. bs \in Batches /\ Len(bs) \in Nat /\ DOMAIN bs = 1 .. Len(bs)
    BY <2>2 DEF Filing, Batches
  <2>4. PICK n \in 0 .. Len(bs) : g \in [1 .. n -> idle] /\ (PerFiber => IsInjective(g))
    BY <2>3, AssignmentsFit DEF SdInv
  <2> DEFINE D == DOMAIN g
             N == {Flight(bs[k], g[k]) : k \in D}
  <2>5. D \subseteq DOMAIN bs /\ \A k \in D : g[k] \in idle
    BY <2>3, <2>4
  <2>6. /\ \A k \in D : /\ bs[k] \in Seq(Images) /\ Uniform(bs[k])
                        /\ ToSet(bs[k]) \subseteq w
        /\ \A k, l \in D : ToSet(bs[k]) \cap ToSet(bs[l]) # {} => k = l
    BY <2>2, <2>3, <2>5 DEF Filing, Batches
  <2>7. PerFiber => \A k, l \in D : g[k] = g[l] => k = l
    BY <2>4 DEF IsInjective
  <2>8. idle' \subseteq idle /\ (PerFiber => \A k \in D : g[k] \notin idle')
    BY <2>0 DEF StillIdle, Range
  <2>9. pending' \subseteq w /\ IsFiniteSet(pending')
    BY <2>0, FS_Subset
  <2>10. \A i \in w : i \in pending' <=> ~ \E k \in D : i \in ToSet(bs[k])
    BY <2>0
  <2>11. flights' = flights \cup N /\ strobes' \in 0 .. 2
    BY <2>0
  <2> HIDE DEF D
  <2>12. \A k \in D : /\ Flight(bs[k], g[k]) \in FlightRecords
                      /\ Flight(bs[k], g[k]).reqs = bs[k] /\ Flight(bs[k], g[k]).fiber = g[k]
                      /\ Flight(bs[k], g[k]).stage = 1
    BY <2>5, <2>6 DEF SdInv, SdTypeOK, Flight, FlightRecords
  <2>13. /\ N \in SUBSET FlightRecords
         /\ \A x \in N : x.stage = 1 /\ Uniform(x.reqs) /\ ToSet(x.reqs) \subseteq w
         /\ \A x, y \in N : ToSet(x.reqs) \cap ToSet(y.reqs) # {} => x = y
         /\ \A i \in w : i \in pending' <=> ~ \E x \in N : i \in ToSet(x.reqs)
    BY <2>6, <2>10, <2>12
  <2>14. PerFiber => /\ \A x \in N : x.fiber \in idle /\ x.fiber \notin idle'
                     /\ \A x, y \in N : x.fiber = y.fiber => x = y
    BY <2>5, <2>7, <2>8, <2>12
  <2> HIDE DEF N
  <2>15. QED BY <2>8, <2>9, <2>11, <2>13, <2>14
<1>3. QED BY <1>1, <1>2

\* One turn of the batcher: the request that it reads is the only one of its
\* kind, and is pending or aloft afterwards.
LEMMA BatcherReadsKeeps ==
  ASSUME SdInv, BatcherReads PROVE SdInv'
<1> DEFINE h == Head(infeed)
           w == IF h = Strobing THEN pending ELSE pending \cup {h}
           s == IF h = Strobing THEN Min({strobes + 1, 2}) ELSE strobes
<1>1. /\ infeed # << >> /\ infeed' = Tail(infeed) /\ BoardFlights(w, s)
      /\ UNCHANGED <<topology, request, client, response, image, done, result, faults>>
  BY DEF BatcherReads, web, work
<1>2. /\ infeed \in Seq(Images \cup {Strobing}) /\ pending \subseteq Images
      /\ IsFiniteSet(pending) /\ strobes \in 0 .. 2
  BY DEF SdInv, SdTypeOK
<1>3. /\ h \in Images \cup {Strobing} /\ h = infeed[1] /\ 1 \in DOMAIN infeed
      /\ infeed' \in Seq(Images \cup {Strobing})
      /\ \A k \in DOMAIN infeed' : /\ k + 1 \in DOMAIN infeed /\ k + 1 # 1
                                   /\ infeed'[k] = infeed[k + 1]
      /\ \A k \in DOMAIN infeed : k # 1 => k - 1 \in DOMAIN infeed' /\ (k - 1) + 1 = k
  BY <1>1, <1>2
<1>4. s \in 0 .. 2
  <2>1. {strobes + 1, 2} \in SUBSET Nat
    BY <1>2
  <2>2. Min({strobes + 1, 2}) \in {strobes + 1, 2} /\ Min({strobes + 1, 2}) <= 2
    BY <2>1, MinIn
  <2> DEFINE m == Min({strobes + 1, 2})
  <2> HIDE DEF m
  <2>3. m \in 0 .. 2
    BY <1>2, <2>2 DEF m
  <2>4. QED BY <1>2, <2>3 DEF m
<1>5. w \subseteq Images /\ IsFiniteSet(w)
  BY <1>2, <1>3, FS_AddElement
<1>6. FedOnce' /\ (\A i \in Images : Fed(i)' <=> Fed(i) /\ i # h)
  <2>1. FedOnce'
    BY <1>3 DEF SdInv, FedOnce
  <2>2. \A i \in Images : i # Strobing
    BY DEF Strobing, Images
  <2>3. ASSUME NEW i \in Images PROVE Fed(i)' <=> Fed(i) /\ i # h
    BY <1>3, <2>2 DEF SdInv, FedOnce, Fed
  <2>4. QED BY <2>1, <2>3
<1>7. \A i \in Images : i = h => Fed(i)
  BY <1>3 DEF Fed
<1>8. \A i \in w : Waits(i) /\ ~Aloft(i) /\ i \in Images
  BY <1>2, <1>3, <1>5, <1>7 DEF SdInv, OnePlaceEach
<1>9. \A i \in Images : i \in w <=> i \in pending \/ (i = h /\ h # Strobing)
  OBVIOUS
<1>10. \A i \in Images : i # Strobing
  BY DEF Strobing, Images
<1> HIDE DEF h, w, s
<1>11. PICK N \in SUBSET FlightRecords :
             /\ flights' = flights \cup N
             /\ \A x \in N : x.stage = 1 /\ Uniform(x.reqs) /\ ToSet(x.reqs) \subseteq w
             /\ \A x, y \in N : ToSet(x.reqs) \cap ToSet(y.reqs) # {} => x = y
             /\ \A i \in w : i \in pending' <=> ~ \E x \in N : i \in ToSet(x.reqs)
             /\ PerFiber => /\ \A x \in N : x.fiber \in idle /\ x.fiber \notin idle'
                            /\ \A x, y \in N : x.fiber = y.fiber => x = y
  BY <1>1, <1>4, <1>5, Boarded
<1>12. /\ strobes' \in 0 .. 2 /\ idle' \subseteq idle
       /\ pending' \subseteq w /\ IsFiniteSet(pending')
  BY <1>1, <1>4, <1>5, Boarded
<1>13. SdTypeOK'
  <2>1. FlightRecords' = FlightRecords /\ flights \subseteq FlightRecords
    BY <1>1 DEF FlightRecords, SdInv, SdTypeOK
  <2>2. QED BY <1>1, <1>3, <1>5, <1>11, <1>12, <2>1 DEF SdInv, SdTypeOK
<1>14. \A i : Aloft(i)' <=> Aloft(i) \/ \E x \in N : i \in ToSet(x.reqs)
  BY <1>11 DEF Aloft
<1>15. OnePlaceEach'
  <2>1. \A i : Waits(i)' = Waits(i)
    BY <1>1 DEF Waits
  <2>2. ASSUME NEW i \in Images
        PROVE  /\ Fed(i)' => Waits(i)' /\ i \notin pending' /\ ~Aloft(i)'
               /\ i \in pending' => Waits(i)' /\ ~Aloft(i)'
               /\ Waits(i)' => Fed(i)' \/ i \in pending' \/ Aloft(i)'
    <3>1. /\ Fed(i) => Waits(i) /\ i \notin pending /\ ~Aloft(i)
          /\ i \in pending => Waits(i) /\ ~Aloft(i)
          /\ Waits(i) => Fed(i) \/ i \in pending \/ Aloft(i)
      BY DEF SdInv, OnePlaceEach
    <3>2. i \notin w => ~ \E x \in N : i \in ToSet(x.reqs)
      BY <1>11
    <3>3. CASE i \in w
      BY <1>6, <1>8, <1>9, <1>11, <1>12, <1>14, <2>1, <3>1, <3>3
    <3>4. CASE i \notin w
      BY <1>6, <1>9, <1>10, <1>12, <1>14, <2>1, <3>1, <3>2, <3>4
    <3>5. QED BY <3>3, <3>4
  <2>3. QED BY <2>2 DEF OnePlaceEach
<1>16. FlightsSound'
  <2>1. \A i : Waits(i)' = Waits(i)
    BY <1>1 DEF Waits
  <2>2. \A x \in N : x.stage = 1 /\ Uniform(x.reqs) /\ \A i \in ToSet(x.reqs) : Waits(i)
    BY <1>8, <1>11
  <2>3. \A x \in N, y \in flights : ToSet(x.reqs) \cap ToSet(y.reqs) = {}
    BY <1>8, <1>11 DEF Aloft
  <2>4. \A x, y \in flights' : ToSet(x.reqs) \cap ToSet(y.reqs) # {} => x = y
    BY <1>11, <2>3 DEF SdInv, FlightsSound
  <2>5. \A x \in flights' : /\ Uniform(x.reqs)
                            /\ \A i \in ToSet(x.reqs) : IF x.stage < 5 THEN Waits(i) ELSE done[i]
    BY <1>11, <2>2 DEF SdInv, FlightsSound
  <2>6. \A x \in flights' : Uniform(x.reqs)'
    BY <1>1, <2>5, SameRequests
  <2>7. QED BY <1>1, <2>1, <2>4, <2>5, <2>6 DEF FlightsSound
<1>17. FibersExclusive'
  <2>1. ASSUME NEW x \in N
        PROVE  ProgramDevice(topology, get_worker_index(topology, x.fiber))
                   = DeviceOf(topology, x.fiber)
    <3>1. topology \in Topologies /\ x.fiber \in Fibers(topology)
      BY DEF SdInv, SdTypeOK, FlightRecords
    <3>2. QED BY <3>1, ProgramLoaded
  <2>2. QED BY <1>1, <1>11, <1>12, <2>1 DEF SdInv, FibersExclusive
<1>18. ImagesSound' /\ ClientsSound'
  BY <1>1, SameRequests DEF SdInv, ImagesSound, ClientsSound
<1>19. QED BY <1>6, <1>13, <1>15, <1>16, <1>17, <1>18 DEF SdInv

----------------------------------------------------------------------------
\* The service starts with every fiber idle and no requests.
LEMMA InitKeeps ==
  ASSUME Init PROVE SdInv
<1> USE DEF Init
<1>1. SdTypeOK
  BY FS_EmptySet DEF SdTypeOK
<1>2. FedOnce /\ OnePlaceEach /\ FlightsSound
  BY DEF FedOnce, OnePlaceEach, FlightsSound, Fed, Waits, Aloft
<1>3. FibersExclusive
  BY DEF FibersExclusive
<1>4. ImagesSound /\ ClientsSound
  BY DEF ImagesSound, ClientsSound, Images
<1>5. QED BY <1>1, <1>2, <1>3, <1>4 DEF SdInv

\* Every step of the service keeps the invariant.
LEMMA NextKeeps ==
  ASSUME SdInv, [Next]_vars PROVE SdInv'
<1>1. ASSUME NEW c \in Clients, RequestRejected(c) \/ ClientStarts(c) \/ ClientEnds(c)
      PROVE  SdInv'
  BY <1>1, RequestRejectedKeeps, ClientStartsKeeps, ClientEndsKeeps
<1>2. ASSUME NEW i \in Images, ImageSubmits(i) \/ ImageEnds(i) PROVE SdInv'
  BY <1>2, ImageSubmitsKeeps, ImageEndsKeeps
<1>3. ASSUME NEW x \in flights, Progress(x) PROVE SdInv'
  <2>1. CASE PrepareFails(x)
    BY <2>1, FailsKeeps DEF PrepareFails
  <2>2. QED BY <1>3, <2>1, StageRunsKeeps, FlightLandsKeeps, ReturnFiberKeeps DEF Progress
<1>4. ASSUME NEW x \in flights, NEW k \in 0 .. Len(x.reqs) - 1, FlightFails(x, k) PROVE SdInv'
  <2> DEFINE S == {x.reqs[n] : n \in 1 .. k}
  <2>1. x.stage \in 1 .. 5
    BY DEF SdInv, SdTypeOK, FlightRecords
  <2>2. x.stage <= 4 /\ Fails(x, S)
    BY <1>4 DEF FlightFails
  <2> HIDE DEF S
  <2>3. x.stage < 5
    BY <2>1, <2>2
  <2>4. QED BY <2>2, <2>3, FailsKeeps
<1>5. QED
  BY <1>1, <1>2, <1>3, <1>4, StrobeKeeps, BatcherReadsKeeps, RestKeeps DEF Next, ProcessSteps

\* The inductive invariant holds throughout.
LEMMA SdInvariant == Spec => []SdInv
BY InitKeeps, NextKeeps, PTL DEF Spec

\* The service's variables have their types: every flight carries requests for
\* images, on a fiber that the topology has.
THEOREM SdTypes == Spec => []SdTypeOK
<1>1. SdInv => SdTypeOK
  BY DEF SdInv
<1>2. QED BY <1>1, SdInvariant, PTL

\* service.py 214-335: with the programs isolated per fiber a batch has its fiber
\* to itself, and its worker has the program of the fiber's device; a batch shares
\* its metadata and fits an entry point; a request that waits is in the infeed, in
\* pending_requests or in one batch, and there only.
THEOREM Dispatches == Spec => []DispatchSound
<1>1. ASSUME SdInv PROVE DispatchSound
  <2>1. ASSUME NEW x \in flights
        PROVE  /\ Len(x.reqs) <= IdealBatch
               /\ \A k \in DOMAIN x.reqs : MetaOf(x.reqs[k]) = MetaOf(x.reqs[1])
    BY <1>1, SdAssumption DEF SdInv, FlightsSound, Uniform
  <2>2. ASSUME NEW i \in Images, Waits(i)
        PROVE  Cardinality(Aboard(i)) + Cardinality({i} \cap pending)
                   + Cardinality({k \in DOMAIN infeed : infeed[k] = i}) = 1
    <3> DEFINE A == Aboard(i)
               P == {i} \cap pending
               F == {k \in DOMAIN infeed : infeed[k] = i}
    <3>1. /\ Fed(i) => i \notin pending /\ ~Aloft(i)
          /\ i \in pending => ~Aloft(i)
          /\ Fed(i) \/ i \in pending \/ Aloft(i)
      BY <1>1, <2>2 DEF SdInv, OnePlaceEach
    <3>2. ~Aloft(i) => A = {}
      BY DEF Aboard, Aloft
    <3>3. Aloft(i) => \E x : A = {x}
      BY <1>1, <2>2 DEF SdInv, FlightsSound, Aboard, Aloft, Waits
    <3>4. (i \in pending => P = {i}) /\ (i \notin pending => P = {})
      OBVIOUS
    <3>5. ~Fed(i) => F = {}
      BY DEF Fed
    <3>6. Fed(i) => \E k : F = {k}
      <4>1. i # Strobing
        BY DEF Strobing, Images
      <4>2. QED BY <1>1, <4>1 DEF SdInv, FedOnce, Fed
    <3> HIDE DEF A, P, F
    <3>7. /\ Cardinality(A) = IF Aloft(i) THEN 1 ELSE 0
          /\ Cardinality(P) = IF i \in pending THEN 1 ELSE 0
          /\ Cardinality(F) = IF Fed(i) THEN 1 ELSE 0
      BY <3>2, <3>3, <3>4, <3>5, <3>6, FS_EmptySet, FS_Singleton
    <3>8. Cardinality(A) + Cardinality(P) + Cardinality(F) = 1
      BY <3>1, <3>7
    <3>9. QED BY <3>8 DEF A, P, F
  <2>3. QED BY <1>1, <2>1, <2>2 DEF DispatchSound, BatchesSound, SdInv, Waits
<1>2. QED BY <1>1, SdInvariant, PTL

\* generate.py 66-124: a client gets one response at most, when all of its images
\* are done, and without a failure all of them are in it.
THEOREM Responds == Spec => []RespondedOnce
<1>1. ASSUME SdInv, NEW c \in Clients
      PROVE  /\ Len(response[c]) <= 1
             /\ response[c] # << >> => \A i \in ImagesOf(c) : done[i]
             /\ response[c] # << >> /\ faults = 0 => response[c] = <<ImagesOf(c)>>
  <2>1. CASE response[c] = << >>
    BY <2>1
  <2>2. CASE response[c] # << >>
    <3>1. PICK S : response[c] = <<S>>
      BY <1>1, <2>2 DEF SdInv, ClientsSound
    <3>2. Len(response[c]) = 1
      BY <3>1
    <3>3. \A i \in ImagesOf(c) : i \in Images /\ image[i] = "over"
      BY <1>1, <2>2 DEF SdInv, ClientsSound, ImagesOf
    <3>4. faults = 0 => response[c] = <<ImagesOf(c)>>
      BY <1>1, <2>2 DEF SdInv, ClientsSound
    <3>5. \A i \in ImagesOf(c) : done[i]
      BY <1>1, <3>3 DEF SdInv, ImagesSound
    <3>6. QED BY <3>2, <3>4, <3>5
  <2>3. QED BY <2>1, <2>2
<1>2. SdInv => RespondedOnce
  BY <1>1 DEF RespondedOnce
<1>3. QED BY <1>2, SdInvariant, PTL
=============================================================================
