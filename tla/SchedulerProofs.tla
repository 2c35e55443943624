--------------------------- MODULE SchedulerProofs ---------------------------
(***************************************************************************)
(* Proofs about Scheduler, for any numbers of queues, buffers, operations, *)
(* invocations, waits and failures.                                          *)
(***************************************************************************)
EXTENDS Scheduler, ProofLemmas

----------------------------------------------------------------------------
(***************************************************************************)
(* Fences.                                                                 *)
(***************************************************************************)
LEMMA MaxOfTwo ==
  ASSUME NEW a \in Nat, NEW b \in Nat
  PROVE  Max({a, b}) \in Nat /\ a <= Max({a, b}) /\ b <= Max({a, b})
<1>1. \E m \in {a, b} : \A t \in {a, b} : m >= t
  <2>1. CASE a <= b
    BY <2>1
  <2>2. CASE b <= a
    BY <2>2
  <2>3. QED BY <2>1, <2>2
<1>2. Max({a, b}) \in {a, b} /\ \A t \in {a, b} : Max({a, b}) >= t
  BY <1>1 DEF Max
<1>3. QED BY <1>2

LEMMA JoinFence ==
  ASSUME NEW f \in Fences, NEW g \in Fences
  PROVE  /\ Join(f, g) \in Fences
         /\ \A q \in Queues : f[q] <= Join(f, g)[q] /\ g[q] <= Join(f, g)[q]
<1>1. ASSUME NEW q \in Queues
      PROVE  /\ Max({f[q], g[q]}) \in Nat
             /\ f[q] <= Max({f[q], g[q]}) /\ g[q] <= Max({f[q], g[q]})
  BY MaxOfTwo DEF Fences
<1>2. QED BY <1>1 DEF Fences, Join

LEMMA AtFence ==
  ASSUME NEW q \in Queues, NEW t \in Nat
  PROVE  At(q, t) \in Fences /\ At(q, t)[q] = t
BY DEF At, NoFence, Fences

\* The mutations of a call's arguments, together, are a fence.
LEMMA ArgumentsFence ==
  ASSUME NEW args \in Arguments, mutation \in [Buffers -> Fences]
  PROVE  [q \in Queues |-> Max({mutation[b][q] : b \in args})] \in Fences
<1>1. args # {} /\ args \subseteq Buffers /\ IsFiniteSet(args)
  BY SchedulerAssumption DEF Buffers
<1>2. ASSUME NEW q \in Queues PROVE Max({mutation[b][q] : b \in args}) \in Nat
  <2> DEFINE S == {mutation[b][q] : b \in args}
  <2>1. S \in SUBSET Nat /\ S # {}
    BY <1>1 DEF Fences
  <2>2. IsFiniteSet(S)
    <3> DEFINE f == [b \in args |-> mutation[b][q]]
    <3>1. f \in [args -> S] /\ \A s \in S : \E b \in args : f[b] = s
      OBVIOUS
    <3>2. f \in Surjection(args, S)
      BY <3>1 DEF Surjection
    <3>3. QED BY <1>1, <3>2, FS_Surjection DEF ExistsSurjection
  <2> HIDE DEF S
  <2>3. PICK m \in S : \A t \in S : t <= m
    BY <2>1, <2>2, GreatestNat
  <2>4. \A t \in S : m >= t
    BY <2>1, <2>3
  <2>5. Max(S) \in S
    BY <2>3, <2>4 DEF Max
  <2>6. QED BY <2>1, <2>5 DEF S
<1>3. QED BY <1>2 DEF Fences

----------------------------------------------------------------------------
(***************************************************************************)
(* Flushes.                                                                *)
(***************************************************************************)

\* The accounts of a flush are listed once each.
LEMMA DueAccounts ==
  ASSUME NEW act \in [Queues -> SUBSET Fences]
  PROVE  /\ Due(act) \in Seq(Queues)
         /\ \A i \in DOMAIN Due(act) : act[Due(act)[i]] # {}
         /\ \A i, j \in DOMAIN Due(act) : Due(act)[i] = Due(act)[j] => i = j
<1> DEFINE due == {a \in Queues : act[a] # {}}
<1>1. due \in SUBSET Nat /\ IsFiniteSet(due) /\ due \subseteq Queues
  <2>1. due \in SUBSET Queues
    OBVIOUS
  <2>2. IsFiniteSet(due)
    BY <2>1, SchedulerAssumption, FS_Subset
  <2>3. QED BY <2>1, <2>2, SchedulerAssumption
<1>2. \A i \in due : act[i] # {}
  OBVIOUS
<1>3. Due(act) = CHOOSE s \in [1 .. Cardinality(due) -> due] :
                    \A i, j \in DOMAIN s : i < j => s[i] < s[j]
  BY DEF Due
<1>4. Cardinality(due) \in Nat
  BY <1>1, FS_CardinalityType
<1> HIDE DEF due
<1>5. \E s \in [1 .. Cardinality(due) -> due] : \A i, j \in DOMAIN s : i < j => s[i] < s[j]
  BY <1>1, Listing DEF Ascends
<1>6. /\ Due(act) \in [1 .. Cardinality(due) -> due]
      /\ \A i, j \in DOMAIN Due(act) : i < j => Due(act)[i] < Due(act)[j]
  BY <1>3, <1>5
<1>7. Due(act) \in Seq(Queues)
  <2>1. Due(act) \in [1 .. Cardinality(due) -> Queues]
    BY <1>1, <1>6
  <2>2. QED BY <1>4, <2>1
<1>8. ASSUME NEW i \in DOMAIN Due(act), NEW j \in DOMAIN Due(act), Due(act)[i] = Due(act)[j]
      PROVE  i = j
  <2> DEFINE d == Due(act)
  <2>0. d \in [1 .. Cardinality(due) -> due]
    BY <1>6
  <2>1. i \in Int /\ j \in Int /\ d[i] \in Nat
    <3>1. DOMAIN d = 1 .. Cardinality(due)
      BY <2>0
    <3>2. i \in 1 .. Cardinality(due) /\ j \in 1 .. Cardinality(due)
      BY <3>1
    <3>3. d[i] \in due
      BY <2>0, <3>2
    <3>4. i \in Int /\ j \in Int
      BY <1>4, <3>2
    <3>5. QED BY <1>1, <3>3, <3>4
  <2>2. ~(i < j) /\ ~(j < i)
    BY <1>6, <1>8, <2>1
  <2>3. QED BY <2>1, <2>2
<1>9. QED BY <1>2, <1>6, <1>7, <1>8

\* F is one operation for each account that is active.
Flushes(F, act, idl, q, R, W) ==
    /\ F \in Seq(Op)
    /\ \A k \in DOMAIN F :
          /\ F[k].waits \in act[F[k].account]
          /\ F[k].time = idl[F[k].account]
          /\ F[k].state = "queued"
          /\ F[k].account = q => F[k].reads = R /\ F[k].writes = W
          /\ F[k].account # q => F[k].reads = {} /\ F[k].writes = {}
    /\ \A k, l \in DOMAIN F : F[k].account = F[l].account => k = l

\* What a flush submits.
LEMMA FlushItems ==
  ASSUME NEW act \in [Queues -> SUBSET Fences], NEW idl \in Fences, NEW q \in Queues,
         NEW R \in SUBSET Buffers, NEW W \in SUBSET Buffers,
         NEW F, F = FlushWithStatus(act, idl, q, R, W)
  PROVE  Flushes(F, act, idl, q, R, W)
<1> DEFINE d == Due(act)
<1>1. /\ d \in Seq(Queues)
      /\ \A i \in DOMAIN d : act[d[i]] # {}
      /\ \A i, j \in DOMAIN d : d[i] = d[j] => i = j
  BY DueAccounts
<1>2. F = [i \in DOMAIN d |->
             Submission(IF d[i] = q THEN R ELSE {}, IF d[i] = q THEN W ELSE {},
                        CHOOSE f \in act[d[i]] : TRUE, d[i], idl[d[i]], "queued")]
  BY DEF FlushWithStatus
<1> HIDE DEF d
<1>3. DOMAIN F = DOMAIN d /\ DOMAIN d = 1 .. Len(d) /\ Len(d) \in Nat
  BY <1>1, <1>2
<1>4. ASSUME NEW k \in DOMAIN F
      PROVE  /\ F[k] \in Op
             /\ F[k].account = d[k]
             /\ F[k].waits \in act[d[k]]
             /\ F[k].time = idl[d[k]]
             /\ F[k].state = "queued"
             /\ F[k].reads = IF d[k] = q THEN R ELSE {}
             /\ F[k].writes = IF d[k] = q THEN W ELSE {}
  <2>1. d[k] \in Queues /\ act[d[k]] # {} /\ act[d[k]] \in SUBSET Fences /\ idl[d[k]] \in Nat
    BY <1>1, <1>3 DEF Fences
  <2>2. PICK f : f = CHOOSE g \in act[d[k]] : TRUE
    OBVIOUS
  <2>3. f \in act[d[k]] /\ f \in Fences
    BY <2>1, <2>2
  <2>4. F[k] = [reads |-> IF d[k] = q THEN R ELSE {}, writes |-> IF d[k] = q THEN W ELSE {},
                waits |-> f, account |-> d[k], time |-> idl[d[k]], state |-> "queued"]
    BY <1>2, <1>3, <2>2 DEF Submission
  <2>5. QED BY <2>1, <2>3, <2>4 DEF Op
<1>5. F \in Seq(Op)
  <2>1. F \in [1 .. Len(d) -> Op]
    BY <1>2, <1>3, <1>4
  <2>2. QED BY <1>3, <2>1
<1>6. QED BY <1>1, <1>3, <1>4, <1>5 DEF Flushes

----------------------------------------------------------------------------
(***************************************************************************)
(* The invariant behind DeviceOrder.                                       *)
(***************************************************************************)

SyncTypes == syncs \subseteq [account : Queues, time : Nat, upto : Nat]

\* The idle timepoint is that of the active command buffer, if there is one,
\* which waits for the one before.
AccountsSound ==
    \A q \in Queues :
        /\ sem[q] <= idle[q]
        /\ active[q] # {} => /\ sem[q] < idle[q]
                              /\ \E f \in active[q] : active[q] = {f} /\ idle[q] <= f[q] + 1

\* What is issued has a timepoint of its account and waits for the one before;
\* the semaphore has passed it exactly when it is done.
OpsSound ==
    \A i \in DOMAIN ops :
        /\ ops[i].time <= idle[ops[i].account]
        /\ active[ops[i].account] # {} => ops[i].time < idle[ops[i].account]
        /\ ops[i].time <= ops[i].waits[ops[i].account] + 1
        /\ ops[i].state = "done" <=> ops[i].time <= sem[ops[i].account]
        /\ ops[i].state = "done" => Reached(ops[i].waits)

\* The timepoints of an account are taken in the order of the worker.
Serial ==
    \A i, j \in DOMAIN ops :
        i < j /\ ops[i].account = ops[j].account => ops[i].time < ops[j].time

\* What is issued waits for what it conflicts with.
ConflictsWait ==
    \A i, j \in DOMAIN ops :
        i < j /\ Conflict(ops[i], ops[j]) => ops[i].time <= ops[j].waits[ops[i].account]

IssueInv == AccountsSound /\ OpsSound /\ Serial /\ ConflictsWait

\* A wait for a device covers the timepoints of what was issued before.
Covers(s) ==
    /\ s.upto <= Len(ops)
    /\ \A i \in 1 .. s.upto : ops[i].account = s.account => ops[i].time <= s.time

SyncsCover == \A s \in syncs : Covers(s)

\* An invocation's result is its own until it is imported, and nobody but the
\* invocation's submission writes to it.
CallSound(c) ==
    /\ calls[c].args \in Arguments /\ calls[c].args \subseteq Live
    /\ calls[c].state # "imported" => home[calls[c].result] = None
    /\ calls[c].state # "marshaled" =>
          /\ calls[c].op \in DOMAIN ops
          /\ ops[calls[c].op].account = Selected(calls[c].args)
          /\ ops[calls[c].op].writes = {calls[c].result}
    /\ calls[c].state = "scheduled" => ops[calls[c].op].state = "held"

CallsSound ==
    /\ \A c \in DOMAIN calls : CallSound(c)
    /\ \A c, d \in DOMAIN calls : calls[c].result = calls[d].result => c = d

HomesSound == \A b \in Allocated : home[b] = HomeOf[b]

\* The submission of the invocation that returns b.
Returns(i, b) ==
    \E c \in DOMAIN calls :
        calls[c].result = b /\ calls[c].state # "marshaled" /\ calls[c].op = i

\* What writes to a buffer is issued to the buffer's queue, and not later than
\* its mutation barrier; what reads it from another queue, not later than its
\* use barrier.
WritesCovered ==
    \A i \in DOMAIN ops : \A b \in ops[i].writes :
        \/ home[b] = None /\ Returns(i, b)
        \/ /\ home[b] # None /\ ops[i].account = home[b]
           /\ ops[i].time <= mutation[b][home[b]]

ReadsCovered ==
    \A i \in DOMAIN ops : \A b \in ops[i].reads :
        /\ home[b] # None
        /\ ops[i].account = home[b] \/ ops[i].time <= use[b][ops[i].account]

AccessInv == CallsSound /\ HomesSound /\ WritesCovered /\ ReadsCovered

OrderInv == TypeOK /\ SyncTypes /\ IssueInv /\ SyncsCover /\ AccessInv

----------------------------------------------------------------------------
(***************************************************************************)
(* Issuing.                                                                *)
(***************************************************************************)

LEMMA OpItems ==
  ASSUME NEW s \in Seq(Op)
  PROVE  /\ DOMAIN s = 1 .. Len(s) /\ Len(s) \in Nat
         /\ \A i \in DOMAIN s :
               /\ s[i] \in Op /\ s[i].account \in Queues /\ s[i].time \in Nat
               /\ s[i].reads \in SUBSET Buffers /\ s[i].writes \in SUBSET Buffers
               /\ s[i].waits \in Fences /\ \A q \in Queues : s[i].waits[q] \in Nat
<1>1. ASSUME NEW o \in Op
      PROVE  /\ o.account \in Queues /\ o.time \in Nat
             /\ o.reads \in SUBSET Buffers /\ o.writes \in SUBSET Buffers
             /\ o.waits \in Fences /\ \A q \in Queues : o.waits[q] \in Nat
  BY DEF Op, Fences
<1>2. DOMAIN s = 1 .. Len(s) /\ Len(s) \in Nat /\ \A i \in DOMAIN s : s[i] \in Op
  OBVIOUS
<1>3. QED BY <1>1, <1>2, Zenon

\* N can be issued next, after which the accounts are idle at idl.
Issuable(N, idl) ==
    /\ N \in Seq(Op) /\ idl \in Fences /\ \A q \in Queues : idle[q] <= idl[q]
    /\ \A k \in DOMAIN N :
          /\ N[k].state # "done"
          /\ N[k].time <= idl[N[k].account] /\ N[k].time > sem[N[k].account]
          /\ N[k].time <= N[k].waits[N[k].account] + 1
    /\ \A k \in DOMAIN N : \A i \in DOMAIN ops :
          /\ ops[i].account = N[k].account => ops[i].time < N[k].time
          /\ Conflict(ops[i], N[k]) => ops[i].time <= N[k].waits[ops[i].account]
    /\ \A k, l \in DOMAIN N : k < l =>
          /\ N[k].account = N[l].account => N[k].time < N[l].time
          /\ ~ Conflict(N[k], N[l])

LEMMA IssueKeeps ==
  ASSUME TypeOK, IssueInv, NEW N, Issuable(N, idle'), ops' = ops \o N,
         active' = [a \in Queues |-> {}], sem' = sem
  PROVE  /\ ops' \in Seq(Op) /\ active' \in [Queues -> SUBSET Fences] /\ idle' \in Fences
         /\ IssueInv'
<1>1. ops \in Seq(Op) /\ N \in Seq(Op) /\ idle' \in Fences /\ sem \in Fences /\ idle \in Fences
  BY DEF Issuable, TypeOK
<1>2. /\ ops' \in Seq(Op)
      /\ Len(ops) \in Nat /\ Len(N) \in Nat
      /\ DOMAIN ops = 1 .. Len(ops) /\ DOMAIN N = 1 .. Len(N)
      /\ DOMAIN ops' = 1 .. (Len(ops) + Len(N))
      /\ \A i \in DOMAIN ops : ops'[i] = ops[i]
      /\ \A i \in DOMAIN ops' :
            \/ i \in DOMAIN ops
            \/ i - Len(ops) \in DOMAIN N /\ ops'[i] = N[i - Len(ops)] /\ i > Len(ops)
  BY <1>1, ConcatItems
<1>3. /\ \A i \in DOMAIN ops : ops[i] \in Op /\ ops[i].account \in Queues /\ ops[i].time \in Nat
      /\ \A k \in DOMAIN N : N[k] \in Op /\ N[k].account \in Queues /\ N[k].time \in Nat
  BY <1>1, OpItems
<1>4. \A q \in Queues : idle[q] \in Nat /\ idle'[q] \in Nat /\ sem[q] \in Nat /\ idle[q] <= idle'[q]
  BY <1>1 DEF Fences, Issuable
<1>5. \A q \in Queues : active'[q] = {}
  OBVIOUS
<1>6. AccountsSound'
  <2>1. ASSUME NEW q \in Queues PROVE sem'[q] <= idle'[q]
    <3>1. sem[q] <= idle[q]
      BY DEF IssueInv, AccountsSound
    <3>2. QED BY <1>4, <3>1
  <2>2. QED BY <1>5, <2>1 DEF AccountsSound
<1>7. OpsSound'
  <2>1. ASSUME NEW i \in DOMAIN ops'
        PROVE  /\ ops'[i].time <= idle'[ops'[i].account]
               /\ active'[ops'[i].account] = {}
               /\ ops'[i].time <= ops'[i].waits[ops'[i].account] + 1
               /\ ops'[i].state = "done" <=> ops'[i].time <= sem[ops'[i].account]
               /\ ops'[i].state = "done" => Reached(ops'[i].waits)
    <3>1. CASE i \in DOMAIN ops
      <4>1. /\ ops[i].time <= idle[ops[i].account]
            /\ ops[i].time <= ops[i].waits[ops[i].account] + 1
            /\ ops[i].state = "done" <=> ops[i].time <= sem[ops[i].account]
            /\ ops[i].state = "done" => Reached(ops[i].waits)
        BY <3>1 DEF IssueInv, OpsSound
      <4>2. ops[i].time <= idle'[ops[i].account]
        BY <1>3, <1>4, <3>1, <4>1
      <4>3. QED BY <1>2, <1>3, <1>5, <3>1, <4>1, <4>2
    <3>2. CASE i \notin DOMAIN ops
      <4>1. PICK k \in DOMAIN N : ops'[i] = N[k]
        BY <1>2, <3>2
      <4>2. /\ N[k].state # "done"
            /\ N[k].time <= idle'[N[k].account] /\ N[k].time > sem[N[k].account]
            /\ N[k].time <= N[k].waits[N[k].account] + 1
        BY DEF Issuable
      <4>3. ~(N[k].time <= sem[N[k].account])
        BY <1>3, <1>4, <4>2
      <4>4. QED BY <1>3, <1>5, <4>1, <4>2, <4>3
    <3>3. QED BY <3>1, <3>2
  <2>2. QED BY <2>1 DEF OpsSound, Reached
<1>8. ASSUME NEW i \in DOMAIN ops', NEW j \in DOMAIN ops', i < j
      PROVE  /\ ops'[i].account = ops'[j].account => ops'[i].time < ops'[j].time
             /\ Conflict(ops'[i], ops'[j]) => ops'[i].time <= ops'[j].waits[ops'[i].account]
  <2>1. CASE j \in DOMAIN ops
    <3>1. i \in DOMAIN ops
      BY <1>2, <1>8, <2>1
    <3>2. QED BY <1>2, <1>8, <2>1, <3>1 DEF IssueInv, Serial, ConflictsWait
  <2>2. CASE j \notin DOMAIN ops /\ i \in DOMAIN ops
    <3>1. PICK l \in DOMAIN N : ops'[j] = N[l]
      BY <1>2, <2>2
    <3>2. ops'[i] = ops[i]
      BY <1>2, <2>2
    <3>3. QED BY <2>2, <3>1, <3>2 DEF Issuable
  <2>3. CASE j \notin DOMAIN ops /\ i \notin DOMAIN ops
    <3>1. /\ i - Len(ops) \in DOMAIN N /\ ops'[i] = N[i - Len(ops)]
          /\ j - Len(ops) \in DOMAIN N /\ ops'[j] = N[j - Len(ops)]
      BY <1>2, <2>3
    <3>2. i - Len(ops) < j - Len(ops)
      BY <1>2, <1>8
    <3>3. QED BY <3>1, <3>2 DEF Issuable
  <2>4. QED BY <2>1, <2>2, <2>3
<1>9. Serial' /\ ConflictsWait'
  BY <1>8 DEF Serial, ConflictsWait, Conflict
<1>10. QED BY <1>1, <1>2, <1>6, <1>7, <1>9 DEF IssueInv

\* A command that reads R and writes W conflicts with what was issued as i.
Meets(i, R, W) == ops[i].writes \cap (R \cup W) # {} \/ ops[i].reads \cap W # {}

LEMMA FlushIssuable ==
  ASSUME TypeOK, NEW act \in [Queues -> SUBSET Fences], NEW idl \in Fences, NEW q \in Queues,
         NEW R \in SUBSET Buffers, NEW W \in SUBSET Buffers,
         \A a \in Queues : idle[a] <= idl[a],
         \A a \in Queues : act[a] # {} =>
             /\ idl[a] > sem[a]
             /\ \A f \in act[a] : idl[a] <= f[a] + 1
             /\ \A i \in DOMAIN ops : ops[i].account = a => ops[i].time < idl[a],
         \A f \in act[q] : \A i \in DOMAIN ops :
             Meets(i, R, W) => ops[i].time <= f[ops[i].account]
  PROVE  Issuable(FlushWithStatus(act, idl, q, R, W), idl)
<1>0. PICK N : N = FlushWithStatus(act, idl, q, R, W)
  OBVIOUS
<1>1. /\ N \in Seq(Op)
      /\ \A k \in DOMAIN N :
            /\ N[k].waits \in act[N[k].account]
            /\ N[k].time = idl[N[k].account]
            /\ N[k].state = "queued"
            /\ N[k].account = q => N[k].reads = R /\ N[k].writes = W
            /\ N[k].account # q => N[k].reads = {} /\ N[k].writes = {}
      /\ \A k, l \in DOMAIN N : N[k].account = N[l].account => k = l
  <2>1. Flushes(N, act, idl, q, R, W)
    BY <1>0, FlushItems
  <2>2. QED BY <2>1 DEF Flushes
<1>2. \A k \in DOMAIN N : N[k].account \in Queues
  BY <1>1, OpItems
<1>3. \A a \in Queues : idl[a] \in Nat
  BY DEF Fences
<1>4. ASSUME NEW k \in DOMAIN N
      PROVE  /\ N[k].state # "done"
             /\ N[k].time <= idl[N[k].account] /\ N[k].time > sem[N[k].account]
             /\ N[k].time <= N[k].waits[N[k].account] + 1
             /\ \A i \in DOMAIN ops : ops[i].account = N[k].account => ops[i].time < N[k].time
  <2>1. PICK a \in Queues : N[k].account = a
    BY <1>2
  <2>2. act[a] # {} /\ N[k].waits \in act[a] /\ N[k].time = idl[a] /\ N[k].state = "queued"
    BY <1>1, <2>1
  <2>3. idl[a] <= idl[a]
    BY <1>3
  <2>4. QED BY <2>1, <2>2, <2>3
<1>5. ASSUME NEW k \in DOMAIN N, NEW i \in DOMAIN ops, Conflict(ops[i], N[k])
      PROVE  ops[i].time <= N[k].waits[ops[i].account]
  <2>1. N[k].account = q /\ N[k].reads = R /\ N[k].writes = W
    BY <1>1, <1>5 DEF Conflict
  <2>2. Meets(i, R, W)
    BY <1>5, <2>1 DEF Conflict, Meets
  <2>3. N[k].waits \in act[q]
    BY <1>1, <2>1
  <2>4. QED BY <2>2, <2>3
<1>6. ASSUME NEW k \in DOMAIN N, NEW l \in DOMAIN N, k < l
      PROVE  /\ N[k].account = N[l].account => N[k].time < N[l].time
             /\ ~ Conflict(N[k], N[l])
  <2>1. k \in Nat /\ l \in Nat
    BY <1>1, OpItems
  <2>2. k # l
    BY <1>6, <2>1
  <2>3. N[k].account # N[l].account
    BY <1>1, <2>2
  <2>4. CASE N[k].account # q
    <3>1. N[k].reads = {} /\ N[k].writes = {}
      BY <1>1, <2>4
    <3>2. QED BY <2>3, <3>1 DEF Conflict
  <2>5. CASE N[l].account # q
    <3>1. N[l].reads = {} /\ N[l].writes = {}
      BY <1>1, <2>5
    <3>2. QED BY <2>3, <3>1 DEF Conflict
  <2>6. QED BY <2>3, <2>4, <2>5
<1>7. Issuable(N, idl)
  BY <1>1, <1>4, <1>5, <1>6 DEF Issuable
<1>8. QED BY <1>0, <1>7

\* What the command buffer of an account has, be it active or new.
LEMMA CommandBuffer ==
  ASSUME TypeOK, IssueInv, NEW q \in Queues
  PROVE  /\ Deps(q) \in Fences /\ Timepoint(q) \in Nat
         /\ Timepoint(q) <= Deps(q)[q] + 1
         /\ idle[q] <= Timepoint(q) /\ sem[q] < Timepoint(q)
         /\ \A i \in DOMAIN ops : ops[i].account = q => ops[i].time < Timepoint(q)
<1>1. idle[q] \in Nat /\ sem[q] \in Nat /\ idle \in Fences /\ active[q] \in SUBSET Fences
  BY DEF TypeOK, Fences
<1>2. \A i \in DOMAIN ops : ops[i].time \in Nat
  BY OpItems DEF TypeOK
<1>3. sem[q] <= idle[q]
  BY DEF IssueInv, AccountsSound
<1>4. \A i \in DOMAIN ops : ops[i].account = q => ops[i].time <= idle[q]
  BY DEF IssueInv, OpsSound
<1>5. CASE active[q] = {}
  <2>1. Deps(q) = At(q, idle[q]) /\ Timepoint(q) = idle[q] + 1
    BY <1>5 DEF Deps, Timepoint
  <2>2. Deps(q) \in Fences /\ Deps(q)[q] = idle[q]
    BY <1>1, <2>1, AtFence
  <2>3. QED BY <1>1, <1>2, <1>3, <1>4, <2>1, <2>2
<1>6. CASE active[q] # {}
  <2>1. PICK f \in active[q] : active[q] = {f} /\ idle[q] <= f[q] + 1
    BY <1>6 DEF IssueInv, AccountsSound
  <2>2. Deps(q) = f /\ Timepoint(q) = idle[q]
    BY <1>6, <2>1 DEF Deps, Timepoint
  <2>3. sem[q] < idle[q] /\ \A i \in DOMAIN ops : ops[i].account = q => ops[i].time < idle[q]
    BY <1>6 DEF IssueInv, AccountsSound, OpsSound
  <2>4. QED BY <1>1, <2>1, <2>2, <2>3
<1>7. QED BY <1>5, <1>6

\* AppendCommandBuffer, given fences that cover what the command meets on other
\* accounts.
LEMMA CommandIssuable ==
  ASSUME TypeOK, IssueInv, NEW q \in Queues, NEW deps \in Fences,
         NEW R \in SUBSET Buffers, NEW W \in SUBSET Buffers,
         \A i \in DOMAIN ops : Meets(i, R, W) =>
             ops[i].account = q \/ ops[i].time <= deps[ops[i].account],
         NEW act, act = [active EXCEPT ![q] = {Join(Deps(q), deps)}],
         NEW idl, idl = [idle EXCEPT ![q] = Timepoint(q)]
  PROVE  Issuable(FlushWithStatus(act, idl, q, R, W), idl)
<1>1. /\ Deps(q) \in Fences /\ Timepoint(q) \in Nat
      /\ Timepoint(q) <= Deps(q)[q] + 1
      /\ idle[q] <= Timepoint(q) /\ sem[q] < Timepoint(q)
      /\ \A i \in DOMAIN ops : ops[i].account = q => ops[i].time < Timepoint(q)
  BY CommandBuffer
<1>2. PICK w : w = Join(Deps(q), deps)
  OBVIOUS
<1>3. w \in Fences /\ \A a \in Queues : Deps(q)[a] <= w[a] /\ deps[a] <= w[a]
  BY <1>1, <1>2, JoinFence
<1>4. \A i \in DOMAIN ops : ops[i].time \in Nat /\ ops[i].account \in Queues
  BY OpItems DEF TypeOK
<1>5. /\ active \in [Queues -> SUBSET Fences] /\ idle \in Fences /\ sem \in Fences
      /\ \A a \in Queues : /\ idle[a] \in Nat /\ sem[a] \in Nat
                           /\ w[a] \in Nat /\ deps[a] \in Nat /\ Deps(q)[a] \in Nat
  BY <1>1, <1>3 DEF TypeOK, Fences
<1>6. act \in [Queues -> SUBSET Fences] /\ idl \in Fences
  BY <1>1, <1>2, <1>3, <1>5 DEF Fences
<1>7. act[q] = {w} /\ idl[q] = Timepoint(q)
  BY <1>2, <1>5 DEF Fences
<1>8. \A a \in Queues : a # q => act[a] = active[a] /\ idl[a] = idle[a]
  BY <1>5 DEF Fences
<1>9. ASSUME NEW a \in Queues
      PROVE  /\ idle[a] <= idl[a]
             /\ act[a] # {} =>
                  /\ idl[a] > sem[a]
                  /\ \A f \in act[a] : idl[a] <= f[a] + 1
                  /\ \A i \in DOMAIN ops : ops[i].account = a => ops[i].time < idl[a]
  <2>1. CASE a = q
    <3>1. Timepoint(q) <= w[q] + 1
      BY <1>1, <1>3, <1>5
    <3>2. Timepoint(q) > sem[q]
      BY <1>1, <1>5
    <3>3. QED BY <1>1, <1>7, <2>1, <3>1, <3>2
  <2>2. CASE a # q
    <3>1. act[a] = active[a] /\ idl[a] = idle[a] /\ idle[a] <= idle[a]
      BY <1>5, <1>8, <2>2
    <3>2. ASSUME active[a] # {}
          PROVE  /\ idle[a] > sem[a]
                 /\ \A f \in active[a] : idle[a] <= f[a] + 1
                 /\ \A i \in DOMAIN ops : ops[i].account = a => ops[i].time < idle[a]
      <4>1. sem[a] < idle[a] /\ \E f \in active[a] : active[a] = {f} /\ idle[a] <= f[a] + 1
        BY <3>2 DEF IssueInv, AccountsSound
      <4>2. \A i \in DOMAIN ops : ops[i].account = a => ops[i].time < idle[a]
        BY <3>2 DEF IssueInv, OpsSound
      <4>3. idle[a] > sem[a]
        BY <1>5, <4>1
      <4>4. QED BY <4>1, <4>2, <4>3
    <3>3. QED BY <3>1, <3>2
  <2>3. QED BY <2>1, <2>2
<1>10. ASSUME NEW f \in act[q], NEW i \in DOMAIN ops, Meets(i, R, W)
       PROVE  ops[i].time <= f[ops[i].account]
  <2>1. f = w
    BY <1>7
  <2>2. PICK a \in Queues : a = ops[i].account
    BY <1>4
  <2>3. CASE a = q
    <3>1. ops[i].time < Timepoint(q)
      BY <1>1, <2>2, <2>3
    <3>2. ops[i].time <= w[q]
      BY <1>1, <1>3, <1>4, <1>5, <3>1
    <3>3. QED BY <2>1, <2>2, <2>3, <3>2
  <2>4. CASE a # q
    <3>1. ops[i].time <= deps[a]
      BY <1>10, <2>2, <2>4
    <3>2. ops[i].time <= w[a]
      BY <1>3, <1>4, <1>5, <3>1
    <3>3. QED BY <2>1, <2>2, <3>2
  <2>5. QED BY <2>3, <2>4
<1> HIDE DEF Issuable
<1>11. QED BY <1>6, <1>9, <1>10, FlushIssuable

----------------------------------------------------------------------------
(***************************************************************************)
(* Transfers.                                                              *)
(***************************************************************************)

\* What is known of a call, as long as nobody touches it and its submission.
LEMMA CallRests ==
  ASSUME NEW c \in DOMAIN calls, CallSound(c), home' = home, calls'[c] = calls[c],
         calls[c].state # "marshaled" =>
            calls[c].op \in DOMAIN ops' /\ ops'[calls[c].op] = ops[calls[c].op]
  PROVE  CallSound(c)'
<1>1. Live' = Live /\ Selected(calls[c].args)' = Selected(calls[c].args)
  BY DEF Live, Selected
<1>2. calls[c].state = "scheduled" => calls[c].state # "marshaled"
  OBVIOUS
<1>3. QED BY <1>1, <1>2 DEF CallSound

\* What is issued later does not change what is known of waits and calls.
LEMMA IssueRests ==
  ASSUME OrderInv, NEW N \in Seq(Op), ops' = ops \o N, calls' = calls, home' = home
  PROVE  /\ \A s \in syncs : Covers(s)'
         /\ CallsSound' /\ HomesSound'
         /\ \A i \in DOMAIN ops : i \in DOMAIN ops' /\ ops'[i] = ops[i]
         /\ \A i \in DOMAIN ops' : i \notin DOMAIN ops =>
               \E k \in DOMAIN N : ops'[i] = N[k]
<1>1. /\ Len(ops) \in Nat /\ Len(N) \in Nat /\ Len(ops') = Len(ops) + Len(N)
      /\ DOMAIN ops = 1 .. Len(ops)
      /\ \A i \in DOMAIN ops : i \in DOMAIN ops' /\ ops'[i] = ops[i]
      /\ \A i \in DOMAIN ops' : i \notin DOMAIN ops =>
               \E k \in DOMAIN N : ops'[i] = N[k]
  BY ConcatItems DEF OrderInv, TypeOK
<1>2. ASSUME NEW s \in syncs PROVE Covers(s)'
  <2>1. s.upto \in Nat /\ s.upto <= Len(ops)
    BY DEF OrderInv, SyncTypes, SyncsCover, Covers
  <2>2. \A i \in 1 .. s.upto : i \in DOMAIN ops
    BY <1>1, <2>1
  <2>3. s.upto <= Len(ops')
    BY <1>1, <2>1
  <2>4. QED BY <1>1, <2>2, <2>3 DEF OrderInv, SyncsCover, Covers
<1>3. HomesSound'
  BY DEF OrderInv, AccessInv, HomesSound
<1>4. CallsSound'
  <2>1. ASSUME NEW c \in DOMAIN calls PROVE CallSound(c)'
    <3>1. CallSound(c)
      BY DEF OrderInv, AccessInv, CallsSound
    <3>2. calls[c].state # "marshaled" =>
            calls[c].op \in DOMAIN ops' /\ ops'[calls[c].op] = ops[calls[c].op]
      BY <1>1, <3>1 DEF CallSound
    <3>3. QED BY <3>1, <3>2, CallRests
  <2>2. QED BY <2>1 DEF OrderInv, AccessInv, CallsSound
<1>5. QED BY <1>1, <1>2, <1>3, <1>4

\* What is left to show when a command that reads R and writes W was recorded.
Commanded(q, R, W) ==
    /\ ops' \in Seq(Op) /\ active' \in [Queues -> SUBSET Fences] /\ idle' \in Fences
    /\ IssueInv' /\ SyncsCover' /\ CallsSound' /\ HomesSound'
    /\ Timepoint(q) \in Nat
    /\ \A i \in DOMAIN ops' : ops'[i].account = q => ops'[i].time <= Timepoint(q)
    /\ \A i \in DOMAIN ops' :
          \/ i \in DOMAIN ops /\ ops'[i] = ops[i]
          \/ ops'[i].account = q /\ ops'[i].reads = R /\ ops'[i].writes = W
          \/ ops'[i].reads = {} /\ ops'[i].writes = {}

LEMMA CommandKeeps ==
  ASSUME OrderInv, NEW q \in Queues, NEW deps \in Fences,
         NEW R \in SUBSET Buffers, NEW W \in SUBSET Buffers,
         \A i \in DOMAIN ops : Meets(i, R, W) =>
             ops[i].account = q \/ ops[i].time <= deps[ops[i].account],
         AppendCommandBuffer(q, deps, R, W), home' = home
  PROVE  Commanded(q, R, W)
<1>1. TypeOK /\ IssueInv
  BY DEF OrderInv
<1>2. PICK act : act = [active EXCEPT ![q] = {Join(Deps(q), deps)}]
  OBVIOUS
<1>3. PICK idl : idl = [idle EXCEPT ![q] = Timepoint(q)]
  OBVIOUS
<1>4. PICK N : N = FlushWithStatus(act, idl, q, R, W)
  OBVIOUS
<1>5. /\ idle' = idl /\ ops' = ops \o N /\ active' = [a \in Queues |-> {}]
      /\ sem' = sem /\ calls' = calls /\ syncs' = syncs
  BY <1>2, <1>3, <1>4 DEF AppendCommandBuffer
<1>6. Issuable(N, idle')
  BY <1>1, <1>2, <1>3, <1>4, <1>5, CommandIssuable
<1>7. /\ ops' \in Seq(Op) /\ active' \in [Queues -> SUBSET Fences] /\ idle' \in Fences
      /\ IssueInv'
  BY <1>1, <1>5, <1>6, IssueKeeps
<1>8. N \in Seq(Op)
  BY <1>6 DEF Issuable
<1>9. /\ \A s \in syncs : Covers(s)'
      /\ CallsSound' /\ HomesSound'
      /\ \A i \in DOMAIN ops : ops'[i] = ops[i]
      /\ \A i \in DOMAIN ops' : i \notin DOMAIN ops =>
               \E k \in DOMAIN N : ops'[i] = N[k]
  BY <1>5, <1>8, IssueRests
<1>10. Timepoint(q) \in Nat /\ Deps(q) \in Fences
  BY <1>1, CommandBuffer
<1>11. idle'[q] = Timepoint(q)
  BY <1>1, <1>3, <1>5 DEF TypeOK, Fences
<1>12. \A i \in DOMAIN ops' : ops'[i].account = q => ops'[i].time <= Timepoint(q)
  BY <1>7, <1>11 DEF IssueInv, OpsSound
<1>13. Flushes(N, act, idl, q, R, W)
  <2>1. Join(Deps(q), deps) \in Fences
    BY <1>10, JoinFence
  <2>2. act \in [Queues -> SUBSET Fences] /\ idl \in Fences
    BY <1>1, <1>2, <1>5, <1>7, <2>1 DEF TypeOK
  <2>3. QED BY <1>4, <2>2, FlushItems
<1>14. ASSUME NEW i \in DOMAIN ops'
       PROVE  \/ i \in DOMAIN ops /\ ops'[i] = ops[i]
              \/ ops'[i].account = q /\ ops'[i].reads = R /\ ops'[i].writes = W
              \/ ops'[i].reads = {} /\ ops'[i].writes = {}
  <2>1. CASE i \in DOMAIN ops
    BY <1>9, <2>1
  <2>2. CASE i \notin DOMAIN ops
    <3>1. PICK k \in DOMAIN N : ops'[i] = N[k]
      BY <1>9, <2>2
    <3>2. QED BY <1>13, <3>1 DEF Flushes
  <2>3. QED BY <2>1, <2>2
<1>15. SyncsCover'
  BY <1>5, <1>9 DEF SyncsCover
<1>16. QED BY <1>7, <1>9, <1>10, <1>12, <1>14, <1>15 DEF Commanded

LEMMA FillKeeps ==
  ASSUME OrderInv, NEW b \in Buffers, Fill(b)
  PROVE  OrderInv'
<1>1. /\ home \in [Buffers -> Queues \cup {None}] /\ home' = home /\ use' = use
      /\ mutation \in [Buffers -> Fences] /\ use \in [Buffers -> Fences]
      /\ home[b] # None /\ home[b] \in Queues
  BY DEF OrderInv, TypeOK, Fill, Live
<1>2. PICK q \in Queues : q = home[b]
  BY <1>1
<1>3. PICK deps : deps = FillDeps(b)
  OBVIOUS
<1>4. AppendCommandBuffer(q, deps, {}, {b}) /\ mutation' = [mutation EXCEPT ![b] = At(q, Timepoint(q))]
  BY <1>2, <1>3 DEF Fill
<1>5. deps \in Fences /\ \A a \in Queues : use[b][a] <= deps[a]
  BY <1>1, <1>3, JoinFence DEF FillDeps
<1>6. \A i \in DOMAIN ops : ops[i].time \in Nat /\ ops[i].account \in Queues
  BY OpItems DEF OrderInv, TypeOK
<1>7. ASSUME NEW i \in DOMAIN ops, Meets(i, {}, {b})
      PROVE  ops[i].account = q \/ ops[i].time <= deps[ops[i].account]
  <2>1. b \in ops[i].reads \/ b \in ops[i].writes
    BY <1>7 DEF Meets
  <2>2. CASE b \in ops[i].writes
    BY <1>1, <1>2, <2>2 DEF OrderInv, AccessInv, WritesCovered
  <2>3. CASE b \in ops[i].reads
    <3>1. ops[i].account = q \/ ops[i].time <= use[b][ops[i].account]
      BY <1>2, <2>3 DEF OrderInv, AccessInv, ReadsCovered
    <3>2. use[b][ops[i].account] \in Nat /\ deps[ops[i].account] \in Nat
      BY <1>1, <1>5, <1>6 DEF Fences
    <3>3. QED BY <1>5, <1>6, <3>1, <3>2
  <2>4. QED BY <2>1, <2>2, <2>3
<1>8. /\ ops' \in Seq(Op) /\ active' \in [Queues -> SUBSET Fences] /\ idle' \in Fences
      /\ IssueInv' /\ SyncsCover' /\ CallsSound' /\ HomesSound'
      /\ Timepoint(q) \in Nat
      /\ \A i \in DOMAIN ops' : ops'[i].account = q => ops'[i].time <= Timepoint(q)
      /\ \A i \in DOMAIN ops' :
               \/ i \in DOMAIN ops /\ ops'[i] = ops[i]
               \/ ops'[i].account = q /\ ops'[i].reads = {} /\ ops'[i].writes = {b}
               \/ ops'[i].reads = {} /\ ops'[i].writes = {}
  <2>1. {} \in SUBSET Buffers /\ {b} \in SUBSET Buffers
    OBVIOUS
  <2>2. \A i \in DOMAIN ops : Meets(i, {}, {b}) =>
             ops[i].account = q \/ ops[i].time <= deps[ops[i].account]
    BY <1>7
  <2>3. Commanded(q, {}, {b})
    BY <1>1, <1>4, <1>5, <2>1, <2>2, CommandKeeps
  <2>4. QED BY <2>3 DEF Commanded
<1>9. /\ mutation' \in [Buffers -> Fences] /\ mutation'[b][q] = Timepoint(q)
      /\ \A c \in Buffers : c # b => mutation'[c] = mutation[c]
  <2>1. At(q, Timepoint(q)) \in Fences /\ At(q, Timepoint(q))[q] = Timepoint(q)
    BY <1>8, AtFence
  <2>2. QED BY <1>1, <1>4, <2>1
<1>10. TypeOK' /\ SyncTypes'
  BY <1>1, <1>4, <1>8, <1>9 DEF OrderInv, TypeOK, SyncTypes, AppendCommandBuffer
<1>11. \A i \in DOMAIN ops' : ops'[i].writes \in SUBSET Buffers
  BY <1>8, OpItems
<1>12. WritesCovered'
  <2>1. ASSUME NEW i \in DOMAIN ops', NEW c \in ops'[i].writes
        PROVE  \/ home'[c] = None /\ Returns(i, c)'
               \/ /\ home'[c] # None /\ ops'[i].account = home'[c]
                  /\ ops'[i].time <= mutation'[c][home'[c]]
    <3>1. CASE c = b
      <4>1. ops'[i].account = q
        <5>1. CASE i \in DOMAIN ops /\ ops'[i] = ops[i]
          BY <1>1, <1>2, <2>1, <3>1, <5>1 DEF OrderInv, AccessInv, WritesCovered
        <5>2. QED BY <1>8, <2>1, <5>1
      <4>2. QED BY <1>1, <1>2, <1>8, <1>9, <3>1, <4>1
    <3>2. CASE c # b
      <4>1. i \in DOMAIN ops /\ ops'[i] = ops[i]
        BY <1>8, <2>1, <3>2
      <4>2. c \in Buffers /\ mutation'[c] = mutation[c]
        BY <1>9, <1>11, <2>1, <3>2
      <4>3. Returns(i, c)' <=> Returns(i, c)
        BY <1>4 DEF Returns, AppendCommandBuffer
      <4>4. QED BY <1>1, <2>1, <4>1, <4>2, <4>3 DEF OrderInv, AccessInv, WritesCovered
    <3>3. QED BY <3>1, <3>2
  <2>2. QED BY <2>1 DEF WritesCovered, Returns
<1>13. ReadsCovered'
  <2>1. ASSUME NEW i \in DOMAIN ops', NEW c \in ops'[i].reads
        PROVE  /\ home'[c] # None
               /\ ops'[i].account = home'[c] \/ ops'[i].time <= use'[c][ops'[i].account]
    <3>1. i \in DOMAIN ops /\ ops'[i] = ops[i]
      BY <1>8, <2>1
    <3>2. QED BY <1>1, <2>1, <3>1 DEF OrderInv, AccessInv, ReadsCovered
  <2>2. QED BY <2>1 DEF ReadsCovered
<1>14. QED BY <1>8, <1>10, <1>12, <1>13 DEF OrderInv, AccessInv

LEMMA CopyKeeps ==
  ASSUME OrderInv, NEW dst \in Buffers, NEW src \in Buffers, CopyFrom(dst, src)
  PROVE  OrderInv'
<1>1. /\ home \in [Buffers -> Queues \cup {None}] /\ home' = home
      /\ mutation \in [Buffers -> Fences] /\ use \in [Buffers -> Fences]
      /\ home[dst] # None /\ home[dst] \in Queues
      /\ home[src] # None /\ home[src] \in Queues
  BY DEF OrderInv, TypeOK, CopyFrom, Live
<1>2. PICK q \in Queues : q = home[dst]
  BY <1>1
<1>3. PICK deps : deps = CopyDeps(src, dst)
  OBVIOUS
<1>4. PICK now : now = At(q, Timepoint(q))
  OBVIOUS
<1>5. /\ AppendCommandBuffer(q, deps, {src}, {dst})
      /\ mutation' = [mutation EXCEPT ![dst] = now]
      /\ use' = [use EXCEPT ![src] = Join(@, now)]
  BY <1>2, <1>3, <1>4 DEF CopyFrom
<1>6. /\ deps \in Fences
      /\ \A a \in Queues : use[dst][a] <= deps[a] /\ mutation[src][a] <= deps[a]
  <2>1. PICK j : j = Join(use[dst], mutation[dst])
    OBVIOUS
  <2>2. j \in Fences /\ \A a \in Queues : use[dst][a] <= j[a]
    BY <1>1, <2>1, JoinFence
  <2>3. deps = Join(mutation[src], j)
    BY <1>3, <2>1 DEF CopyDeps
  <2>4. deps \in Fences /\ \A a \in Queues : mutation[src][a] <= deps[a] /\ j[a] <= deps[a]
    BY <1>1, <2>2, <2>3, JoinFence
  <2>5. \A a \in Queues : use[dst][a] \in Nat /\ j[a] \in Nat /\ deps[a] \in Nat
    BY <1>1, <2>2, <2>4 DEF Fences
  <2>6. QED BY <2>2, <2>4, <2>5
<1>7. \A i \in DOMAIN ops : ops[i].time \in Nat /\ ops[i].account \in Queues
  BY OpItems DEF OrderInv, TypeOK
<1>8. \A a \in Queues : use[dst][a] \in Nat /\ mutation[src][a] \in Nat /\ deps[a] \in Nat
  BY <1>1, <1>6 DEF Fences
<1>9. ASSUME NEW i \in DOMAIN ops, Meets(i, {src}, {dst})
      PROVE  ops[i].account = q \/ ops[i].time <= deps[ops[i].account]
  <2>1. dst \in ops[i].reads \/ dst \in ops[i].writes \/ src \in ops[i].writes
    BY <1>9 DEF Meets
  <2>2. CASE dst \in ops[i].writes
    BY <1>1, <1>2, <2>2 DEF OrderInv, AccessInv, WritesCovered
  <2>3. CASE dst \in ops[i].reads
    <3>1. ops[i].account = q \/ ops[i].time <= use[dst][ops[i].account]
      BY <1>2, <2>3 DEF OrderInv, AccessInv, ReadsCovered
    <3>2. QED BY <1>6, <1>7, <1>8, <3>1
  <2>4. CASE src \in ops[i].writes
    <3>1. ops[i].time <= mutation[src][ops[i].account]
      BY <1>1, <2>4 DEF OrderInv, AccessInv, WritesCovered
    <3>2. QED BY <1>6, <1>7, <1>8, <3>1
  <2>5. QED BY <2>1, <2>2, <2>3, <2>4
<1>10. Commanded(q, {src}, {dst})
  <2>1. {src} \in SUBSET Buffers /\ {dst} \in SUBSET Buffers
    OBVIOUS
  <2>2. \A i \in DOMAIN ops : Meets(i, {src}, {dst}) =>
             ops[i].account = q \/ ops[i].time <= deps[ops[i].account]
    BY <1>9
  <2>3. QED BY <1>1, <1>5, <1>6, <2>1, <2>2, CommandKeeps
<1>11. now \in Fences /\ now[q] = Timepoint(q) /\ Timepoint(q) \in Nat
  BY <1>4, <1>10, AtFence DEF Commanded
<1>12. /\ mutation' \in [Buffers -> Fences] /\ mutation'[dst] = now
       /\ \A c \in Buffers : c # dst => mutation'[c] = mutation[c]
  BY <1>1, <1>5, <1>11
<1>13. /\ use' \in [Buffers -> Fences]
       /\ \A c \in Buffers : \A a \in Queues : use[c][a] <= use'[c][a]
  <2>1. PICK j : j = Join(use[src], now)
    OBVIOUS
  <2>2. j \in Fences /\ \A a \in Queues : use[src][a] <= j[a]
    BY <1>1, <1>11, <2>1, JoinFence
  <2>3. use' = [use EXCEPT ![src] = j]
    BY <1>5, <2>1
  <2>4. \A c \in Buffers : \A a \in Queues : use[c][a] \in Nat /\ use[c][a] <= use[c][a]
    BY <1>1 DEF Fences
  <2>5. \A c \in Buffers : use'[c] = IF c = src THEN j ELSE use[c]
    BY <1>1, <2>3
  <2>6. use' \in [Buffers -> Fences]
    BY <1>1, <2>2, <2>3
  <2>7. QED BY <2>2, <2>4, <2>5, <2>6
<1>14. use'[src][q] \in Nat /\ Timepoint(q) <= use'[src][q]
  <2>1. use'[src] = Join(use[src], now)
    BY <1>1, <1>5
  <2>2. use'[src] \in Fences /\ now[q] <= use'[src][q]
    BY <1>1, <1>11, <2>1, JoinFence
  <2>3. QED BY <1>11, <2>2 DEF Fences
<1>15. TypeOK' /\ SyncTypes'
  BY <1>1, <1>5, <1>10, <1>12, <1>13 DEF OrderInv, TypeOK, SyncTypes, AppendCommandBuffer, Commanded
<1>16. \A i \in DOMAIN ops' : /\ ops'[i].writes \in SUBSET Buffers /\ ops'[i].reads \in SUBSET Buffers
                              /\ ops'[i].time \in Nat /\ ops'[i].account \in Queues
  BY <1>10, OpItems DEF Commanded
<1>17. WritesCovered'
  <2>1. ASSUME NEW i \in DOMAIN ops', NEW c \in ops'[i].writes
        PROVE  \/ home'[c] = None /\ Returns(i, c)'
               \/ /\ home'[c] # None /\ ops'[i].account = home'[c]
                  /\ ops'[i].time <= mutation'[c][home'[c]]
    <3>1. CASE c = dst
      <4>1. ops'[i].account = q
        <5>1. CASE i \in DOMAIN ops /\ ops'[i] = ops[i]
          BY <1>1, <1>2, <2>1, <3>1, <5>1 DEF OrderInv, AccessInv, WritesCovered
        <5>2. QED BY <1>10, <2>1, <5>1 DEF Commanded
      <4>2. ops'[i].time <= Timepoint(q)
        BY <1>10, <4>1 DEF Commanded
      <4>3. QED BY <1>1, <1>2, <1>11, <1>12, <3>1, <4>1, <4>2
    <3>2. CASE c # dst
      <4>1. i \in DOMAIN ops /\ ops'[i] = ops[i]
        BY <1>10, <2>1, <3>2 DEF Commanded
      <4>2. c \in Buffers /\ mutation'[c] = mutation[c]
        BY <1>12, <1>16, <2>1, <3>2
      <4>3. Returns(i, c)' <=> Returns(i, c)
        BY <1>5 DEF Returns, AppendCommandBuffer
      <4>4. QED BY <1>1, <2>1, <4>1, <4>2, <4>3 DEF OrderInv, AccessInv, WritesCovered
    <3>3. QED BY <3>1, <3>2
  <2>2. QED BY <2>1 DEF WritesCovered, Returns
<1>18. ReadsCovered'
  <2>1. ASSUME NEW i \in DOMAIN ops', NEW c \in ops'[i].reads
        PROVE  /\ home'[c] # None
               /\ ops'[i].account = home'[c] \/ ops'[i].time <= use'[c][ops'[i].account]
    <3>1. CASE i \in DOMAIN ops /\ ops'[i] = ops[i]
      <4>1. /\ home[c] # None
            /\ ops[i].account = home[c] \/ ops[i].time <= use[c][ops[i].account]
        BY <2>1, <3>1 DEF OrderInv, AccessInv, ReadsCovered
      <4>2. PICK a \in Queues : a = ops[i].account
        BY <1>7, <3>1
      <4>3. c \in Buffers /\ use[c][a] \in Nat /\ use'[c][a] \in Nat /\ ops[i].time \in Nat
        BY <1>1, <1>7, <1>13, <1>16, <2>1, <3>1 DEF Fences
      <4>4. use[c][a] <= use'[c][a]
        BY <1>13, <4>3
      <4>5. ops[i].time <= use[c][a] => ops[i].time <= use'[c][a]
        BY <4>3, <4>4
      <4>6. QED BY <1>1, <3>1, <4>1, <4>2, <4>5
    <3>2. CASE ops'[i].account = q /\ c = src
      <4>1. ops'[i].time <= Timepoint(q)
        BY <1>10, <3>2 DEF Commanded
      <4>2. ops'[i].time <= use'[src][q]
        BY <1>11, <1>14, <1>16, <4>1
      <4>3. QED BY <1>1, <3>2, <4>2
    <3>3. QED BY <1>10, <2>1, <3>1, <3>2 DEF Commanded
  <2>2. QED BY <2>1 DEF ReadsCovered
<1>19. QED BY <1>10, <1>15, <1>17, <1>18 DEF OrderInv, AccessInv, Commanded

\* A command that could not be recorded: nothing is issued, and the command
\* buffer stays.
LEMMA ThrowKeeps ==
  ASSUME OrderInv, NEW q \in Queues, NEW deps \in Fences, AppendThrows(q, deps)
  PROVE  OrderInv'
<1>1. TypeOK /\ IssueInv
  BY DEF OrderInv
<1>2. /\ Deps(q) \in Fences /\ Timepoint(q) \in Nat
      /\ Timepoint(q) <= Deps(q)[q] + 1
      /\ idle[q] <= Timepoint(q) /\ sem[q] < Timepoint(q)
      /\ \A i \in DOMAIN ops : ops[i].account = q => ops[i].time < Timepoint(q)
  BY <1>1, CommandBuffer
<1>3. PICK w : w = Join(Deps(q), deps)
  OBVIOUS
<1>4. w \in Fences /\ Deps(q)[q] <= w[q]
  BY <1>2, <1>3, JoinFence
<1>5. /\ idle' = [idle EXCEPT ![q] = Timepoint(q)] /\ active' = [active EXCEPT ![q] = {w}]
      /\ sem' = sem /\ home' = home /\ mutation' = mutation /\ use' = use
      /\ ops' = ops /\ calls' = calls /\ syncs' = syncs
  BY <1>3 DEF AppendThrows, barriers
<1>6. /\ idle \in Fences /\ sem \in Fences /\ active \in [Queues -> SUBSET Fences]
      /\ \A a \in Queues : idle[a] \in Nat /\ sem[a] \in Nat
      /\ w[q] \in Nat /\ Deps(q)[q] \in Nat
  BY <1>1, <1>2, <1>4 DEF TypeOK, Fences
<1>7. idle' \in Fences /\ active' \in [Queues -> SUBSET Fences]
  BY <1>2, <1>4, <1>5, <1>6 DEF Fences
<1>8. /\ idle'[q] = Timepoint(q) /\ active'[q] = {w}
      /\ \A a \in Queues : a # q => idle'[a] = idle[a] /\ active'[a] = active[a]
  BY <1>5, <1>6 DEF Fences
<1>9. AccountsSound'
  <2>1. ASSUME NEW a \in Queues
        PROVE  /\ sem[a] <= idle'[a]
               /\ active'[a] # {} =>
                    /\ sem[a] < idle'[a]
                    /\ \E f \in active'[a] : active'[a] = {f} /\ idle'[a] <= f[a] + 1
    <3>1. CASE a = q
      <4>1. Timepoint(q) <= w[q] + 1 /\ sem[q] <= Timepoint(q)
        BY <1>2, <1>4, <1>6
      <4>2. QED BY <1>2, <1>8, <3>1, <4>1
    <3>2. CASE a # q
      BY <1>1, <1>8, <3>2 DEF IssueInv, AccountsSound
    <3>3. QED BY <3>1, <3>2
  <2>2. QED BY <1>5, <2>1 DEF AccountsSound
<1>10. OpsSound'
  <2>1. ASSUME NEW i \in DOMAIN ops, NEW a \in Queues, ops[i].account = a
        PROVE  /\ ops[i].time <= idle'[a]
               /\ active'[a] # {} => ops[i].time < idle'[a]
    <3>1. CASE a = q
      <4>1. ops[i].time < Timepoint(q) /\ ops[i].time \in Nat
        BY <1>1, <1>2, <2>1, <3>1, OpItems DEF TypeOK
      <4>2. QED BY <1>2, <1>8, <3>1, <4>1
    <3>2. CASE a # q
      BY <1>1, <1>8, <2>1, <3>2 DEF IssueInv, OpsSound
    <3>3. QED BY <3>1, <3>2
  <2>2. \A i \in DOMAIN ops : ops[i].account \in Queues
    BY <1>1, OpItems DEF TypeOK
  <2>3. QED BY <1>1, <1>5, <2>1, <2>2 DEF IssueInv, OpsSound, Reached
<1>11. TypeOK' /\ SyncTypes'
  BY <1>5, <1>7 DEF OrderInv, TypeOK, SyncTypes
<1>12. Serial' /\ ConflictsWait' /\ SyncsCover'
  BY <1>5 DEF OrderInv, IssueInv, Serial, ConflictsWait, SyncsCover, Covers, Conflict
<1>13. AccessInv'
  <2>1. CallsSound'
    <3>1. \A c \in DOMAIN calls : CallSound(c) /\ CallSound(c)'
      BY <1>5, CallRests DEF OrderInv, AccessInv, CallsSound, CallSound
    <3>2. QED BY <1>5, <3>1 DEF OrderInv, AccessInv, CallsSound
  <2>2. HomesSound' /\ ReadsCovered'
    BY <1>5 DEF OrderInv, AccessInv, HomesSound, ReadsCovered
  <2>3. WritesCovered'
    BY <1>5 DEF OrderInv, AccessInv, WritesCovered, Returns
  <2>4. QED BY <2>1, <2>2, <2>3 DEF AccessInv
<1>14. QED BY <1>9, <1>10, <1>11, <1>12, <1>13 DEF OrderInv, IssueInv

----------------------------------------------------------------------------
(***************************************************************************)
(* Waits for a device.                                                     *)
(***************************************************************************)

\* A flush without a command of its own.
LEMMA IdleFlush ==
  ASSUME TypeOK, IssueInv, NEW q \in Queues, NEW N, N = FlushWithStatus(active, idle, q, {}, {})
  PROVE  /\ Issuable(N, idle)
         /\ \A k \in DOMAIN N : N[k].reads = {} /\ N[k].writes = {}
<1>1. idle \in Fences /\ active \in [Queues -> SUBSET Fences] /\ sem \in Fences
  BY DEF TypeOK
<1>2. \A a \in Queues : idle[a] \in Nat /\ sem[a] \in Nat /\ idle[a] <= idle[a]
  BY <1>1 DEF Fences
<1>3. ASSUME NEW a \in Queues, active[a] # {}
      PROVE  /\ idle[a] > sem[a]
             /\ \A f \in active[a] : idle[a] <= f[a] + 1
             /\ \A i \in DOMAIN ops : ops[i].account = a => ops[i].time < idle[a]
  <2>1. sem[a] < idle[a] /\ \E f \in active[a] : active[a] = {f} /\ idle[a] <= f[a] + 1
    BY <1>3 DEF IssueInv, AccountsSound
  <2>2. \A i \in DOMAIN ops : ops[i].account = a => ops[i].time < idle[a]
    BY <1>3 DEF IssueInv, OpsSound
  <2>3. idle[a] > sem[a]
    BY <1>2, <2>1
  <2>4. QED BY <2>1, <2>2, <2>3
<1>4. \A i \in DOMAIN ops : ~ Meets(i, {}, {})
  BY DEF Meets
<1>5. {} \in SUBSET Buffers
  OBVIOUS
<1>6. Issuable(N, idle)
  BY <1>1, <1>2, <1>3, <1>4, <1>5, FlushIssuable
<1>7. Flushes(N, active, idle, q, {}, {})
  BY <1>1, <1>5, FlushItems
<1>8. QED BY <1>6, <1>7 DEF Flushes

LEMMA OnSyncKeeps ==
  ASSUME OrderInv, NEW q \in Queues, OnSync(q)
  PROVE  OrderInv'
<1>1. TypeOK /\ IssueInv
  BY DEF OrderInv
<1>2. PICK N : N = FlushWithStatus(active, idle, q, {}, {})
  OBVIOUS
<1>3. Issuable(N, idle) /\ \A k \in DOMAIN N : N[k].reads = {} /\ N[k].writes = {}
  BY <1>1, <1>2, IdleFlush
<1>4. /\ ops' = ops \o N /\ active' = [a \in Queues |-> {}]
      /\ idle' = idle /\ sem' = sem /\ home' = home /\ mutation' = mutation /\ use' = use
      /\ calls' = calls
      /\ syncs' = syncs \cup {[account |-> q, time |-> idle[q], upto |-> Len(ops')]}
  BY <1>2 DEF OnSync, barriers, IdleTimepoint
<1>5. Issuable(N, idle') /\ N \in Seq(Op)
  BY <1>3, <1>4 DEF Issuable
<1>6. /\ ops' \in Seq(Op) /\ active' \in [Queues -> SUBSET Fences] /\ idle' \in Fences
      /\ IssueInv'
  BY <1>1, <1>4, <1>5, IssueKeeps
<1>7. /\ \A s \in syncs : Covers(s)'
      /\ CallsSound' /\ HomesSound'
      /\ \A i \in DOMAIN ops : i \in DOMAIN ops' /\ ops'[i] = ops[i]
      /\ \A i \in DOMAIN ops' : i \notin DOMAIN ops =>
               \E k \in DOMAIN N : ops'[i] = N[k]
  BY <1>4, <1>5, IssueRests
<1>8. idle[q] \in Nat /\ Len(ops') \in Nat /\ DOMAIN ops' = 1 .. Len(ops')
  BY <1>1, <1>6, OpItems DEF TypeOK, Fences
<1>9. TypeOK' /\ SyncTypes'
  BY <1>4, <1>6, <1>8 DEF OrderInv, TypeOK, SyncTypes
<1>10. SyncsCover'
  <2>1. PICK s : s = [account |-> q, time |-> idle[q], upto |-> Len(ops')]
    OBVIOUS
  <2>2. s.upto <= Len(ops')
    BY <1>8, <2>1
  <2>3. ASSUME NEW i \in 1 .. s.upto, ops'[i].account = s.account PROVE ops'[i].time <= s.time
    <3>1. i \in DOMAIN ops' /\ ops'[i].account = q /\ s.time = idle'[q]
      BY <1>4, <1>8, <2>1, <2>3
    <3>2. QED BY <1>6, <3>1 DEF IssueInv, OpsSound
  <2>4. Covers(s)'
    BY <2>2, <2>3 DEF Covers
  <2>5. syncs' = syncs \cup {s}
    BY <1>4, <2>1
  <2>6. \A r \in syncs' : Covers(r)'
    BY <1>7, <2>4, <2>5
  <2>7. QED BY <2>6 DEF SyncsCover
<1>11. \A i \in DOMAIN ops' :
          \/ i \in DOMAIN ops /\ ops'[i] = ops[i]
          \/ ops'[i].reads = {} /\ ops'[i].writes = {}
  BY <1>3, <1>7
<1>12. WritesCovered'
  <2>1. \A i, b : Returns(i, b)' <=> Returns(i, b)
    BY <1>4 DEF Returns
  <2>2. QED BY <1>4, <1>11, <2>1 DEF OrderInv, AccessInv, WritesCovered
<1>13. ReadsCovered'
  BY <1>4, <1>11 DEF OrderInv, AccessInv, ReadsCovered
<1>14. QED BY <1>6, <1>7, <1>9, <1>10, <1>12, <1>13 DEF OrderInv, AccessInv

----------------------------------------------------------------------------
(***************************************************************************)
(* Invocations.                                                            *)
(***************************************************************************)
LEMMA CallItems ==
  ASSUME NEW s \in Seq(Call)
  PROVE  /\ DOMAIN s = 1 .. Len(s) /\ Len(s) \in Nat
         /\ \A c \in DOMAIN s :
               /\ s[c] \in Call /\ s[c].result \in ResultBuffers /\ s[c].result \in Buffers
               /\ s[c].args \in SUBSET Buffers /\ s[c].op \in Nat /\ s[c].context \in Nat
<1>1. \A o \in Call : /\ o.result \in ResultBuffers /\ o.result \in Buffers
                      /\ o.args \in SUBSET Buffers /\ o.op \in Nat /\ o.context \in Nat
  BY DEF Call, Buffers
<1>2. DOMAIN s = 1 .. Len(s) /\ Len(s) \in Nat /\ \A i \in DOMAIN s : s[i] \in Call
  OBVIOUS
<1>3. QED BY <1>1, <1>2, Zenon

\* Arguments that live on one queue: it is the account of their invocation.
LEMMA SelectedHome ==
  ASSUME TypeOK, NEW args \in Arguments, args \subseteq Live,
         \A b, d \in args : home[b] = home[d]
  PROVE  Selected(args) \in Queues /\ \A b \in args : home[b] = Selected(args)
<1>1. PICK b \in args : TRUE
  BY SchedulerAssumption
<1>2. \A c \in args : c \in Buffers /\ home[c] \in Queues
  BY DEF Live, TypeOK
<1>3. ASSUME NEW c \in args PROVE home[c] = home[b]
  OBVIOUS
<1>4. {home[c] : c \in args} = {home[b]}
  BY <1>1, <1>3
<1>5. home[b] \in Queues /\ home[b] \in Nat
  BY <1>1, <1>2, SchedulerAssumption
<1>6. \E x \in {home[b]} : \A y \in {home[b]} : x <= y
  BY <1>5
<1>7. Min({home[b]}) \in {home[b]}
  BY <1>6 DEF Min
<1>8. Selected(args) = home[b]
  BY <1>4, <1>7 DEF Selected
<1>9. QED BY <1>3, <1>5, <1>8

\* Neither operations nor barriers change.
LEMMA AccessRests ==
  ASSUME OrderInv, timeline' = timeline, ops' = ops, syncs' = syncs
  PROVE  IssueInv' /\ SyncTypes' /\ SyncsCover'
<1>1. idle' = idle /\ active' = active /\ sem' = sem
  BY DEF timeline
<1>2. AccountsSound' /\ OpsSound'
  BY <1>1 DEF OrderInv, IssueInv, AccountsSound, OpsSound, Reached
<1>3. Serial' /\ ConflictsWait'
  BY DEF OrderInv, IssueInv, Serial, ConflictsWait, Conflict
<1>4. SyncTypes' /\ SyncsCover'
  BY DEF OrderInv, SyncTypes, SyncsCover, Covers
<1>5. QED BY <1>2, <1>3, <1>4 DEF IssueInv

LEMMA MarshalKeeps ==
  ASSUME OrderInv, NEW args \in Arguments, NEW iso \in Isolations, Marshal(args, iso)
  PROVE  OrderInv'
<1>1. TypeOK /\ calls \in Seq(Call) /\ mutation \in [Buffers -> Fences]
  BY DEF OrderInv, TypeOK
<1>2. PICK context \in 1 .. contexts + 1, result \in Fresh, w \in Fences :
        /\ w = [q \in Queues |-> Max({mutation[b][q] : b \in args})]
        /\ context \in Nat
        /\ calls' = Append(calls,
                [args |-> args, result |-> result, context |-> context,
                 isolation |-> iso, op |-> 0, waits |-> w, state |-> "marshaled"])
  <2>1. PICK context \in 1 .. contexts + 1 :
          calls' = Append(calls,
                [args |-> args, result |-> CHOOSE r \in Fresh : TRUE, context |-> context,
                 isolation |-> iso, op |-> 0,
                 waits |-> [q \in Queues |-> Max({mutation[b][q] : b \in args})],
                 state |-> "marshaled"])
    BY DEF Marshal
  <2>2. (CHOOSE r \in Fresh : TRUE) \in Fresh
    BY DEF Marshal
  <2>3. [q \in Queues |-> Max({mutation[b][q] : b \in args})] \in Fences
    BY <1>1, ArgumentsFence
  <2>4. context \in Nat
    OBVIOUS
  <2>5. QED BY <2>1, <2>2, <2>3, <2>4
<1>3. PICK new : new = [args |-> args, result |-> result, context |-> context,
                        isolation |-> iso, op |-> 0, waits |-> w, state |-> "marshaled"]
  OBVIOUS
<1>4. /\ timeline' = timeline /\ home' = home /\ mutation' = mutation /\ use' = use
      /\ ops' = ops /\ syncs' = syncs /\ args \subseteq Live
  BY DEF Marshal, barriers
<1>5. /\ result \in ResultBuffers /\ home[result] = None
      /\ \A c \in DOMAIN calls : calls[c].result # result
  BY DEF Fresh
<1>6. args \in SUBSET Buffers
  BY SchedulerAssumption DEF Buffers
<1>7. new \in Call
  BY <1>2, <1>3, <1>5, <1>6 DEF Call
<1>8. /\ calls' \in Seq(Call) /\ Len(calls) \in Nat /\ DOMAIN calls = 1 .. Len(calls)
      /\ DOMAIN calls' = 1 .. (Len(calls) + 1)
      /\ \A c \in DOMAIN calls : calls'[c] = calls[c]
      /\ calls'[Len(calls) + 1] = new
  BY <1>1, <1>2, <1>3, <1>7, AppendItems
<1>9. TypeOK'
  BY <1>1, <1>4, <1>8 DEF TypeOK, timeline
<1>10. Live' = Live /\ \A a : Selected(a)' = Selected(a)
  BY <1>4 DEF Live, Selected
<1>11. new.state = "marshaled" /\ new.args = args /\ new.result = result
  BY <1>3
<1>12. \A c \in DOMAIN calls' : (c \in DOMAIN calls /\ calls'[c] = calls[c]) \/ c = Len(calls) + 1
  BY <1>8
<1>13. ASSUME NEW c \in DOMAIN calls' PROVE CallSound(c)'
  <2>1. CASE c \in DOMAIN calls
    <3>1. CallSound(c) /\ calls'[c] = calls[c]
      BY <1>8, <2>1 DEF OrderInv, AccessInv, CallsSound
    <3>2. calls[c].state # "marshaled" => calls[c].op \in DOMAIN ops
      BY <3>1 DEF CallSound
    <3>3. QED BY <1>4, <2>1, <3>1, <3>2, CallRests
  <2>2. CASE c \notin DOMAIN calls
    <3>1. c = Len(calls) + 1 /\ calls'[c] = new
      BY <1>8, <1>12, <2>2
    <3>2. QED BY <1>4, <1>5, <1>10, <1>11, <3>1 DEF CallSound
  <2>3. QED BY <2>1, <2>2
<1>14. CallsSound'
  <2>1. ASSUME NEW c \in DOMAIN calls', NEW d \in DOMAIN calls', calls'[c].result = calls'[d].result
        PROVE  c = d
    BY <1>5, <1>8, <1>11, <1>12, <2>1 DEF OrderInv, AccessInv, CallsSound
  <2>2. QED BY <1>13, <2>1 DEF CallsSound
<1>15. \A i, b : Returns(i, b) => Returns(i, b)'
  BY <1>8 DEF Returns
<1>16. WritesCovered' /\ ReadsCovered' /\ HomesSound'
  BY <1>4, <1>15 DEF OrderInv, AccessInv, WritesCovered, ReadsCovered, HomesSound
<1>17. QED BY <1>4, <1>9, <1>14, <1>16, AccessRests DEF OrderInv, AccessInv

LEMMA MarshalThrowsKeeps ==
  ASSUME OrderInv, NEW iso \in Isolations, MarshalThrows(iso)
  PROVE  OrderInv'
<1>1. /\ timeline' = timeline /\ home' = home /\ mutation' = mutation /\ use' = use
      /\ ops' = ops /\ syncs' = syncs /\ calls' = calls
  BY DEF MarshalThrows, barriers
<1>2. TypeOK'
  BY <1>1 DEF OrderInv, TypeOK, timeline
<1>3. CallsSound' /\ HomesSound'
  <2>1. \A c \in DOMAIN calls : CallSound(c) /\ CallSound(c)'
    BY <1>1, CallRests DEF OrderInv, AccessInv, CallsSound, CallSound
  <2>2. QED BY <1>1, <2>1 DEF OrderInv, AccessInv, CallsSound, HomesSound
<1>4. WritesCovered' /\ ReadsCovered'
  BY <1>1 DEF OrderInv, AccessInv, WritesCovered, ReadsCovered, Returns
<1>5. QED BY <1>1, <1>2, <1>3, <1>4, AccessRests DEF OrderInv, AccessInv

LEMMA FunctionList ==
  ASSUME NEW n \in Nat, NEW S, NEW f \in [1 .. n -> S]
  PROVE  f \in Seq(S)
OBVIOUS

\* One call is marked, and keeps all but its state and its submission.
Marked(c, st, o) ==
    /\ calls' \in Seq(Call) /\ DOMAIN calls' = DOMAIN calls
    /\ calls'[c].args = calls[c].args /\ calls'[c].result = calls[c].result
    /\ calls'[c].state = st /\ calls'[c].op = o
    /\ \A d \in DOMAIN calls : d # c => calls'[d] = calls[d]

LEMMA MarkCall ==
  ASSUME calls \in Seq(Call), NEW c \in DOMAIN calls, NEW o \in Nat,
         NEW st \in {"marshaled", "scheduled", "submitted", "complete", "failed", "imported"},
         calls' = [calls EXCEPT ![c].state = st, ![c].op = o]
  PROVE  Marked(c, st, o)
<1>1. calls[c] \in Call /\ DOMAIN calls = 1 .. Len(calls) /\ Len(calls) \in Nat
  BY CallItems
<1>2. PICK k : k = [calls[c] EXCEPT !.state = st, !.op = o]
  OBVIOUS
<1>3. k \in Call /\ k.args = calls[c].args /\ k.result = calls[c].result /\ k.state = st /\ k.op = o
  BY <1>1, <1>2 DEF Call
<1>4. /\ DOMAIN calls' = DOMAIN calls /\ calls'[c] = k
      /\ \A d \in DOMAIN calls : d # c => calls'[d] = calls[d]
  BY <1>2
<1>5. \A d \in DOMAIN calls : calls'[d] \in Call
  BY <1>3, <1>4, CallItems
<1>6. calls' \in [1 .. Len(calls) -> Call]
  BY <1>1, <1>4, <1>5
<1>7. calls' \in Seq(Call)
  BY <1>1, <1>6, FunctionList
<1>8. QED BY <1>3, <1>4, <1>7 DEF Marked

\* The same, when only the state changes.
LEMMA MarkState ==
  ASSUME calls \in Seq(Call), NEW c \in DOMAIN calls,
         NEW st \in {"marshaled", "scheduled", "submitted", "complete", "failed", "imported"},
         calls' = [calls EXCEPT ![c].state = st]
  PROVE  Marked(c, st, calls[c].op)
<1>1. calls[c] \in Call /\ DOMAIN calls = 1 .. Len(calls) /\ Len(calls) \in Nat
  BY CallItems
<1>2. PICK k : k = [calls[c] EXCEPT !.state = st]
  OBVIOUS
<1>3. /\ k \in Call /\ k.args = calls[c].args /\ k.result = calls[c].result
      /\ k.state = st /\ k.op = calls[c].op
  BY <1>1, <1>2 DEF Call
<1>4. /\ DOMAIN calls' = DOMAIN calls /\ calls'[c] = k
      /\ \A d \in DOMAIN calls : d # c => calls'[d] = calls[d]
  BY <1>2
<1>5. \A d \in DOMAIN calls : calls'[d] \in Call
  BY <1>3, <1>4, CallItems
<1>6. calls' \in [1 .. Len(calls) -> Call]
  BY <1>1, <1>4, <1>5
<1>7. calls' \in Seq(Call)
  BY <1>1, <1>6, FunctionList
<1>8. QED BY <1>3, <1>4, <1>7 DEF Marked

\* One operation is marked.
LEMMA MarkOp ==
  ASSUME ops \in Seq(Op), NEW i \in DOMAIN ops, NEW st \in {"held", "queued", "done", "lost"},
         ops' = [ops EXCEPT ![i].state = st]
  PROVE  /\ ops' \in Seq(Op) /\ DOMAIN ops' = DOMAIN ops /\ Len(ops') = Len(ops)
         /\ ops'[i].state = st
         /\ \A j \in DOMAIN ops :
               /\ ops'[j].account = ops[j].account /\ ops'[j].time = ops[j].time
               /\ ops'[j].waits = ops[j].waits
               /\ ops'[j].reads = ops[j].reads /\ ops'[j].writes = ops[j].writes
               /\ j # i => ops'[j].state = ops[j].state
<1>1. ops[i] \in Op /\ DOMAIN ops = 1 .. Len(ops) /\ Len(ops) \in Nat
  BY OpItems
<1>2. PICK k : k = [ops[i] EXCEPT !.state = st]
  OBVIOUS
<1>3. /\ k \in Op /\ k.account = ops[i].account /\ k.time = ops[i].time /\ k.waits = ops[i].waits
      /\ k.reads = ops[i].reads /\ k.writes = ops[i].writes /\ k.state = st
  BY <1>1, <1>2 DEF Op
<1>4. /\ DOMAIN ops' = DOMAIN ops /\ ops'[i] = k
      /\ \A j \in DOMAIN ops : j # i => ops'[j] = ops[j]
  BY <1>2
<1>5. \A j \in DOMAIN ops : ops'[j] \in Op
  BY <1>3, <1>4, OpItems
<1>6. ops' \in [1 .. Len(ops) -> Op]
  BY <1>1, <1>4, <1>5
<1>7. ops' \in Seq(Op) /\ Len(ops') = Len(ops)
  BY <1>1, <1>6
<1>8. ASSUME NEW j \in DOMAIN ops
      PROVE  /\ ops'[j].account = ops[j].account /\ ops'[j].time = ops[j].time
             /\ ops'[j].waits = ops[j].waits
             /\ ops'[j].reads = ops[j].reads /\ ops'[j].writes = ops[j].writes
             /\ j # i => ops'[j].state = ops[j].state
  <2>1. CASE j = i
    BY <1>3, <1>4, <2>1
  <2>2. CASE j # i
    BY <1>4, <2>2
  <2>3. QED BY <2>1, <2>2
<1>9. QED BY <1>3, <1>4, <1>7, <1>8

\* Marking an operation that is not done as something else that is not done
\* changes nothing about the order.
LEMMA MarkRests ==
  ASSUME OrderInv, NEW i \in DOMAIN ops, NEW st \in {"held", "queued", "lost"},
         ops[i].state # "done", ops' = [ops EXCEPT ![i].state = st],
         timeline' = timeline, syncs' = syncs
  PROVE  ops' \in Seq(Op) /\ IssueInv' /\ SyncTypes' /\ SyncsCover'
<1>1. /\ ops' \in Seq(Op) /\ DOMAIN ops' = DOMAIN ops /\ Len(ops') = Len(ops)
      /\ ops'[i].state = st
      /\ \A j \in DOMAIN ops :
               /\ ops'[j].account = ops[j].account /\ ops'[j].time = ops[j].time
               /\ ops'[j].waits = ops[j].waits
               /\ ops'[j].reads = ops[j].reads /\ ops'[j].writes = ops[j].writes
               /\ j # i => ops'[j].state = ops[j].state
  BY MarkOp DEF OrderInv, TypeOK
<1>2. idle' = idle /\ active' = active /\ sem' = sem
  BY DEF timeline
<1>3. \A j \in DOMAIN ops : ops'[j].state = "done" <=> ops[j].state = "done"
  BY <1>1
<1>4. AccountsSound' /\ OpsSound'
  <2>1. AccountsSound'
    BY <1>2 DEF OrderInv, IssueInv, AccountsSound
  <2>2. ASSUME NEW j \in DOMAIN ops
        PROVE  /\ ops[j].time <= idle[ops[j].account]
               /\ active[ops[j].account] # {} => ops[j].time < idle[ops[j].account]
               /\ ops[j].time <= ops[j].waits[ops[j].account] + 1
               /\ ops'[j].state = "done" <=> ops[j].time <= sem[ops[j].account]
               /\ ops'[j].state = "done" => Reached(ops[j].waits)
    BY <1>3 DEF OrderInv, IssueInv, OpsSound
  <2>3. QED BY <1>1, <1>2, <2>1, <2>2 DEF OpsSound, Reached
<1>5. Serial'
  BY <1>1 DEF OrderInv, IssueInv, Serial
<1>6. ConflictsWait'
  BY <1>1 DEF OrderInv, IssueInv, ConflictsWait, Conflict
<1>7. SyncTypes'
  BY DEF OrderInv, SyncTypes
<1>8. SyncsCover'
  <2>1. ASSUME NEW s \in syncs PROVE Covers(s)'
    <3>1. s.upto \in Nat /\ s.upto <= Len(ops) /\ DOMAIN ops = 1 .. Len(ops) /\ Len(ops) \in Nat
      BY OpItems DEF OrderInv, TypeOK, SyncTypes, SyncsCover, Covers
    <3>2. \A j \in 1 .. s.upto : j \in DOMAIN ops
      BY <3>1
    <3>3. QED BY <1>1, <3>2 DEF OrderInv, SyncsCover, Covers
  <2>2. QED BY <2>1 DEF SyncsCover
<1>9. QED BY <1>1, <1>4, <1>5, <1>6, <1>7, <1>8 DEF IssueInv

LEMMA CallKnown ==
  ASSUME OrderInv, NEW c \in DOMAIN calls
  PROVE  CallSound(c) /\ \A d \in DOMAIN calls : calls[c].result = calls[d].result => c = d
BY DEF OrderInv, AccessInv, CallsSound

\* A step of one call that marks its submission as being not done.
LEMMA CallMarks ==
  ASSUME OrderInv, NEW c \in DOMAIN calls, calls[c].state = "scheduled",
         NEW st \in {"submitted", "failed"}, NEW os \in {"queued", "lost"},
         ops' = [ops EXCEPT ![calls[c].op].state = os],
         calls' = [calls EXCEPT ![c].state = st],
         timeline' = timeline, barriers' = barriers, syncs' = syncs
  PROVE  OrderInv'
<1>1. CallSound(c) /\ \A d \in DOMAIN calls : calls[c].result = calls[d].result => c = d
  BY CallKnown
<1>2. PICK i \in DOMAIN ops : i = calls[c].op /\ ops[i].state = "held" /\ ops[i].writes = {calls[c].result}
  BY <1>1 DEF CallSound
<1>3. /\ ops' \in Seq(Op) /\ DOMAIN ops' = DOMAIN ops
      /\ \A j \in DOMAIN ops :
               /\ ops'[j].account = ops[j].account /\ ops'[j].time = ops[j].time
               /\ ops'[j].waits = ops[j].waits
               /\ ops'[j].reads = ops[j].reads /\ ops'[j].writes = ops[j].writes
               /\ j # i => ops'[j].state = ops[j].state
  BY <1>2, MarkOp DEF OrderInv, TypeOK
<1>4. /\ calls' \in Seq(Call) /\ DOMAIN calls' = DOMAIN calls
      /\ calls'[c].args = calls[c].args /\ calls'[c].result = calls[c].result
      /\ calls'[c].state = st /\ calls'[c].op = calls[c].op
      /\ \A d \in DOMAIN calls : d # c => calls'[d] = calls[d]
  BY MarkState DEF OrderInv, TypeOK, Marked
<1>5. IssueInv' /\ SyncTypes' /\ SyncsCover'
  BY <1>2, MarkRests
<1>6. home' = home /\ mutation' = mutation /\ use' = use
  BY DEF barriers
<1>7. TypeOK'
  BY <1>3, <1>4, <1>6 DEF OrderInv, TypeOK, timeline
<1>8. Live' = Live /\ \A a : a = a => Selected(calls[c].args) = Selected(calls[c].args)
  BY <1>6 DEF Live
<1>9. ASSUME NEW d \in DOMAIN calls PROVE CallSound(d)'
  <2>1. CallSound(d)
    BY CallKnown
  <2>2. calls'[d].args = calls[d].args /\ calls'[d].result = calls[d].result /\ calls'[d].op = calls[d].op
    BY <1>4
  <2>3. Selected(calls[d].args)' = Selected(calls[d].args)
    BY <1>6, <2>2 DEF Selected
  <2>4. calls'[d].state # "marshaled" => calls[d].state # "marshaled"
    BY <1>4
  <2>5. calls'[d].state # "imported" => calls[d].state # "imported"
    BY <1>4
  <2>6. calls'[d].state = "scheduled" => ops'[calls[d].op].state = "held"
    <3>1. SUFFICES ASSUME calls'[d].state = "scheduled" PROVE ops'[calls[d].op].state = "held"
      OBVIOUS
    <3>2. d # c /\ calls[d].state = "scheduled"
      BY <1>4, <3>1
    <3>3. ops[calls[d].op].state = "held" /\ ops[calls[d].op].writes = {calls[d].result}
          /\ calls[d].op \in DOMAIN ops
      BY <2>1, <3>2 DEF CallSound
    <3>4. calls[d].op # i
      BY <1>1, <1>2, <3>2, <3>3
    <3>5. QED BY <1>3, <3>3, <3>4
  <2>7. QED BY <1>3, <1>6, <1>8, <2>1, <2>2, <2>3, <2>4, <2>5, <2>6 DEF CallSound
<1>10. CallsSound'
  <2>1. \A d \in DOMAIN calls : calls'[d].result = calls[d].result
    BY <1>4
  <2>2. QED BY <1>4, <1>9, <2>1 DEF OrderInv, AccessInv, CallsSound
<1>11. \A j, b : Returns(j, b) => Returns(j, b)'
  <2>1. \A d \in DOMAIN calls : /\ calls'[d].result = calls[d].result /\ calls'[d].op = calls[d].op
                                /\ calls[d].state # "marshaled" => calls'[d].state # "marshaled"
    BY <1>4
  <2>2. QED BY <1>4, <2>1 DEF Returns
<1>12. WritesCovered' /\ ReadsCovered' /\ HomesSound'
  BY <1>3, <1>6, <1>11 DEF OrderInv, AccessInv, WritesCovered, ReadsCovered, HomesSound
<1>13. QED BY <1>5, <1>7, <1>10, <1>12 DEF OrderInv, AccessInv

LEMMA SubmitKeeps ==
  ASSUME OrderInv, NEW c \in DOMAIN calls, Submit(c)
  PROVE  OrderInv'
BY CallMarks DEF Submit

LEMMA FailKeeps ==
  ASSUME OrderInv, NEW c \in DOMAIN calls, Fail(c)
  PROVE  OrderInv'
BY CallMarks DEF Fail

LEMMA CompleteKeeps ==
  ASSUME OrderInv, NEW c \in DOMAIN calls, Complete(c)
  PROVE  OrderInv'
<1>1. /\ calls[c].state = "submitted" /\ calls' = [calls EXCEPT ![c].state = "complete"]
      /\ timeline' = timeline /\ ops' = ops /\ syncs' = syncs
      /\ home' = home /\ mutation' = mutation /\ use' = use
  BY DEF Complete, barriers
<1>2. /\ calls' \in Seq(Call) /\ DOMAIN calls' = DOMAIN calls
      /\ calls'[c].args = calls[c].args /\ calls'[c].result = calls[c].result
      /\ calls'[c].state = "complete" /\ calls'[c].op = calls[c].op
      /\ \A d \in DOMAIN calls : d # c => calls'[d] = calls[d]
  BY <1>1, MarkState DEF OrderInv, TypeOK, Marked
<1>3. TypeOK'
  BY <1>1, <1>2 DEF OrderInv, TypeOK, timeline
<1>4. Live' = Live
  BY <1>1 DEF Live
<1>5. ASSUME NEW d \in DOMAIN calls PROVE CallSound(d)'
  <2>1. CallSound(d)
    BY CallKnown
  <2>2. CASE d = c
    <3>1. Selected(calls[d].args)' = Selected(calls[d].args)
      BY <1>1, <1>2, <2>2 DEF Selected
    <3>2. QED BY <1>1, <1>2, <1>4, <2>1, <2>2, <3>1 DEF CallSound
  <2>3. CASE d # c
    <3>1. calls'[d] = calls[d]
      BY <1>2, <2>3
    <3>2. calls[d].state # "marshaled" => calls[d].op \in DOMAIN ops
      BY <2>1 DEF CallSound
    <3>3. QED BY <1>1, <2>1, <3>1, <3>2, CallRests
  <2>4. QED BY <2>2, <2>3
<1>6. CallsSound'
  <2>1. \A d \in DOMAIN calls : calls'[d].result = calls[d].result
    BY <1>2
  <2>2. QED BY <1>2, <1>5, <2>1 DEF OrderInv, AccessInv, CallsSound
<1>7. \A j, b : Returns(j, b) => Returns(j, b)'
  <2>1. \A d \in DOMAIN calls : /\ calls'[d].result = calls[d].result /\ calls'[d].op = calls[d].op
                                /\ calls[d].state # "marshaled" => calls'[d].state # "marshaled"
    BY <1>2
  <2>2. QED BY <1>2, <2>1 DEF Returns
<1>8. WritesCovered' /\ ReadsCovered' /\ HomesSound'
  BY <1>1, <1>7 DEF OrderInv, AccessInv, WritesCovered, ReadsCovered, HomesSound
<1>9. QED BY <1>1, <1>3, <1>6, <1>8, AccessRests DEF OrderInv, AccessInv

\* A result is imported: its barriers take the timepoint of the only operation
\* that wrote it.
LEMMA ImportKeeps ==
  ASSUME SameQueue, OrderInv, NEW c \in DOMAIN calls, Import(c)
  PROVE  OrderInv'
<1>1. TypeOK /\ HomesSound /\ calls \in Seq(Call)
  BY DEF OrderInv, AccessInv, TypeOK
<1>2. CallSound(c) /\ \A d \in DOMAIN calls : calls[c].result = calls[d].result => c = d
  BY CallKnown
<1>3. PICK r \in ResultBuffers : r = calls[c].result
  BY <1>1, CallItems
<1>4. PICK i \in DOMAIN ops : i = calls[c].op
  BY <1>2 DEF CallSound, Import
<1>5. PICK q \in Queues : q = Selected(calls[c].args)
  BY <1>1, <1>2, SelectedHome DEF CallSound, SameQueue
<1>6. /\ ops[i].account = q /\ ops[i].writes = {r} /\ ops[i].time \in Nat
      /\ home[r] = None /\ r \in Buffers
  <2>1. ops[i].time \in Nat
    BY <1>1, OpItems DEF TypeOK
  <2>2. QED BY <1>2, <1>3, <1>4, <1>5, <2>1 DEF CallSound, Import, Buffers
<1>7. PICK now : now = CoarseSignal(c)
  OBVIOUS
<1>8. now \in Fences /\ now[q] = ops[i].time
  BY <1>4, <1>6, <1>7, AtFence DEF CoarseSignal
<1>9. /\ home' = [home EXCEPT ![r] = q]
      /\ mutation' = [mutation EXCEPT ![r] = now]
      /\ use' = [use EXCEPT ![r] = Join(@, now)]
      /\ calls' = [calls EXCEPT ![c].state = "imported"]
      /\ timeline' = timeline /\ ops' = ops /\ syncs' = syncs
  BY <1>3, <1>5, <1>7 DEF Import
<1>10. /\ calls' \in Seq(Call) /\ DOMAIN calls' = DOMAIN calls
       /\ calls'[c].args = calls[c].args /\ calls'[c].result = calls[c].result
       /\ calls'[c].state = "imported" /\ calls'[c].op = calls[c].op
       /\ \A d \in DOMAIN calls : d # c => calls'[d] = calls[d]
  BY <1>1, <1>9, MarkState DEF Marked
<1>11. home \in [Buffers -> Queues \cup {None}] /\ mutation \in [Buffers -> Fences] /\ use \in [Buffers -> Fences]
  BY <1>1 DEF TypeOK
<1>12. /\ home'[r] = q /\ q # None
       /\ \A b \in Buffers : b # r => home'[b] = home[b] /\ mutation'[b] = mutation[b] /\ use'[b] = use[b]
       /\ mutation'[r] = now
  BY <1>6, <1>9, <1>11, SchedulerAssumption DEF None
<1>13. use' \in [Buffers -> Fences]
  <2>1. PICK j : j = Join(use[r], now)
    OBVIOUS
  <2>2. j \in Fences
    BY <1>6, <1>8, <1>11, <2>1, JoinFence
  <2>3. use' = [use EXCEPT ![r] = j]
    BY <1>9, <2>1
  <2>4. QED BY <1>11, <2>2, <2>3
<1>14. TypeOK'
  <2>1. home' \in [Buffers -> Queues \cup {None}] /\ mutation' \in [Buffers -> Fences]
    BY <1>8, <1>9, <1>11
  <2>2. QED BY <1>1, <1>9, <1>10, <1>13, <2>1 DEF TypeOK, timeline
<1>15. r \notin Live /\ Live \subseteq Live'
  BY <1>6, <1>12 DEF Live
<1>16. ASSUME NEW d \in DOMAIN calls PROVE CallSound(d)'
  <2>1. CallSound(d) /\ calls[d].args \subseteq Live /\ calls[d].args \subseteq Buffers
    BY CallKnown DEF CallSound, Live
  <2>2. /\ calls'[d].args = calls[d].args /\ calls'[d].result = calls[d].result
        /\ calls'[d].op = calls[d].op
        /\ calls'[d].state # "marshaled" => calls[d].state # "marshaled"
        /\ calls'[d].state = "scheduled" => calls[d].state = "scheduled"
    BY <1>10 DEF Import
  <2>3. Selected(calls[d].args)' = Selected(calls[d].args)
    <3>1. \A b \in calls[d].args : home'[b] = home[b]
      BY <1>12, <1>15, <2>1
    <3>2. {home'[b] : b \in calls[d].args} = {home[b] : b \in calls[d].args}
      BY <3>1
    <3>3. QED BY <2>2, <3>2 DEF Selected
  <2>4. calls'[d].state # "imported" => home'[calls[d].result] = None
    <3>1. SUFFICES ASSUME calls'[d].state # "imported" PROVE home'[calls[d].result] = None
      OBVIOUS
    <3>2. d # c /\ calls'[d] = calls[d]
      BY <1>10, <3>1
    <3>3. calls[d].result # r /\ calls[d].result \in Buffers
      BY <1>1, <1>2, <1>3, <3>2, CallItems
    <3>4. QED BY <1>12, <2>1, <3>1, <3>2, <3>3 DEF CallSound
  <2>5. calls[d].args \subseteq Live'
    BY <1>15, <2>1
  <2>6. QED BY <1>9, <2>1, <2>2, <2>3, <2>4, <2>5 DEF CallSound
<1>17. CallsSound'
  <2>1. \A d \in DOMAIN calls : calls'[d].result = calls[d].result
    BY <1>10
  <2>2. QED BY <1>10, <1>16, <2>1 DEF OrderInv, AccessInv, CallsSound
<1>18. HomesSound'
  <2>1. \A b \in Allocated : b \in Buffers /\ b # r
    BY SchedulerAssumption DEF Buffers
  <2>2. QED BY <1>1, <1>12, <2>1 DEF HomesSound
<1>19. \A j \in DOMAIN ops : ops[j].writes \in SUBSET Buffers /\ ops[j].reads \in SUBSET Buffers
  BY <1>1, OpItems DEF TypeOK
<1>20. WritesCovered'
  <2>1. ASSUME NEW j \in DOMAIN ops, NEW b \in ops[j].writes
        PROVE  \/ home'[b] = None /\ Returns(j, b)'
               \/ /\ home'[b] # None /\ ops[j].account = home'[b]
                  /\ ops[j].time <= mutation'[b][home'[b]]
    <3>1. \/ home[b] = None /\ Returns(j, b)
          \/ /\ home[b] # None /\ ops[j].account = home[b]
             /\ ops[j].time <= mutation[b][home[b]]
      BY DEF OrderInv, AccessInv, WritesCovered
    <3>2. CASE b = r
      <4>1. Returns(j, r)
        BY <1>6, <3>1, <3>2
      <4>2. j = i
        BY <1>2, <1>3, <1>4, <4>1 DEF Returns
      <4>3. ops[i].time <= ops[i].time
        BY <1>6
      <4>4. QED BY <1>6, <1>8, <1>12, <3>2, <4>2, <4>3
    <3>3. CASE b # r
      <4>1. home'[b] = home[b] /\ mutation'[b] = mutation[b]
        BY <1>12, <1>19, <3>3
      <4>2. Returns(j, b) => Returns(j, b)'
        <5>1. \A d \in DOMAIN calls : /\ calls'[d].result = calls[d].result /\ calls'[d].op = calls[d].op
                                      /\ calls[d].state # "marshaled" => calls'[d].state # "marshaled"
          BY <1>10
        <5>2. QED BY <1>10, <5>1 DEF Returns
      <4>3. QED BY <3>1, <4>1, <4>2
    <3>4. QED BY <3>2, <3>3
  <2>2. QED BY <1>9, <2>1 DEF WritesCovered, Returns
<1>21. ReadsCovered'
  <2>1. ASSUME NEW j \in DOMAIN ops, NEW b \in ops[j].reads
        PROVE  /\ home'[b] # None
               /\ ops[j].account = home'[b] \/ ops[j].time <= use'[b][ops[j].account]
    <3>1. /\ home[b] # None
          /\ ops[j].account = home[b] \/ ops[j].time <= use[b][ops[j].account]
      BY DEF OrderInv, AccessInv, ReadsCovered
    <3>2. b # r /\ b \in Buffers
      BY <1>6, <1>19, <3>1
    <3>3. QED BY <1>12, <3>1, <3>2
  <2>2. QED BY <1>9, <2>1 DEF ReadsCovered
<1>22. QED BY <1>9, <1>14, <1>17, <1>18, <1>20, <1>21, AccessRests DEF OrderInv, AccessInv

\* The device: what is executed is the next of its account.
LEMMA ExecuteKeeps ==
  ASSUME OrderInv, NEW i \in DOMAIN ops, Execute(i)
  PROVE  OrderInv'
<1>1. /\ ops[i].state = "queued" /\ Reached(ops[i].waits)
      /\ ops' = [ops EXCEPT ![i].state = "done"]
      /\ sem' = [sem EXCEPT ![ops[i].account] = ops[i].time]
      /\ idle' = idle /\ active' = active /\ home' = home /\ mutation' = mutation /\ use' = use
      /\ calls' = calls /\ syncs' = syncs
  BY DEF Execute, barriers
<1>2. /\ ops' \in Seq(Op) /\ DOMAIN ops' = DOMAIN ops /\ Len(ops') = Len(ops)
      /\ ops'[i].state = "done"
      /\ \A j \in DOMAIN ops :
               /\ ops'[j].account = ops[j].account /\ ops'[j].time = ops[j].time
               /\ ops'[j].waits = ops[j].waits
               /\ ops'[j].reads = ops[j].reads /\ ops'[j].writes = ops[j].writes
               /\ j # i => ops'[j].state = ops[j].state
  BY <1>1, MarkOp DEF OrderInv, TypeOK
<1>3. /\ DOMAIN ops = 1 .. Len(ops) /\ Len(ops) \in Nat
      /\ \A j \in DOMAIN ops : /\ ops[j].account \in Queues /\ ops[j].time \in Nat
                               /\ \A a \in Queues : ops[j].waits[a] \in Nat
  BY OpItems DEF OrderInv, TypeOK
<1>4. PICK q \in Queues : q = ops[i].account
  BY <1>3
<1>5. sem \in Fences /\ \A a \in Queues : sem[a] \in Nat /\ idle[a] \in Nat
  BY DEF OrderInv, TypeOK, Fences
<1>6. sem' \in Fences /\ sem'[q] = ops[i].time /\ \A a \in Queues : a # q => sem'[a] = sem[a]
  BY <1>1, <1>3, <1>4, <1>5 DEF Fences
<1>7. ops[i].time = sem[q] + 1
  <2>1. ~(ops[i].time <= sem[q])
    BY <1>1, <1>4 DEF OrderInv, IssueInv, OpsSound
  <2>2. ops[i].time <= ops[i].waits[q] + 1 /\ ops[i].waits[q] <= sem[q]
    BY <1>1, <1>4 DEF OrderInv, IssueInv, OpsSound, Reached
  <2>3. QED BY <1>3, <1>4, <1>5, <2>1, <2>2
<1>8. \A a \in Queues : sem[a] <= sem'[a] /\ sem'[a] \in Nat
  BY <1>5, <1>6, <1>7
<1>9. AccountsSound'
  <2>1. ops[i].time <= idle[q] /\ (active[q] # {} => ops[i].time < idle[q])
    BY <1>4 DEF OrderInv, IssueInv, OpsSound
  <2>2. ASSUME NEW a \in Queues
        PROVE  /\ sem'[a] <= idle[a]
               /\ active[a] # {} => /\ sem'[a] < idle[a]
                                    /\ \E f \in active[a] : active[a] = {f} /\ idle[a] <= f[a] + 1
    <3>1. /\ sem[a] <= idle[a]
          /\ active[a] # {} => /\ sem[a] < idle[a]
                               /\ \E f \in active[a] : active[a] = {f} /\ idle[a] <= f[a] + 1
      BY DEF OrderInv, IssueInv, AccountsSound
    <3>2. CASE a = q
      BY <1>6, <2>1, <3>1, <3>2
    <3>3. CASE a # q
      BY <1>6, <3>1, <3>3
    <3>4. QED BY <3>2, <3>3
  <2>3. QED BY <1>1, <2>2 DEF AccountsSound
<1>10. OpsSound'
  <2>1. ASSUME NEW j \in DOMAIN ops
        PROVE  /\ ops[j].time <= idle[ops[j].account]
               /\ active[ops[j].account] # {} => ops[j].time < idle[ops[j].account]
               /\ ops[j].time <= ops[j].waits[ops[j].account] + 1
               /\ ops'[j].state = "done" <=> ops[j].time <= sem'[ops[j].account]
               /\ ops'[j].state = "done" => \A a \in Queues : ops[j].waits[a] <= sem'[a]
    <3>1. /\ ops[j].time <= idle[ops[j].account]
          /\ active[ops[j].account] # {} => ops[j].time < idle[ops[j].account]
          /\ ops[j].time <= ops[j].waits[ops[j].account] + 1
          /\ ops[j].state = "done" <=> ops[j].time <= sem[ops[j].account]
          /\ ops[j].state = "done" => \A a \in Queues : ops[j].waits[a] <= sem[a]
      BY DEF OrderInv, IssueInv, OpsSound, Reached
    <3>2. CASE j = i
      <4>1. \A a \in Queues : ops[i].waits[a] <= sem'[a]
        <5>1. \A a \in Queues : ops[i].waits[a] <= sem[a]
          BY <1>1 DEF Reached
        <5>2. QED BY <1>3, <1>5, <1>8, <5>1
      <4>2. ops[i].time <= sem'[ops[i].account]
        BY <1>3, <1>4, <1>6
      <4>3. QED BY <1>2, <3>1, <3>2, <4>1, <4>2
    <3>3. CASE j # i
      <4>1. ops[j].time <= sem[ops[j].account] <=> ops[j].time <= sem'[ops[j].account]
        <5>1. CASE ops[j].account = q
          <6>1. ops[j].time # ops[i].time
            <7>1. i \in Nat /\ j \in Nat /\ (i < j \/ j < i)
              BY <1>3, <3>3
            <7>2. ops[i].time < ops[j].time \/ ops[j].time < ops[i].time
              BY <1>4, <5>1, <7>1 DEF OrderInv, IssueInv, Serial
            <7>3. QED BY <1>3, <7>2
          <6>2. QED BY <1>3, <1>5, <1>6, <1>7, <5>1, <6>1
        <5>2. CASE ops[j].account # q
          BY <1>3, <1>6, <5>2
        <5>3. QED BY <5>1, <5>2
      <4>2. ops'[j].state = ops[j].state
        BY <1>2, <3>3
      <4>3. ops[j].state = "done" => \A a \in Queues : ops[j].waits[a] <= sem'[a]
        BY <1>3, <1>5, <1>8, <3>1
      <4>4. QED BY <3>1, <4>1, <4>2, <4>3
    <3>4. QED BY <3>2, <3>3
  <2>2. ASSUME NEW j \in DOMAIN ops'
        PROVE  /\ ops'[j].time <= idle'[ops'[j].account]
               /\ active'[ops'[j].account] # {} => ops'[j].time < idle'[ops'[j].account]
               /\ ops'[j].time <= ops'[j].waits[ops'[j].account] + 1
               /\ ops'[j].state = "done" <=> ops'[j].time <= sem'[ops'[j].account]
               /\ ops'[j].state = "done" => \A a \in Queues : ops'[j].waits[a] <= sem'[a]
    <3>1. /\ j \in DOMAIN ops
          /\ ops'[j].account = ops[j].account /\ ops'[j].time = ops[j].time
          /\ ops'[j].waits = ops[j].waits /\ idle' = idle /\ active' = active
      BY <1>1, <1>2
    <3> HIDE <1>1, <1>2
    <3>2. QED BY <2>1, <3>1, Zenon
  <2>3. QED BY <2>2 DEF OpsSound, Reached
<1>11. Serial' /\ ConflictsWait'
  <2>1. Serial'
    BY <1>2 DEF OrderInv, IssueInv, Serial
  <2>2. ConflictsWait'
    BY <1>2 DEF OrderInv, IssueInv, ConflictsWait, Conflict
  <2>3. QED BY <2>1, <2>2
<1>12. SyncTypes' /\ SyncsCover'
  <2>1. ASSUME NEW s \in syncs PROVE Covers(s)'
    <3>1. s.upto \in Nat /\ s.upto <= Len(ops)
      BY DEF OrderInv, SyncTypes, SyncsCover, Covers
    <3>2. \A j \in 1 .. s.upto : j \in DOMAIN ops
      BY <1>3, <3>1
    <3>3. QED BY <1>2, <3>2 DEF OrderInv, SyncsCover, Covers
  <2>2. QED BY <1>1, <2>1 DEF OrderInv, SyncTypes, SyncsCover
<1>13. TypeOK'
  BY <1>1, <1>2, <1>6 DEF OrderInv, TypeOK
<1>14. ASSUME NEW c \in DOMAIN calls PROVE CallSound(c)'
  <2>1. CallSound(c)
    BY CallKnown
  <2>2. Live' = Live /\ Selected(calls[c].args)' = Selected(calls[c].args)
    BY <1>1 DEF Live, Selected
  <2>3. calls[c].state = "scheduled" => calls[c].op # i /\ calls[c].op \in DOMAIN ops
    BY <1>1, <2>1 DEF CallSound
  <2>4. calls[c].state = "scheduled" => ops'[calls[c].op].state = "held"
    BY <1>2, <2>1, <2>3 DEF CallSound
  <2>5. QED BY <1>1, <1>2, <2>1, <2>2, <2>4 DEF CallSound
<1>15. CallsSound' /\ HomesSound'
  BY <1>1, <1>14 DEF OrderInv, AccessInv, CallsSound, HomesSound
<1>16. WritesCovered'
  <2>1. \A j, b : Returns(j, b)' <=> Returns(j, b)
    BY <1>1 DEF Returns
  <2>2. QED BY <1>1, <1>2, <2>1 DEF OrderInv, AccessInv, WritesCovered
<1>17. ReadsCovered'
  BY <1>1, <1>2 DEF OrderInv, AccessInv, ReadsCovered
<1>18. QED BY <1>9, <1>10, <1>11, <1>12, <1>13, <1>15, <1>16, <1>17 DEF OrderInv, IssueInv, AccessInv

\* The invocation is issued: it runs on the queue of its arguments, after all
\* that was issued there, and nobody has touched its result.
LEMMA ScheduleKeeps ==
  ASSUME SameQueue, OrderInv, NEW c \in DOMAIN calls, Schedule(c)
  PROVE  OrderInv'
<1>1. TypeOK /\ IssueInv /\ HomesSound /\ calls \in Seq(Call) /\ ops \in Seq(Op)
  BY DEF OrderInv, AccessInv, TypeOK
<1>2. CallSound(c) /\ \A d \in DOMAIN calls : calls[c].result = calls[d].result => c = d
  BY CallKnown
<1>3. PICK args \in Arguments : args = calls[c].args /\ args \subseteq Live /\ args \in SUBSET Buffers
  BY <1>1, <1>2, CallItems DEF CallSound
<1>4. PICK r \in Buffers : r = calls[c].result /\ home[r] = None
  BY <1>1, <1>2, CallItems DEF CallSound, Schedule
<1>5. PICK q \in Queues : q = Selected(args) /\ \A b \in args : home[b] = q
  BY <1>1, <1>3, SelectedHome DEF SameQueue
<1>6. PICK w : w = WaitFence(c, idle)
  OBVIOUS
<1>7. w \in Fences /\ idle[q] <= w[q] /\ idle[q] \in Nat /\ sem[q] \in Nat /\ w[q] \in Nat
  <2>1. idle \in Fences /\ idle[q] \in Nat /\ sem[q] \in Nat
    BY <1>1 DEF TypeOK, Fences
  <2>2. At(q, idle[q]) \in Fences /\ At(q, idle[q])[q] = idle[q]
    BY <2>1, AtFence
  <2>3. calls[c].waits \in Fences
    BY <1>1, CallItems DEF Call
  <2>4. w = Join(calls[c].waits, At(q, idle[q]))
    BY <1>3, <1>5, <1>6 DEF WaitFence
  <2>5. w \in Fences /\ idle[q] <= w[q]
    BY <2>2, <2>3, <2>4, JoinFence
  <2>6. QED BY <2>1, <2>5 DEF Fences
<1>8. PICK F : F = FlushWithStatus(active, idle, q, {}, {})
  OBVIOUS
<1>9. Issuable(F, idle) /\ \A k \in DOMAIN F : F[k].reads = {} /\ F[k].writes = {}
  BY <1>1, <1>8, IdleFlush
<1>10. PICK o : o = [reads |-> args, writes |-> {r}, waits |-> w, account |-> q,
                     time |-> idle[q] + 1, state |-> "held"]
  OBVIOUS
<1>11. /\ o \in Op /\ o.reads = args /\ o.writes = {r} /\ o.waits = w /\ o.account = q
       /\ o.time = idle[q] + 1 /\ o.state = "held"
  BY <1>3, <1>7, <1>10 DEF Op
<1>12. /\ ops' = Append(ops \o F, o)
       /\ idle' = [idle EXCEPT ![q] = @ + 1]
       /\ active' = [a \in Queues |-> {}]
       /\ calls' = [calls EXCEPT ![c].state = "scheduled", ![c].op = Len(ops')]
       /\ sem' = sem /\ syncs' = syncs /\ home' = home /\ mutation' = mutation /\ use' = use
       /\ calls[c].state = "marshaled"
  BY <1>3, <1>4, <1>5, <1>6, <1>8, <1>10 DEF Schedule, Submission, barriers
<1>13. PICK N : N = Append(F, o)
  OBVIOUS
<1>14. F \in Seq(Op)
  BY <1>9 DEF Issuable
<1>15. /\ N \in Seq(Op) /\ DOMAIN N = 1 .. (Len(F) + 1) /\ DOMAIN F = 1 .. Len(F) /\ Len(F) \in Nat
       /\ \A k \in DOMAIN F : N[k] = F[k]
       /\ N[Len(F) + 1] = o /\ Len(N) = Len(F) + 1
  BY <1>11, <1>13, <1>14, AppendItems
<1>16. ops' = ops \o N
  <2>1. ops \in Seq(Op) /\ o \in Op
    BY <1>1, <1>11
  <2>2. Append(ops \o F, o) = ops \o Append(F, o)
    BY <1>14, <2>1
  <2>3. QED BY <1>12, <1>13, <2>2
<1>17. /\ idle \in Fences /\ idle' \in Fences /\ idle'[q] = idle[q] + 1
       /\ \A a \in Queues : idle[a] \in Nat /\ idle'[a] \in Nat /\ idle[a] <= idle'[a]
  BY <1>1, <1>12 DEF TypeOK, Fences
<1>18. \A i \in DOMAIN ops : ops[i].account \in Queues /\ ops[i].time \in Nat
  BY <1>1, OpItems
<1>19. \A i \in DOMAIN ops : ops[i].account = q => ops[i].time <= idle[q]
  BY <1>1 DEF IssueInv, OpsSound
<1>20. ASSUME NEW i \in DOMAIN ops, Conflict(ops[i], o)
       PROVE  ops[i].account = q
  <2>1. r \notin ops[i].reads
    BY <1>4 DEF OrderInv, AccessInv, ReadsCovered
  <2>2. r \notin ops[i].writes
    <3>1. SUFFICES ASSUME r \in ops[i].writes PROVE FALSE
      OBVIOUS
    <3>2. Returns(i, r)
      BY <1>4, <3>1 DEF OrderInv, AccessInv, WritesCovered
    <3>3. QED BY <1>2, <1>4, <1>12, <3>2 DEF Returns
  <2>3. PICK b \in args : b \in ops[i].writes
    BY <1>11, <1>20, <2>1, <2>2 DEF Conflict
  <2>4. home[b] = q /\ home[b] # None
    BY <1>3, <1>5 DEF Live
  <2>5. QED BY <2>3, <2>4 DEF OrderInv, AccessInv, WritesCovered
<1>21. \A k \in DOMAIN F : F[k].account \in Queues /\ F[k].time \in Nat
  BY <1>14, OpItems
<1>22. ASSUME NEW k \in DOMAIN N
       PROVE  (k \in DOMAIN F /\ N[k] = F[k]) \/ (k = Len(F) + 1 /\ N[k] = o)
  <2>1. k \in 1 .. Len(F) \/ k = Len(F) + 1
    <3>1. k \in 1 .. (Len(F) + 1) /\ Len(F) \in Nat
      BY <1>15
    <3>2. QED BY <3>1
  <2>2. QED BY <1>15, <2>1
<1>23. Issuable(N, idle')
  <2>1. ASSUME NEW k \in DOMAIN N
        PROVE  /\ N[k].state # "done"
               /\ N[k].time <= idle'[N[k].account] /\ N[k].time > sem[N[k].account]
               /\ N[k].time <= N[k].waits[N[k].account] + 1
    <3>1. CASE k \in DOMAIN F /\ N[k] = F[k]
      <4>1. /\ F[k].state # "done"
            /\ F[k].time <= idle[F[k].account] /\ F[k].time > sem[F[k].account]
            /\ F[k].time <= F[k].waits[F[k].account] + 1
        BY <1>9, <3>1 DEF Issuable
      <4>2. F[k].time <= idle'[F[k].account]
        BY <1>17, <1>21, <3>1, <4>1
      <4>3. QED BY <3>1, <4>1, <4>2
    <3>2. CASE N[k] = o
      <4>1. sem[q] <= idle[q]
        BY <1>1 DEF IssueInv, AccountsSound
      <4>2. idle[q] + 1 <= idle'[q] /\ idle[q] + 1 > sem[q] /\ idle[q] + 1 <= w[q] + 1
        BY <1>7, <1>17, <4>1
      <4>3. QED BY <1>11, <3>2, <4>2
    <3>3. QED BY <1>22, <3>1, <3>2
  <2>2. ASSUME NEW k \in DOMAIN N, NEW i \in DOMAIN ops
        PROVE  /\ ops[i].account = N[k].account => ops[i].time < N[k].time
               /\ Conflict(ops[i], N[k]) => ops[i].time <= N[k].waits[ops[i].account]
    <3>1. CASE k \in DOMAIN F /\ N[k] = F[k]
      BY <1>9, <3>1 DEF Issuable
    <3>2. CASE N[k] = o
      <4>1. ops[i].account = q => ops[i].time < idle[q] + 1
        BY <1>7, <1>18, <1>19
      <4>2. Conflict(ops[i], o) => ops[i].time <= w[ops[i].account]
        BY <1>7, <1>18, <1>19, <1>20
      <4>3. QED BY <1>11, <3>2, <4>1, <4>2
    <3>3. QED BY <1>22, <3>1, <3>2
  <2>3. ASSUME NEW k \in DOMAIN N, NEW l \in DOMAIN N, k < l
        PROVE  /\ N[k].account = N[l].account => N[k].time < N[l].time
               /\ ~ Conflict(N[k], N[l])
    <3>1. k \in DOMAIN F /\ N[k] = F[k]
      BY <1>15, <1>22, <2>3
    <3>2. CASE l \in DOMAIN F /\ N[l] = F[l]
      BY <1>9, <2>3, <3>1, <3>2 DEF Issuable
    <3>3. CASE N[l] = o
      <4>1. ~ Conflict(F[k], o)
        BY <1>9, <3>1 DEF Conflict
      <4>2. F[k].time <= idle[F[k].account]
        BY <1>9, <3>1 DEF Issuable
      <4>3. F[k].account = q => F[k].time < idle[q] + 1
        BY <1>7, <1>21, <3>1, <4>2
      <4>4. QED BY <1>11, <3>1, <3>3, <4>1, <4>3
    <3>4. QED BY <1>22, <3>2, <3>3
  <2>4. QED BY <1>15, <1>17, <2>1, <2>2, <2>3 DEF Issuable
<1>24. /\ ops' \in Seq(Op) /\ active' \in [Queues -> SUBSET Fences]
       /\ IssueInv'
  BY <1>1, <1>12, <1>16, <1>23, IssueKeeps
<1>25. PICK n : n = Len(ops')
  OBVIOUS
<1>26. /\ n \in Nat /\ n \in DOMAIN ops' /\ n \notin DOMAIN ops /\ ops'[n] = o
       /\ \A i \in DOMAIN ops : i \in DOMAIN ops' /\ ops'[i] = ops[i]
       /\ \A i \in DOMAIN ops' :
             \/ i \in DOMAIN ops /\ ops'[i] = ops[i]
             \/ ops'[i].reads = {} /\ ops'[i].writes = {}
             \/ i = n
  <2>1. /\ Len(ops) \in Nat /\ Len(N) \in Nat /\ Len(ops') = Len(ops) + Len(N)
        /\ DOMAIN ops = 1 .. Len(ops) /\ DOMAIN ops' = 1 .. (Len(ops) + Len(N))
        /\ \A i \in DOMAIN ops : i \in DOMAIN ops' /\ ops'[i] = ops[i]
        /\ \A i \in DOMAIN ops' :
               \/ i \in DOMAIN ops
               \/ i - Len(ops) \in DOMAIN N /\ ops'[i] = N[i - Len(ops)] /\ i > Len(ops)
    <3>1. ops \in Seq(Op) /\ N \in Seq(Op)
      BY <1>1, <1>15
    <3>2. QED BY <1>16, <3>1, ConcatItems
  <2>2. n = Len(ops) + (Len(F) + 1)
    BY <1>15, <1>25, <2>1
  <2>3. n \in Nat /\ n \in DOMAIN ops' /\ n \notin DOMAIN ops /\ n - Len(ops) = Len(F) + 1
    BY <1>15, <2>1, <2>2
  <2>4. ops'[n] = o
    BY <1>15, <2>1, <2>3
  <2>5. ASSUME NEW i \in DOMAIN ops', i \notin DOMAIN ops, i # n
        PROVE  ops'[i].reads = {} /\ ops'[i].writes = {}
    <3>1. i - Len(ops) \in DOMAIN N /\ ops'[i] = N[i - Len(ops)]
      BY <2>1, <2>5
    <3>2. i - Len(ops) # Len(F) + 1
      BY <1>15, <2>1, <2>2, <2>5
    <3>3. QED BY <1>9, <1>22, <3>1, <3>2
  <2>6. QED BY <2>1, <2>3, <2>4, <2>5
<1>27. /\ calls' \in Seq(Call) /\ DOMAIN calls' = DOMAIN calls
       /\ calls'[c].args = args /\ calls'[c].result = r
       /\ calls'[c].state = "scheduled" /\ calls'[c].op = n
       /\ \A d \in DOMAIN calls : d # c => calls'[d] = calls[d]
  <2>1. Marked(c, "scheduled", n)
    BY <1>1, <1>12, <1>25, <1>26, MarkCall
  <2>2. QED BY <1>3, <1>4, <2>1 DEF Marked
<1>28. TypeOK' /\ SyncTypes'
  BY <1>12, <1>17, <1>24, <1>27 DEF OrderInv, TypeOK, SyncTypes
<1>29. SyncsCover'
  <2>1. ASSUME NEW s \in syncs PROVE Covers(s)'
    <3>1. s.upto \in Nat /\ s.upto <= Len(ops) /\ Len(ops) \in Nat /\ DOMAIN ops = 1 .. Len(ops)
      BY <1>1, OpItems DEF OrderInv, SyncTypes, SyncsCover, Covers
    <3>2. \A i \in 1 .. s.upto : i \in DOMAIN ops
      BY <3>1
    <3>3. Len(ops) <= Len(ops')
      <4>1. DOMAIN ops' = 1 .. n
        BY <1>24, <1>25, OpItems
      <4>2. QED BY <1>25, <1>26, <3>1, <4>1
    <3>4. s.upto <= Len(ops')
      BY <1>25, <1>26, <3>1, <3>3
    <3>5. QED BY <1>26, <3>2, <3>4 DEF OrderInv, SyncsCover, Covers
  <2>2. QED BY <1>12, <2>1 DEF SyncsCover
<1>30. ASSUME NEW d \in DOMAIN calls PROVE CallSound(d)'
  <2>1. CASE d # c
    <3>1. CallSound(d) /\ calls'[d] = calls[d]
      BY <1>27, <2>1, CallKnown
    <3>2. calls[d].state # "marshaled" => calls[d].op \in DOMAIN ops
      BY <3>1 DEF CallSound
    <3>3. QED BY <1>12, <1>26, <3>1, <3>2, CallRests
  <2>2. CASE d = c
    <3>1. Live' = Live /\ Selected(args) = q
      BY <1>5, <1>12 DEF Live
    <3>2. Selected(calls[d].args)' = q
      <4>1. calls'[d].args = args /\ home' = home
        BY <1>12, <1>27, <2>2
      <4>2. Selected(args) = Min({home[b] : b \in args})
        BY DEF Selected
      <4>3. Selected(calls[d].args)' = Min({home'[b] : b \in calls'[d].args})
        BY DEF Selected
      <4>4. QED BY <3>1, <4>1, <4>2, <4>3
    <3>3. QED BY <1>3, <1>4, <1>11, <1>12, <1>26, <1>27, <2>2, <3>1, <3>2 DEF CallSound
  <2>3. QED BY <2>1, <2>2
<1>31. CallsSound'
  <2>1. \A d \in DOMAIN calls : calls'[d].result = calls[d].result
    BY <1>4, <1>27
  <2>2. QED BY <1>27, <1>30, <2>1 DEF OrderInv, AccessInv, CallsSound
<1>32. WritesCovered'
  <2>1. ASSUME NEW i \in DOMAIN ops', NEW b \in ops'[i].writes
        PROVE  \/ home'[b] = None /\ Returns(i, b)'
               \/ /\ home'[b] # None /\ ops'[i].account = home'[b]
                  /\ ops'[i].time <= mutation'[b][home'[b]]
    <3>1. CASE i \in DOMAIN ops /\ ops'[i] = ops[i]
      <4>1. Returns(i, b) => Returns(i, b)'
        <5>1. \A d \in DOMAIN calls : calls[d].state # "marshaled" => calls'[d] = calls[d]
          BY <1>12, <1>27
        <5>2. QED BY <1>27, <5>1 DEF Returns
      <4>2. QED BY <1>12, <2>1, <3>1, <4>1 DEF OrderInv, AccessInv, WritesCovered
    <3>2. CASE i = n
      <4>1. b = r
        BY <1>11, <1>26, <2>1, <3>2
      <4>2. Returns(n, r)'
        BY <1>27 DEF Returns
      <4>3. QED BY <1>4, <1>12, <3>2, <4>1, <4>2
    <3>3. QED BY <1>26, <2>1, <3>1, <3>2
  <2>2. QED BY <2>1 DEF WritesCovered, Returns
<1>33. ReadsCovered'
  <2>1. ASSUME NEW i \in DOMAIN ops', NEW b \in ops'[i].reads
        PROVE  /\ home'[b] # None
               /\ ops'[i].account = home'[b] \/ ops'[i].time <= use'[b][ops'[i].account]
    <3>1. CASE i \in DOMAIN ops /\ ops'[i] = ops[i]
      BY <1>12, <2>1, <3>1 DEF OrderInv, AccessInv, ReadsCovered
    <3>2. CASE i = n
      <4>1. b \in args /\ ops'[i].account = q
        BY <1>11, <1>26, <2>1, <3>2
      <4>2. home[b] = q /\ home[b] # None
        BY <1>3, <1>5, <4>1 DEF Live
      <4>3. QED BY <1>12, <4>1, <4>2
    <3>3. QED BY <1>26, <2>1, <3>1, <3>2
  <2>2. QED BY <2>1 DEF ReadsCovered
<1>34. HomesSound'
  BY <1>1, <1>12 DEF HomesSound
<1>35. QED BY <1>24, <1>28, <1>29, <1>31, <1>32, <1>33, <1>34 DEF OrderInv, AccessInv

----------------------------------------------------------------------------
(***************************************************************************)
(* The order that the device keeps.                                        *)
(***************************************************************************)

LEMMA OrderRests == OrderInv /\ UNCHANGED vars => OrderInv'
<1> SUFFICES ASSUME OrderInv, UNCHANGED vars PROVE OrderInv'
  OBVIOUS
<1>1. /\ timeline' = timeline /\ home' = home /\ mutation' = mutation /\ use' = use
      /\ ops' = ops /\ syncs' = syncs /\ calls' = calls
  BY DEF vars, barriers
<1>2. TypeOK'
  BY <1>1 DEF OrderInv, TypeOK, timeline
<1>3. CallsSound' /\ HomesSound'
  <2>1. \A c \in DOMAIN calls : CallSound(c) /\ CallSound(c)'
    BY <1>1, CallRests DEF OrderInv, AccessInv, CallsSound, CallSound
  <2>2. QED BY <1>1, <2>1 DEF OrderInv, AccessInv, CallsSound, HomesSound
<1>4. WritesCovered' /\ ReadsCovered'
  BY <1>1 DEF OrderInv, AccessInv, WritesCovered, ReadsCovered, Returns
<1>5. QED BY <1>1, <1>2, <1>3, <1>4, AccessRests DEF OrderInv, AccessInv

LEMMA OrderStep == SameQueue /\ OrderInv /\ [Next]_vars => OrderInv'
<1> SUFFICES ASSUME SameQueue, OrderInv, [Next]_vars PROVE OrderInv'
  OBVIOUS
<1>1. ASSUME NEW b \in Buffers, FillThrows(b) PROVE OrderInv'
  <2>1. home[b] \in Queues /\ FillDeps(b) \in Fences
    <3>1. use[b] \in Fences /\ mutation[b] \in Fences
      BY DEF OrderInv, TypeOK
    <3>2. FillDeps(b) \in Fences
      BY <3>1, JoinFence DEF FillDeps
    <3>3. QED BY <1>1, <3>2 DEF FillThrows, Live, OrderInv, TypeOK
  <2>2. QED BY <1>1, <2>1, ThrowKeeps DEF FillThrows
<1>2. ASSUME NEW dst \in Buffers, NEW src \in Buffers, CopyThrows(dst, src) PROVE OrderInv'
  <2>1. home[dst] \in Queues /\ CopyDeps(src, dst) \in Fences
    <3>1. mutation[src] \in Fences /\ use[dst] \in Fences /\ mutation[dst] \in Fences
      BY DEF OrderInv, TypeOK
    <3>2. Join(use[dst], mutation[dst]) \in Fences
      BY <3>1, JoinFence
    <3>3. CopyDeps(src, dst) \in Fences
      BY <3>1, <3>2, JoinFence DEF CopyDeps
    <3>4. QED BY <1>2, <3>3 DEF CopyThrows, Live, OrderInv, TypeOK
  <2>2. QED BY <1>2, <2>1, ThrowKeeps DEF CopyThrows
<1>3. CASE Transfer
  BY <1>1, <1>2, <1>3, FillKeeps, CopyKeeps DEF Transfer
<1>4. CASE Invoke
  BY <1>4, MarshalKeeps, MarshalThrowsKeeps DEF Invoke
<1>5. CASE Advance
  BY <1>5, ScheduleKeeps, SubmitKeeps, CompleteKeeps, ExecuteKeeps DEF Advance
<1>6. CASE \E c \in DOMAIN calls : Fail(c) \/ Import(c)
  BY <1>6, FailKeeps, ImportKeeps
<1>7. CASE \E q \in Queues : OnSync(q)
  BY <1>7, OnSyncKeeps
<1>8. CASE UNCHANGED vars
  BY <1>8, OrderRests
<1>9. QED BY <1>3, <1>4, <1>5, <1>6, <1>7, <1>8 DEF Next

LEMMA OrderInit == Init => OrderInv
<1> SUFFICES ASSUME Init PROVE OrderInv
  OBVIOUS
<1>1. NoFence \in Fences /\ \A q \in Queues : NoFence[q] = 0
  BY DEF NoFence, Fences
<1>2. /\ idle = NoFence /\ sem = NoFence /\ active = [q \in Queues |-> {}]
      /\ home = [b \in Buffers |-> IF b \in Allocated THEN HomeOf[b] ELSE None]
      /\ mutation = [b \in Buffers |-> NoFence] /\ use = [b \in Buffers |-> NoFence]
      /\ ops = << >> /\ calls = << >> /\ syncs = {}
  BY DEF Init
<1>3. DOMAIN ops = {} /\ DOMAIN calls = {} /\ ops \in Seq(Op) /\ calls \in Seq(Call)
  BY <1>2
<1>4. home \in [Buffers -> Queues \cup {None}] /\ \A b \in Allocated : home[b] = HomeOf[b]
  <2>1. \A b \in Allocated : b \in Buffers /\ HomeOf[b] \in Queues
    BY SchedulerAssumption DEF Buffers
  <2>2. QED BY <1>2, <2>1
<1>5. TypeOK
  BY <1>1, <1>2, <1>3, <1>4 DEF TypeOK
<1>6. IssueInv
  BY <1>1, <1>2, <1>3 DEF IssueInv, AccountsSound, OpsSound, Serial, ConflictsWait
<1>7. SyncTypes /\ SyncsCover
  BY <1>2 DEF SyncTypes, SyncsCover
<1>8. AccessInv
  BY <1>3, <1>4 DEF AccessInv, CallsSound, HomesSound, WritesCovered, ReadsCovered
<1>9. QED BY <1>5, <1>6, <1>7, <1>8 DEF OrderInv

LEMMA OrderImplied == OrderInv => ConflictsInOrder /\ SyncMeansIdle
<1> SUFFICES ASSUME OrderInv PROVE ConflictsInOrder /\ SyncMeansIdle
  OBVIOUS
<1>1. /\ DOMAIN ops = 1 .. Len(ops) /\ Len(ops) \in Nat
      /\ \A i \in DOMAIN ops : /\ ops[i].account \in Queues /\ ops[i].time \in Nat
                               /\ \A a \in Queues : ops[i].waits[a] \in Nat
  BY OpItems DEF OrderInv, TypeOK
<1>2. \A a \in Queues : sem[a] \in Nat
  BY DEF OrderInv, TypeOK, Fences
<1>3. ConflictsInOrder
  <2>1. ASSUME NEW j \in DOMAIN ops, ops[j].state = "done",
               NEW i \in 1 .. j - 1, Conflict(ops[i], ops[j])
        PROVE  ops[i].state = "done"
    <3>1. i \in DOMAIN ops /\ i < j
      BY <1>1
    <3>2. PICK a \in Queues : a = ops[i].account
      BY <1>1, <3>1
    <3>3. ops[i].time <= ops[j].waits[a]
      BY <2>1, <3>1, <3>2 DEF OrderInv, IssueInv, ConflictsWait
    <3>4. ops[j].waits[a] <= sem[a]
      BY <2>1 DEF OrderInv, IssueInv, OpsSound, Reached
    <3>5. ops[i].time <= sem[a]
      BY <1>1, <1>2, <3>1, <3>3, <3>4
    <3>6. QED BY <3>1, <3>2, <3>5 DEF OrderInv, IssueInv, OpsSound
  <2>2. QED BY <2>1 DEF ConflictsInOrder
<1>4. SyncMeansIdle
  <2>1. ASSUME NEW s \in syncs, Returned(s), NEW i \in 1 .. s.upto, ops[i].account = s.account
        PROVE  ops[i].state = "done"
    <3>1. s.account \in Queues /\ s.time \in Nat /\ s.upto \in Nat /\ s.upto <= Len(ops)
      BY DEF OrderInv, SyncTypes, SyncsCover, Covers
    <3>2. i \in DOMAIN ops
      BY <1>1, <3>1
    <3>3. ops[i].time <= s.time /\ s.time <= sem[s.account]
      BY <2>1 DEF OrderInv, SyncsCover, Covers, Returned
    <3>4. ops[i].time <= sem[ops[i].account]
      BY <1>1, <1>2, <2>1, <3>1, <3>2, <3>3
    <3>5. QED BY <3>2, <3>4 DEF OrderInv, IssueInv, OpsSound
  <2>2. QED BY <2>1 DEF SyncMeansIdle
<1>5. QED BY <1>3, <1>4

----------------------------------------------------------------------------
(***************************************************************************)
(* Types, whatever functions are called with.                              *)
(***************************************************************************)

\* Invocations have arguments that live, and a submission once they are scheduled.
CallsLive ==
    \A c \in DOMAIN calls :
        /\ calls[c].args \in Arguments /\ calls[c].args \subseteq Live
        /\ calls[c].state # "marshaled" => calls[c].op \in DOMAIN ops

TypeInv == TypeOK /\ CallsLive

LEMMA SelectedQueue ==
  ASSUME TypeOK, NEW args \in Arguments, args \subseteq Live
  PROVE  Selected(args) \in Queues
<1> DEFINE S == {home[b] : b \in args}
<1>1. \A b \in args : home[b] \in Queues
  BY DEF TypeOK, Live
<1>2. S \subseteq Queues /\ S # {} /\ S \in SUBSET Nat
  <2>1. args # {}
    BY SchedulerAssumption
  <2>2. S \subseteq Queues /\ S # {}
    BY <1>1, <2>1
  <2>3. QED BY <2>2, SchedulerAssumption
<1>3. Selected(args) = Min(S)
  BY DEF Selected
<1> HIDE DEF S
<1>4. \E m \in S : \A t \in S : m <= t
  BY <1>2, LeastNat
<1>5. Min(S) \in S
  BY <1>4 DEF Min
<1>6. QED BY <1>2, <1>3, <1>5

LEMMA CommandTypes ==
  ASSUME TypeInv, NEW q \in Queues, NEW deps \in Fences,
         NEW R \in SUBSET Buffers, NEW W \in SUBSET Buffers
  PROVE  /\ Timepoint(q) \in Nat
         /\ [active EXCEPT ![q] = {Join(Deps(q), deps)}] \in [Queues -> SUBSET Fences]
         /\ [idle EXCEPT ![q] = Timepoint(q)] \in Fences
         /\ AppendCommandBuffer(q, deps, R, W) =>
               /\ ops' \in Seq(Op) /\ idle' \in Fences /\ active' \in [Queues -> SUBSET Fences]
               /\ sem' = sem /\ calls' = calls /\ DOMAIN ops \subseteq DOMAIN ops'
<1>1. active \in [Queues -> SUBSET Fences] /\ idle \in Fences /\ ops \in Seq(Op)
  BY DEF TypeInv, TypeOK
<1>2. idle[q] \in Nat /\ Timepoint(q) \in Nat
  BY <1>1 DEF Fences, Timepoint
<1>3. Deps(q) \in Fences
  <2>1. CASE active[q] = {}
    BY <1>2, <2>1, AtFence DEF Deps
  <2>2. CASE active[q] # {}
    <3>1. PICK f : f = CHOOSE g \in active[q] : TRUE
      OBVIOUS
    <3>2. f \in active[q] /\ active[q] \in SUBSET Fences
      BY <1>1, <2>2, <3>1
    <3>3. QED BY <2>2, <3>1, <3>2 DEF Deps
  <2>3. QED BY <2>1, <2>2
<1>4. Join(Deps(q), deps) \in Fences
  BY <1>3, JoinFence
<1>5. PICK act : act = [active EXCEPT ![q] = {Join(Deps(q), deps)}]
  OBVIOUS
<1>6. PICK idl : idl = [idle EXCEPT ![q] = Timepoint(q)]
  OBVIOUS
<1>7. act \in [Queues -> SUBSET Fences] /\ idl \in Fences
  BY <1>1, <1>2, <1>4, <1>5, <1>6 DEF Fences
<1>8. PICK N : N = FlushWithStatus(act, idl, q, R, W)
  OBVIOUS
<1>9. N \in Seq(Op)
  <2>1. Flushes(N, act, idl, q, R, W)
    BY <1>7, <1>8, FlushItems
  <2>2. QED BY <2>1 DEF Flushes
<1>10. ASSUME AppendCommandBuffer(q, deps, R, W)
       PROVE  /\ ops' \in Seq(Op) /\ idle' \in Fences /\ active' \in [Queues -> SUBSET Fences]
              /\ sem' = sem /\ calls' = calls /\ DOMAIN ops \subseteq DOMAIN ops'
  <2>1. /\ idle' = idl /\ ops' = ops \o N /\ active' = [a \in Queues |-> {}]
        /\ sem' = sem /\ calls' = calls
    BY <1>5, <1>6, <1>8, <1>10 DEF AppendCommandBuffer
  <2>2. ops' \in Seq(Op) /\ \A i \in DOMAIN ops : i \in DOMAIN ops'
    BY <1>1, <1>9, <2>1, ConcatItems
  <2>3. QED BY <1>7, <2>1, <2>2
<1>11. QED BY <1>2, <1>5, <1>6, <1>7, <1>10

\* Invocations rest while operations are issued.
LEMMA LiveRests ==
  ASSUME TypeInv, calls' = calls, home' = home, DOMAIN ops \subseteq DOMAIN ops'
  PROVE  CallsLive'
BY DEF TypeInv, CallsLive, Live

\* What a flush without a command of its own issues.
LEMMA FlushTypes ==
  ASSUME TypeInv, NEW q \in Queues
  PROVE  /\ FlushWithStatus(active, idle, q, {}, {}) \in Seq(Op)
         /\ ops \o FlushWithStatus(active, idle, q, {}, {}) \in Seq(Op)
         /\ DOMAIN ops \subseteq DOMAIN (ops \o FlushWithStatus(active, idle, q, {}, {}))
<1>1. PICK N : N = FlushWithStatus(active, idle, q, {}, {})
  OBVIOUS
<1>2. active \in [Queues -> SUBSET Fences] /\ idle \in Fences /\ ops \in Seq(Op)
  BY DEF TypeInv, TypeOK
<1>3. {} \in SUBSET Buffers
  OBVIOUS
<1>4. Flushes(N, active, idle, q, {}, {})
  BY <1>1, <1>2, <1>3, FlushItems
<1>5. N \in Seq(Op)
  BY <1>4 DEF Flushes
<1>6. ops \o N \in Seq(Op) /\ \A i \in DOMAIN ops : i \in DOMAIN (ops \o N)
  BY <1>2, <1>5, ConcatItems
<1>7. QED BY <1>1, <1>5, <1>6

LEMMA TransferTypes == TypeInv /\ Transfer => TypeInv'
<1> SUFFICES ASSUME TypeInv, Transfer PROVE TypeInv'
  OBVIOUS
<1>1. TypeOK /\ mutation \in [Buffers -> Fences] /\ use \in [Buffers -> Fences]
  BY DEF TypeInv, TypeOK
<1>2. \A b \in Live : b \in Buffers /\ home[b] \in Queues
  BY <1>1 DEF Live, TypeOK
<1>3. \A b \in Buffers : FillDeps(b) \in Fences
  BY <1>1, JoinFence DEF FillDeps
<1>4. ASSUME NEW src \in Buffers, NEW dst \in Buffers PROVE CopyDeps(src, dst) \in Fences
  <2>1. Join(use[dst], mutation[dst]) \in Fences
    BY <1>1, JoinFence
  <2>2. QED BY <1>1, <2>1, JoinFence DEF CopyDeps
<1>5. ASSUME NEW b \in Buffers, Fill(b) PROVE TypeInv'
  <2>1. PICK q \in Queues : q = home[b]
    BY <1>2, <1>5 DEF Fill
  <2>2. {} \in SUBSET Buffers /\ {b} \in SUBSET Buffers
    OBVIOUS
  <2>3. /\ ops' \in Seq(Op) /\ idle' \in Fences /\ active' \in [Queues -> SUBSET Fences]
        /\ sem' = sem /\ calls' = calls /\ DOMAIN ops \subseteq DOMAIN ops'
        /\ Timepoint(q) \in Nat
    BY <1>3, <1>5, <2>1, <2>2, CommandTypes DEF Fill
  <2>4. mutation' = [mutation EXCEPT ![b] = At(q, Timepoint(q))] /\ home' = home /\ use' = use
    BY <1>5, <2>1 DEF Fill
  <2>5. mutation' \in [Buffers -> Fences]
    BY <1>1, <2>3, <2>4, AtFence
  <2>6. CallsLive'
    BY <2>3, <2>4, LiveRests
  <2>7. QED BY <1>1, <2>3, <2>4, <2>5, <2>6 DEF TypeInv, TypeOK
<1>6. ASSUME NEW src \in Buffers, NEW dst \in Buffers, CopyFrom(dst, src) PROVE TypeInv'
  <2>1. PICK q \in Queues : q = home[dst]
    BY <1>2, <1>6 DEF CopyFrom
  <2>2. {src} \in SUBSET Buffers /\ {dst} \in SUBSET Buffers
    OBVIOUS
  <2>3. /\ ops' \in Seq(Op) /\ idle' \in Fences /\ active' \in [Queues -> SUBSET Fences]
        /\ sem' = sem /\ calls' = calls /\ DOMAIN ops \subseteq DOMAIN ops'
        /\ Timepoint(q) \in Nat
    BY <1>4, <1>6, <2>1, <2>2, CommandTypes DEF CopyFrom
  <2>4. PICK now \in Fences : now = At(q, Timepoint(q))
    BY <2>3, AtFence
  <2>5. PICK j \in Fences : j = Join(use[src], now)
    BY <1>1, <2>4, JoinFence
  <2>6. /\ mutation' = [mutation EXCEPT ![dst] = now]
        /\ use' = [use EXCEPT ![src] = j] /\ home' = home
    BY <1>6, <2>1, <2>4, <2>5 DEF CopyFrom
  <2>7. mutation' \in [Buffers -> Fences] /\ use' \in [Buffers -> Fences]
    BY <1>1, <2>6
  <2>8. CallsLive'
    BY <2>3, <2>6, LiveRests
  <2>9. QED BY <1>1, <2>3, <2>6, <2>7, <2>8 DEF TypeInv, TypeOK
<1>7. ASSUME NEW q \in Queues, NEW deps \in Fences, AppendThrows(q, deps) PROVE TypeInv'
  <2>1. idle' \in Fences /\ active' \in [Queues -> SUBSET Fences]
    <3>1. {} \in SUBSET Buffers
      OBVIOUS
    <3>2. QED BY <1>7, <3>1, CommandTypes DEF AppendThrows
  <2>2. /\ sem' = sem /\ home' = home /\ mutation' = mutation /\ use' = use /\ ops' = ops
        /\ calls' = calls
    BY <1>7 DEF AppendThrows, barriers
  <2>3. CallsLive'
    BY <2>2, LiveRests
  <2>4. QED BY <1>1, <2>1, <2>2, <2>3 DEF TypeInv, TypeOK
<1>8. ASSUME NEW b \in Buffers, FillThrows(b) PROVE TypeInv'
  BY <1>2, <1>3, <1>7, <1>8 DEF FillThrows
<1>9. ASSUME NEW src \in Buffers, NEW dst \in Buffers, CopyThrows(dst, src) PROVE TypeInv'
  BY <1>2, <1>4, <1>7, <1>9 DEF CopyThrows
<1>10. QED BY <1>5, <1>6, <1>8, <1>9 DEF Transfer


\* A call goes to another state, with a submission.
LEMMA CallAdvances ==
  ASSUME TypeInv, NEW c \in DOMAIN calls, NEW st, NEW o \in DOMAIN ops', Marked(c, st, o),
         Live \subseteq Live', DOMAIN ops \subseteq DOMAIN ops'
  PROVE  calls' \in Seq(Call) /\ CallsLive'
<1>1. /\ calls' \in Seq(Call) /\ DOMAIN calls' = DOMAIN calls
      /\ calls'[c].args = calls[c].args /\ calls'[c].op = o
      /\ \A d \in DOMAIN calls : d # c => calls'[d] = calls[d]
  BY DEF Marked
<1>2. ASSUME NEW d \in DOMAIN calls
      PROVE  /\ calls'[d].args \in Arguments /\ calls'[d].args \subseteq Live'
             /\ calls'[d].state # "marshaled" => calls'[d].op \in DOMAIN ops'
  <2>1. /\ calls[d].args \in Arguments /\ calls[d].args \subseteq Live
        /\ calls[d].state # "marshaled" => calls[d].op \in DOMAIN ops
    BY DEF TypeInv, CallsLive
  <2>2. CASE d = c
    BY <1>1, <2>1, <2>2
  <2>3. CASE d # c
    BY <1>1, <2>1, <2>3
  <2>4. QED BY <2>2, <2>3
<1>3. QED BY <1>1, <1>2 DEF CallsLive

LEMMA InvokeTypes == TypeInv /\ Invoke => TypeInv'
<1> SUFFICES ASSUME TypeInv, Invoke PROVE TypeInv'
  OBVIOUS
<1>1. TypeOK /\ calls \in Seq(Call) /\ mutation \in [Buffers -> Fences]
  BY DEF TypeInv, TypeOK
<1>2. ASSUME NEW args \in Arguments, NEW iso \in Isolations, Marshal(args, iso) PROVE TypeInv'
  <2>1. PICK context \in Nat, result \in ResultBuffers, w \in Fences :
          calls' = Append(calls,
                [args |-> args, result |-> result, context |-> context,
                 isolation |-> iso, op |-> 0, waits |-> w, state |-> "marshaled"])
    <3>1. PICK context \in 1 .. contexts + 1 :
            calls' = Append(calls,
                [args |-> args, result |-> CHOOSE r \in Fresh : TRUE, context |-> context,
                 isolation |-> iso, op |-> 0,
                 waits |-> [q \in Queues |-> Max({mutation[b][q] : b \in args})],
                 state |-> "marshaled"])
      BY <1>2 DEF Marshal
    <3>2. (CHOOSE r \in Fresh : TRUE) \in ResultBuffers
      BY <1>2 DEF Marshal, Fresh
    <3>3. [q \in Queues |-> Max({mutation[b][q] : b \in args})] \in Fences
      BY <1>1, ArgumentsFence
    <3>4. context \in Nat
      OBVIOUS
    <3>5. QED BY <3>1, <3>2, <3>3, <3>4
  <2>2. PICK new : new = [args |-> args, result |-> result, context |-> context,
                          isolation |-> iso, op |-> 0, waits |-> w, state |-> "marshaled"]
    OBVIOUS
  <2>3. args \in SUBSET Buffers
    BY SchedulerAssumption DEF Buffers
  <2>4. new \in Call /\ new.args = args /\ new.state = "marshaled"
    BY <2>1, <2>2, <2>3 DEF Call
  <2>5. /\ calls' \in Seq(Call) /\ Len(calls) \in Nat /\ DOMAIN calls = 1 .. Len(calls)
        /\ DOMAIN calls' = 1 .. (Len(calls) + 1)
        /\ \A c \in DOMAIN calls : calls'[c] = calls[c]
        /\ calls'[Len(calls) + 1] = new
    BY <1>1, <2>1, <2>2, <2>4, AppendItems
  <2>6. /\ idle' = idle /\ active' = active /\ sem' = sem
        /\ home' = home /\ mutation' = mutation /\ use' = use /\ ops' = ops /\ args \subseteq Live
    BY <1>2 DEF Marshal, timeline, barriers
  <2>7. \A c \in DOMAIN calls' :
          \/ c \in DOMAIN calls /\ calls'[c] = calls[c]
          \/ calls'[c].args = args /\ calls'[c].state = "marshaled"
    <3>1. \A c \in DOMAIN calls' : c \in DOMAIN calls \/ c = Len(calls) + 1
      BY <2>5
    <3>2. QED BY <2>4, <2>5, <3>1
  <2>8. CallsLive'
    BY <2>6, <2>7 DEF TypeInv, CallsLive, Live
  <2>9. QED BY <1>1, <2>5, <2>6, <2>8 DEF TypeInv, TypeOK
<1>3. ASSUME NEW iso \in Isolations, MarshalThrows(iso) PROVE TypeInv'
  <2>1. /\ idle' = idle /\ active' = active /\ sem' = sem /\ ops' = ops /\ calls' = calls
        /\ home' = home /\ mutation' = mutation /\ use' = use
    BY <1>3 DEF MarshalThrows, timeline, barriers
  <2>2. QED BY <2>1, LiveRests DEF TypeInv, TypeOK
<1>4. QED BY <1>2, <1>3 DEF Invoke

LEMMA ScheduleTypes ==
  ASSUME TypeInv, NEW c \in DOMAIN calls, Schedule(c)
  PROVE  TypeInv' /\ \E n \in Nat : Marked(c, "scheduled", n)
<1>1. TypeOK /\ calls \in Seq(Call) /\ ops \in Seq(Op) /\ idle \in Fences
  BY DEF TypeInv, TypeOK
<1>2. PICK args \in Arguments : args = calls[c].args /\ args \subseteq Live /\ args \in SUBSET Buffers
  BY <1>1, CallItems DEF TypeInv, CallsLive
<1>3. PICK q \in Queues : q = Selected(args)
  BY <1>1, <1>2, SelectedQueue
<1>4. PICK r \in Buffers : r = calls[c].result
  BY <1>1, CallItems
<1>5. PICK w \in Fences : w = WaitFence(c, idle)
  <2>1. idle[q] \in Nat
    BY <1>1 DEF Fences
  <2>2. At(q, idle[q]) \in Fences /\ calls[c].waits \in Fences
    BY <1>1, <2>1, AtFence, CallItems DEF Call
  <2>3. QED BY <1>2, <1>3, <2>2, JoinFence DEF WaitFence
<1>6. PICK G : G = ops \o FlushWithStatus(active, idle, q, {}, {})
  OBVIOUS
<1>7. G \in Seq(Op) /\ DOMAIN ops \subseteq DOMAIN G
  BY <1>6, FlushTypes
<1>8. PICK o : o = [reads |-> args, writes |-> {r}, waits |-> w, account |-> q,
                    time |-> idle[q] + 1, state |-> "held"]
  OBVIOUS
<1>9. idle[q] + 1 \in Nat
  BY <1>1 DEF Fences
<1>10. o \in Op
  BY <1>2, <1>8, <1>9 DEF Op
<1>11. /\ ops' = Append(G, o) /\ idle' = [idle EXCEPT ![q] = @ + 1]
       /\ active' = [a \in Queues |-> {}]
       /\ calls' = [calls EXCEPT ![c].state = "scheduled", ![c].op = Len(ops')]
       /\ sem' = sem /\ home' = home /\ mutation' = mutation /\ use' = use
  BY <1>2, <1>3, <1>4, <1>5, <1>6, <1>8 DEF Schedule, Submission, barriers
<1>12. /\ ops' \in Seq(Op) /\ Len(ops') \in Nat /\ Len(ops') \in DOMAIN ops'
       /\ DOMAIN ops \subseteq DOMAIN ops'
  <2>1. /\ Append(G, o) \in Seq(Op) /\ Len(G) \in Nat /\ DOMAIN G = 1 .. Len(G)
        /\ Len(Append(G, o)) = Len(G) + 1 /\ DOMAIN Append(G, o) = 1 .. (Len(G) + 1)
    BY <1>7, <1>10, AppendItems
  <2>2. Len(G) + 1 \in 1 .. (Len(G) + 1) /\ DOMAIN G \subseteq 1 .. (Len(G) + 1)
    BY <2>1
  <2>3. QED BY <1>7, <1>11, <2>1, <2>2
<1>13. idle' \in Fences /\ active' \in [Queues -> SUBSET Fences]
  BY <1>1, <1>9, <1>11 DEF Fences
<1>14. Marked(c, "scheduled", Len(ops'))
  BY <1>1, <1>11, <1>12, MarkCall
<1>15. Live \subseteq Live'
  BY <1>11 DEF Live
<1>16. calls' \in Seq(Call) /\ CallsLive'
  BY <1>12, <1>14, <1>15, CallAdvances
<1>17. TypeInv'
  BY <1>1, <1>11, <1>12, <1>13, <1>16 DEF TypeInv, TypeOK
<1>18. QED BY <1>12, <1>14, <1>17

\* The call's submission is marked, or not, and the call with it.
LEMMA MarkTypes ==
  ASSUME TypeInv, NEW c \in DOMAIN calls,
         NEW st \in {"submitted", "complete", "failed", "imported"},
         calls[c].state # "marshaled", calls' = [calls EXCEPT ![c].state = st],
         \/ ops' = ops
         \/ \E os \in {"queued", "lost"} : ops' = [ops EXCEPT ![calls[c].op].state = os],
         idle' = idle, active' = active, sem' = sem, Live \subseteq Live',
         home' \in [Buffers -> Queues \cup {None}],
         mutation' \in [Buffers -> Fences], use' \in [Buffers -> Fences]
  PROVE  TypeInv'
<1>1. TypeOK /\ calls \in Seq(Call) /\ ops \in Seq(Op)
  BY DEF TypeInv, TypeOK
<1>2. PICK i \in DOMAIN ops : i = calls[c].op
  BY DEF TypeInv, CallsLive
<1>3. ops' \in Seq(Op) /\ DOMAIN ops' = DOMAIN ops
  BY <1>1, <1>2, MarkOp
<1>4. Marked(c, st, calls[c].op)
  BY <1>1, MarkState
<1>5. calls' \in Seq(Call) /\ CallsLive'
  BY <1>2, <1>3, <1>4, CallAdvances
<1>6. QED BY <1>1, <1>3, <1>5 DEF TypeInv, TypeOK

LEMMA ImportTypes ==
  ASSUME TypeInv, NEW c \in DOMAIN calls, Import(c)
  PROVE  TypeInv'
<1>1. /\ TypeOK /\ calls \in Seq(Call) /\ ops \in Seq(Op) /\ home \in [Buffers -> Queues \cup {None}]
      /\ mutation \in [Buffers -> Fences] /\ use \in [Buffers -> Fences]
  BY DEF TypeInv, TypeOK
<1>2. PICK i \in DOMAIN ops : i = calls[c].op
  BY DEF TypeInv, CallsLive, Import
<1>3. PICK f \in Fences : f = CoarseSignal(c)
  <2>1. ops[i].account \in Queues /\ ops[i].time \in Nat
    BY <1>1, OpItems
  <2>2. QED BY <1>2, <2>1, AtFence DEF CoarseSignal
<1>4. PICK q \in Queues : q = Selected(calls[c].args)
  BY <1>1, SelectedQueue DEF TypeInv, CallsLive
<1>5. PICK r \in Buffers : r = calls[c].result
  BY <1>1, CallItems
<1>6. PICK j \in Fences : j = Join(use[r], f)
  BY <1>1, JoinFence
<1>7. /\ home' = [home EXCEPT ![r] = q] /\ mutation' = [mutation EXCEPT ![r] = f]
      /\ use' = [use EXCEPT ![r] = j]
  BY <1>3, <1>4, <1>5, <1>6 DEF Import
<1>8. q # None
  BY SchedulerAssumption DEF None
<1>9. \A b \in Buffers : home[b] # None => home'[b] # None
  BY <1>1, <1>7, <1>8
<1>10. Live \subseteq Live'
  BY <1>9 DEF Live
<1>11. /\ home' \in [Buffers -> Queues \cup {None}]
       /\ mutation' \in [Buffers -> Fences] /\ use' \in [Buffers -> Fences]
  BY <1>1, <1>7
<1>12. /\ calls[c].state # "marshaled" /\ calls' = [calls EXCEPT ![c].state = "imported"]
       /\ idle' = idle /\ active' = active /\ sem' = sem /\ ops' = ops
  BY DEF Import, timeline
<1>13. QED BY <1>10, <1>11, <1>12, MarkTypes

LEMMA AdvanceTypes ==
  ASSUME TypeInv, NEW c \in DOMAIN calls, Submit(c) \/ Complete(c) \/ Fail(c)
  PROVE  TypeInv'
<1>1. /\ home \in [Buffers -> Queues \cup {None}]
      /\ mutation \in [Buffers -> Fences] /\ use \in [Buffers -> Fences]
  BY DEF TypeInv, TypeOK
<1>2. /\ home' = home /\ mutation' = mutation /\ use' = use
      /\ idle' = idle /\ active' = active /\ sem' = sem /\ calls[c].state # "marshaled"
  BY DEF Submit, Complete, Fail, timeline, barriers
<1>3. Live \subseteq Live'
  BY <1>2 DEF Live
<1>4. CASE Submit(c)
  BY <1>1, <1>2, <1>3, <1>4, MarkTypes DEF Submit
<1>5. CASE Complete(c)
  BY <1>1, <1>2, <1>3, <1>5, MarkTypes DEF Complete
<1>6. CASE Fail(c)
  BY <1>1, <1>2, <1>3, <1>6, MarkTypes DEF Fail
<1>7. QED BY <1>4, <1>5, <1>6

LEMMA ExecuteTypes ==
  ASSUME TypeInv, NEW i \in DOMAIN ops, Execute(i)
  PROVE  TypeInv'
<1>1. TypeOK /\ ops \in Seq(Op) /\ sem \in Fences
  BY DEF TypeInv, TypeOK
<1>2. ops' = [ops EXCEPT ![i].state = "done"]
  BY DEF Execute
<1>3. ops' \in Seq(Op) /\ DOMAIN ops' = DOMAIN ops
  BY <1>1, <1>2, MarkOp
<1>4. ops[i].account \in Queues /\ ops[i].time \in Nat
  BY <1>1, OpItems
<1>5. sem' \in Fences
  BY <1>1, <1>4 DEF Execute, Fences
<1>6. /\ idle' = idle /\ active' = active /\ calls' = calls
      /\ home' = home /\ mutation' = mutation /\ use' = use
  BY DEF Execute, barriers
<1>7. CallsLive'
  BY <1>3, <1>6, LiveRests
<1>8. QED BY <1>1, <1>3, <1>5, <1>6, <1>7 DEF TypeInv, TypeOK

LEMMA TypeStep == TypeInv /\ [Next]_vars => TypeInv'
<1> SUFFICES ASSUME TypeInv, [Next]_vars PROVE TypeInv'
  OBVIOUS
<1>1. ASSUME NEW q \in Queues, OnSync(q) PROVE TypeInv'
  <2>1. ops' \in Seq(Op) /\ DOMAIN ops \subseteq DOMAIN ops'
    BY <1>1, FlushTypes DEF OnSync
  <2>2. /\ idle' = idle /\ sem' = sem /\ calls' = calls /\ active' \in [Queues -> SUBSET Fences]
        /\ home' = home /\ mutation' = mutation /\ use' = use
    BY <1>1 DEF OnSync, barriers
  <2>3. CallsLive'
    BY <2>1, <2>2, LiveRests
  <2>4. QED BY <2>1, <2>2, <2>3 DEF TypeInv, TypeOK
<1>2. CASE UNCHANGED vars
  <2>1. /\ idle' = idle /\ active' = active /\ sem' = sem /\ ops' = ops /\ calls' = calls
        /\ home' = home /\ mutation' = mutation /\ use' = use
    BY <1>2 DEF vars, timeline, barriers
  <2>2. QED BY <2>1, LiveRests DEF TypeInv, TypeOK
<1>3. CASE Advance
  BY <1>3, ScheduleTypes, AdvanceTypes, ExecuteTypes DEF Advance
<1>4. CASE \E c \in DOMAIN calls : Fail(c) \/ Import(c)
  BY <1>4, AdvanceTypes, ImportTypes
<1>5. QED BY <1>1, <1>2, <1>3, <1>4, TransferTypes, InvokeTypes DEF Next

\* Theorem.  The scheduler's accounts, barriers, operations and invocations keep
\* their types, whatever functions are called with: a flush submits for accounts
\* that have a command buffer, an invocation runs on a queue of its arguments, and
\* a result is imported with the timepoint of its own submission.
THEOREM SchedulerTypes == Spec => []TypeOK
<1>1. Init => TypeInv
  BY OrderInit DEF Init, OrderInv, TypeInv, CallsLive
<1>2. TypeInv => TypeOK
  BY DEF TypeInv
<1>3. QED BY <1>1, <1>2, TypeStep, PTL DEF Spec


----------------------------------------------------------------------------
(***************************************************************************)
(* The order of the program.                                               *)
(***************************************************************************)

\* A result is an invocation's own, and has no storage before it is imported.
ResultsOwn ==
    /\ \A c \in DOMAIN calls : calls[c].state # "imported" => home[calls[c].result] = None
    /\ \A c, d \in DOMAIN calls : calls[c].result = calls[d].result => c = d

\* A step keeps the arguments of invocations, and a storage its queue.
QueuesStay ==
    /\ DOMAIN calls \subseteq DOMAIN calls'
    /\ \A c \in DOMAIN calls : calls'[c].args = calls[c].args
    /\ \A b \in Live : home'[b] = home[b]

\* Invocations of one queue after a step were invocations of one queue before.
LEMMA KeptQueue ==
  ASSUME TypeInv, QueuesStay, SameQueue'
  PROVE  SameQueue
<1>1. ASSUME NEW c \in DOMAIN calls, NEW a \in calls[c].args, NEW b \in calls[c].args
      PROVE  home[a] = home[b]
  <2>1. a \in Live /\ b \in Live
    BY DEF TypeInv, CallsLive
  <2>2. c \in DOMAIN calls' /\ a \in calls'[c].args /\ b \in calls'[c].args
        /\ home'[a] = home[a] /\ home'[b] = home[b]
    BY <2>1 DEF QueuesStay
  <2>3. QED BY <2>2 DEF SameQueue
<1>2. QED BY <1>1 DEF SameQueue

LEMMA CallsStay ==
  ASSUME ResultsOwn, calls' = calls, home' = home
  PROVE  ResultsOwn' /\ QueuesStay
BY DEF ResultsOwn, QueuesStay

LEMMA CallMoves ==
  ASSUME ResultsOwn, NEW c \in DOMAIN calls, NEW st, NEW o, Marked(c, st, o),
         calls[c].state # "imported", home' = home
  PROVE  ResultsOwn' /\ QueuesStay
<1>1. /\ DOMAIN calls' = DOMAIN calls
      /\ \A d \in DOMAIN calls : calls'[d].args = calls[d].args /\ calls'[d].result = calls[d].result
      /\ \A d \in DOMAIN calls : calls'[d].state # "imported" => calls[d].state # "imported"
  BY DEF Marked
<1>2. QED BY <1>1 DEF ResultsOwn, QueuesStay

LEMMA MarshalOwns ==
  ASSUME TypeInv, ResultsOwn, NEW args \in Arguments, NEW iso \in Isolations, Marshal(args, iso)
  PROVE  ResultsOwn' /\ QueuesStay
<1>1. calls \in Seq(Call) /\ mutation \in [Buffers -> Fences] /\ home' = home
  BY DEF TypeInv, TypeOK, Marshal, barriers
<1>2. PICK context \in 1 .. contexts + 1, result \in Fresh, w \in Fences :
          calls' = Append(calls,
                [args |-> args, result |-> result, context |-> context,
                 isolation |-> iso, op |-> 0, waits |-> w, state |-> "marshaled"])
  <2>1. PICK context \in 1 .. contexts + 1 :
          calls' = Append(calls,
                [args |-> args, result |-> CHOOSE r \in Fresh : TRUE, context |-> context,
                 isolation |-> iso, op |-> 0,
                 waits |-> [q \in Queues |-> Max({mutation[b][q] : b \in args})],
                 state |-> "marshaled"])
    BY DEF Marshal
  <2>2. (CHOOSE r \in Fresh : TRUE) \in Fresh
    BY DEF Marshal
  <2>3. [q \in Queues |-> Max({mutation[b][q] : b \in args})] \in Fences
    BY <1>1, ArgumentsFence
  <2>4. QED BY <2>1, <2>2, <2>3
<1>3. PICK new : new = [args |-> args, result |-> result, context |-> context,
                        isolation |-> iso, op |-> 0, waits |-> w, state |-> "marshaled"]
  OBVIOUS
<1>4. /\ result \in ResultBuffers /\ home[result] = None
      /\ \A c \in DOMAIN calls : calls[c].result # result
  BY DEF Fresh
<1>5. new \in Call /\ new.result = result
  <2>1. args \in SUBSET Buffers /\ context \in Nat
    BY SchedulerAssumption DEF Buffers
  <2>2. QED BY <1>2, <1>3, <1>4, <2>1 DEF Call
<1>6. /\ Len(calls) \in Nat /\ DOMAIN calls = 1 .. Len(calls)
      /\ DOMAIN calls' = 1 .. (Len(calls) + 1)
      /\ \A c \in DOMAIN calls : calls'[c] = calls[c]
      /\ calls'[Len(calls) + 1] = new
  BY <1>1, <1>2, <1>3, <1>5, AppendItems
<1>7. \A c \in DOMAIN calls' :
        \/ c \in DOMAIN calls /\ calls'[c] = calls[c]
        \/ c = Len(calls) + 1 /\ calls'[c].result = result
  <2>1. \A c \in DOMAIN calls' : c \in DOMAIN calls \/ c = Len(calls) + 1
    BY <1>6
  <2>2. QED BY <1>5, <1>6, <2>1
<1>8. ResultsOwn'
  <2>1. \A c \in DOMAIN calls' : calls'[c].state # "imported" => home'[calls'[c].result] = None
    BY <1>1, <1>4, <1>7 DEF ResultsOwn
  <2>2. \A c, d \in DOMAIN calls' : calls'[c].result = calls'[d].result => c = d
    BY <1>4, <1>7 DEF ResultsOwn
  <2>3. QED BY <2>1, <2>2 DEF ResultsOwn
<1>9. DOMAIN calls \subseteq DOMAIN calls'
  BY <1>6
<1>10. QED BY <1>1, <1>6, <1>8, <1>9 DEF QueuesStay

LEMMA ImportOwns ==
  ASSUME TypeInv, ResultsOwn, NEW c \in DOMAIN calls, Import(c)
  PROVE  ResultsOwn' /\ QueuesStay
<1>1. calls \in Seq(Call) /\ home \in [Buffers -> Queues \cup {None}]
  BY DEF TypeInv, TypeOK
<1>2. PICK r \in Buffers : r = calls[c].result
  BY <1>1, CallItems
<1>3. \A b \in Buffers : b # r => home'[b] = home[b]
  BY <1>1, <1>2 DEF Import
<1>4. home[r] = None
  BY <1>2 DEF ResultsOwn, Import
<1>5. Marked(c, "imported", calls[c].op)
  BY <1>1, MarkState DEF Import
<1>6. /\ DOMAIN calls' = DOMAIN calls
      /\ \A d \in DOMAIN calls : calls'[d].args = calls[d].args /\ calls'[d].result = calls[d].result
      /\ \A d \in DOMAIN calls : calls'[d].state # "imported" => d # c /\ calls[d].state # "imported"
  BY <1>5 DEF Marked
<1>7. ASSUME NEW d \in DOMAIN calls, calls'[d].state # "imported"
      PROVE  home'[calls'[d].result] = None
  <2>1. d # c /\ home[calls[d].result] = None /\ calls[d].result # r
    BY <1>2, <1>6, <1>7 DEF ResultsOwn
  <2>2. calls[d].result \in Buffers
    BY <1>1, CallItems
  <2>3. QED BY <1>3, <1>6, <2>1, <2>2
<1>8. \A b \in Live : home'[b] = home[b]
  BY <1>3, <1>4 DEF Live
<1>9. QED BY <1>6, <1>7, <1>8 DEF ResultsOwn, QueuesStay

LEMMA StepOwns == TypeInv /\ ResultsOwn /\ [Next]_vars => ResultsOwn' /\ QueuesStay
<1> SUFFICES ASSUME TypeInv, ResultsOwn, [Next]_vars PROVE ResultsOwn' /\ QueuesStay
  OBVIOUS
<1>1. CASE Transfer
  <2>1. calls' = calls /\ home' = home
    BY <1>1 DEF Transfer, Fill, CopyFrom, FillThrows, CopyThrows, AppendCommandBuffer,
       AppendThrows, barriers
  <2>2. QED BY <2>1, CallsStay
<1>2. CASE Invoke
  <2>1. ASSUME NEW iso \in Isolations, MarshalThrows(iso) PROVE ResultsOwn' /\ QueuesStay
    BY <2>1, CallsStay DEF MarshalThrows, barriers
  <2>2. QED BY <1>2, <2>1, MarshalOwns DEF Invoke
<1>3. ASSUME NEW c \in DOMAIN calls, Schedule(c) \/ Submit(c) \/ Complete(c) \/ Fail(c)
      PROVE  ResultsOwn' /\ QueuesStay
  <2>1. calls \in Seq(Call) /\ home' = home /\ calls[c].state # "imported"
    BY <1>3 DEF TypeInv, TypeOK, Schedule, Submit, Complete, Fail, barriers
  <2>2. CASE Schedule(c)
    <3>1. PICK n \in Nat : Marked(c, "scheduled", n)
      BY <2>2, ScheduleTypes
    <3>2. QED BY <2>1, <3>1, CallMoves
  <2>3. CASE Submit(c) \/ Complete(c) \/ Fail(c)
    <3>1. PICK st \in {"submitted", "complete", "failed"} : calls' = [calls EXCEPT ![c].state = st]
      BY <2>3 DEF Submit, Complete, Fail
    <3>2. Marked(c, st, calls[c].op)
      BY <2>1, <3>1, MarkState
    <3>3. QED BY <2>1, <3>2, CallMoves
  <2>4. QED BY <1>3, <2>2, <2>3
<1>4. ASSUME NEW i \in DOMAIN ops, Execute(i) PROVE ResultsOwn' /\ QueuesStay
  BY <1>4, CallsStay DEF Execute, barriers
<1>5. ASSUME NEW q \in Queues, OnSync(q) PROVE ResultsOwn' /\ QueuesStay
  BY <1>5, CallsStay DEF OnSync, barriers
<1>6. CASE UNCHANGED vars
  BY <1>6, CallsStay DEF vars, barriers
<1>7. QED BY <1>1, <1>2, <1>3, <1>4, <1>5, <1>6, ImportOwns DEF Next, Advance

\* The invariant behind DeviceOrder: the order holds as long as no invocation has
\* had arguments of two queues.
ProgramInv == TypeInv /\ ResultsOwn /\ (SameQueue => OrderInv)

LEMMA ProgramStep == ProgramInv /\ [Next]_vars => ProgramInv'
<1> SUFFICES ASSUME ProgramInv, [Next]_vars PROVE ProgramInv'
  OBVIOUS
<1>1. TypeInv /\ ResultsOwn
  BY DEF ProgramInv
<1>2. TypeInv' /\ ResultsOwn' /\ QueuesStay
  BY <1>1, TypeStep, StepOwns
<1>3. ASSUME SameQueue' PROVE OrderInv'
  <2>1. SameQueue
    BY <1>1, <1>2, <1>3, KeptQueue
  <2>2. OrderInv
    BY <2>1 DEF ProgramInv
  <2>3. QED BY <2>1, <2>2, OrderStep
<1>4. QED BY <1>2, <1>3 DEF ProgramInv

\* Theorem (storage.cc:102-107, 128-132, fiber.h:52).  As long as no function has been
\* called with arrays of two queues, the device runs what conflicts in the order of
\* the program, on whatever queues it is, and a wait for a device that has returned
\* means that all that was issued to it before is complete: with transfers and
\* invocations that fail, for any numbers of queues, buffers and operations.
THEOREM InProgramOrder == Spec => []DeviceOrder
<1>1. Init => ProgramInv
  BY OrderInit DEF Init, OrderInv, ProgramInv, TypeInv, CallsLive, ResultsOwn
<1>2. ProgramInv => DeviceOrder
  BY OrderImplied DEF ProgramInv, DeviceOrder
<1>3. QED BY <1>1, <1>2, ProgramStep, PTL DEF Spec


----------------------------------------------------------------------------
(***************************************************************************)
(* Isolation.                                                              *)
(***************************************************************************)

\* Contexts are numbered as they are forked, by a fiber that has an isolate.
Forked == /\ forks \in Seq(Nat) /\ contexts \in Nat
          /\ contexts > 0 => isolate
          /\ \A k \in DOMAIN forks : forks[k] \in 1 .. contexts
          /\ \A c \in DOMAIN calls : Holds(c) => calls[c].context \in 1 .. contexts

HeldApart == \A c, d \in DOMAIN calls :
                Holds(c) /\ Holds(d) /\ c # d => calls[c].context # calls[d].context

FreeApart == /\ \A c \in DOMAIN calls : Holds(c) =>
                   \A k \in DOMAIN forks : forks[k] # calls[c].context
             /\ \A k, l \in DOMAIN forks : forks[k] = forks[l] => k = l

OneOnly == (\A c \in DOMAIN calls : calls[c].isolation = "PER_FIBER") => contexts <= 1

IsoInv == Forked /\ HeldApart /\ FreeApart /\ OneOnly

LEMMA IsoImplied == IsoInv => ContextsExclusive
BY DEF IsoInv, Forked, HeldApart, FreeApart, OneOnly, ContextsExclusive, ToSet, IsInjective

\* Invocations keep what isolates them.
Isolated(c) == /\ DOMAIN calls' = DOMAIN calls
               /\ \A d \in DOMAIN calls :
                     /\ calls'[d].context = calls[d].context
                     /\ calls'[d].isolation = calls[d].isolation
                     /\ d # c => calls'[d].state = calls[d].state

LEMMA StateIsolated ==
  ASSUME calls \in Seq(Call), NEW c \in DOMAIN calls, NEW st,
         \/ calls' = [calls EXCEPT ![c].state = st]
         \/ \E o \in Nat : calls' = [calls EXCEPT ![c].state = st, ![c].op = o]
  PROVE  Isolated(c) /\ calls'[c].state = st
<1>1. calls[c] \in Call
  BY CallItems
<1>2. PICK k : /\ k = [calls[c] EXCEPT !.state = st]
                  \/ \E o \in Nat : k = [calls[c] EXCEPT !.state = st, !.op = o]
               /\ calls' = [calls EXCEPT ![c] = k]
  OBVIOUS
<1>3. k.context = calls[c].context /\ k.isolation = calls[c].isolation /\ k.state = st
  BY <1>1, <1>2 DEF Call
<1>4. DOMAIN calls' = DOMAIN calls /\ calls'[c] = k /\ \A d \in DOMAIN calls : d # c => calls'[d] = calls[d]
  BY <1>2
<1>5. QED BY <1>3, <1>4 DEF Isolated

\* An invocation that holds a context goes on, or one that holds none.
LEMMA IsoRests ==
  ASSUME IsoInv, isolation' = isolation, NEW c, Isolated(c),
         c \in DOMAIN calls => (Holds(c)' => Holds(c))
  PROVE  IsoInv'
<1>1. forks' = forks /\ isolate' = isolate /\ contexts' = contexts
  BY DEF isolation
<1>2. /\ DOMAIN calls' = DOMAIN calls
      /\ \A d \in DOMAIN calls : /\ calls'[d].context = calls[d].context
                                 /\ calls'[d].isolation = calls[d].isolation
                                 /\ Holds(d)' => Holds(d)
  <2>1. ASSUME NEW d \in DOMAIN calls PROVE Holds(d)' => Holds(d)
    BY <2>1 DEF Isolated, Holds
  <2>2. QED BY <2>1 DEF Isolated
<1>3. Forked'
  BY <1>1, <1>2 DEF IsoInv, Forked
<1>4. HeldApart' /\ FreeApart' /\ OneOnly'
  BY <1>1, <1>2 DEF IsoInv, HeldApart, FreeApart, OneOnly
<1>5. QED BY <1>3, <1>4 DEF IsoInv

\* The context of an invocation that is over goes to the free ones.
LEMMA IsoReleased ==
  ASSUME TypeInv, IsoInv, NEW c \in DOMAIN calls, Holds(c), ~ Holds(c)', Isolated(c),
         ReleaseIsolate(calls[c].context)
  PROVE  IsoInv'
<1>1. PICK x \in 1 .. contexts : x = calls[c].context
  BY DEF IsoInv, Forked
<1>2. /\ forks \in Seq(Nat) /\ contexts \in Nat /\ x \in Nat
      /\ forks' = Append(forks, x) /\ isolate' = isolate /\ contexts' = contexts
  BY <1>1 DEF IsoInv, Forked, ReleaseIsolate
<1>3. /\ forks' \in Seq(Nat) /\ Len(forks) \in Nat /\ DOMAIN forks = 1 .. Len(forks)
      /\ DOMAIN forks' = 1 .. (Len(forks) + 1)
      /\ \A k \in DOMAIN forks : forks'[k] = forks[k]
      /\ forks'[Len(forks) + 1] = x
  BY <1>2, AppendItems
<1>4. \A k \in DOMAIN forks' : k \in DOMAIN forks \/ k = Len(forks) + 1
  BY <1>3
<1>5. /\ DOMAIN calls' = DOMAIN calls
      /\ \A d \in DOMAIN calls : /\ calls'[d].context = calls[d].context
                                 /\ calls'[d].isolation = calls[d].isolation
                                 /\ Holds(d)' => Holds(d) /\ d # c
  <2>1. ASSUME NEW d \in DOMAIN calls PROVE Holds(d)' => Holds(d) /\ d # c
    BY <2>1 DEF Isolated, Holds
  <2>2. QED BY <2>1 DEF Isolated
<1>6. Forked'
  BY <1>1, <1>2, <1>3, <1>4, <1>5 DEF IsoInv, Forked
<1>7. HeldApart' /\ OneOnly'
  BY <1>2, <1>5 DEF IsoInv, HeldApart, OneOnly
<1>8. \A k \in DOMAIN forks : forks[k] # x
  BY <1>1 DEF IsoInv, FreeApart
<1>9. FreeApart'
  <2>1. ASSUME NEW d \in DOMAIN calls', Holds(d)', NEW k \in DOMAIN forks'
        PROVE  forks'[k] # calls'[d].context
    <3>1. Holds(d) /\ d # c /\ d \in DOMAIN calls /\ calls'[d].context = calls[d].context
      BY <1>5, <2>1
    <3>2. calls[d].context # x
      BY <1>1, <3>1 DEF IsoInv, HeldApart
    <3>3. \A l \in DOMAIN forks : forks[l] # calls[d].context
      BY <3>1 DEF IsoInv, FreeApart
    <3>4. QED BY <1>3, <1>4, <3>1, <3>2, <3>3
  <2>2. ASSUME NEW k \in DOMAIN forks', NEW l \in DOMAIN forks', forks'[k] = forks'[l]
        PROVE  k = l
    BY <1>3, <1>4, <1>8, <2>2 DEF IsoInv, FreeApart
  <2>3. QED BY <2>1, <2>2 DEF FreeApart
<1>10. QED BY <1>6, <1>7, <1>9 DEF IsoInv

\* A free context is taken, or one is forked.
LEMMA IsoAcquired ==
  ASSUME TypeInv, IsoInv, NEW args \in Arguments, NEW iso \in Isolations, Marshal(args, iso)
  PROVE  IsoInv'
<1>1. PICK x \in 1 .. contexts + 1, new \in Call :
        /\ AcquireIsolate(iso, x)
        /\ calls' = Append(calls, new)
        /\ new.context = x /\ new.isolation = iso
  <2>1. mutation \in [Buffers -> Fences]
    BY DEF TypeInv, TypeOK
  <2>2. PICK w \in Fences : w = [q \in Queues |-> Max({mutation[b][q] : b \in args})]
    BY <2>1, ArgumentsFence
  <2>3. PICK r \in ResultBuffers : r = CHOOSE s \in Fresh : TRUE
    BY DEF Marshal, Fresh
  <2>4. PICK x \in 1 .. contexts + 1 :
          /\ AcquireIsolate(iso, x)
          /\ calls' = Append(calls,
                [args |-> args, result |-> r, context |-> x,
                 isolation |-> iso, op |-> 0, waits |-> w, state |-> "marshaled"])
    BY <2>2, <2>3 DEF Marshal
  <2>5. PICK new : new = [args |-> args, result |-> r, context |-> x,
                          isolation |-> iso, op |-> 0, waits |-> w, state |-> "marshaled"]
    OBVIOUS
  <2>6. args \in SUBSET Buffers /\ x \in Nat
    BY SchedulerAssumption DEF Buffers, IsoInv, Forked
  <2>7. new \in Call /\ new.context = x /\ new.isolation = iso
    BY <2>5, <2>6 DEF Call
  <2>8. QED BY <2>4, <2>5, <2>7
<1>2. calls \in Seq(Call) /\ forks \in Seq(Nat) /\ contexts \in Nat
  BY DEF TypeInv, TypeOK, IsoInv, Forked
<1>3. /\ Len(calls) \in Nat /\ DOMAIN calls = 1 .. Len(calls)
      /\ DOMAIN calls' = 1 .. (Len(calls) + 1)
      /\ \A c \in DOMAIN calls : calls'[c] = calls[c]
      /\ calls'[Len(calls) + 1] = new
  BY <1>1, <1>2, AppendItems
<1>4. \A c \in DOMAIN calls' : c \in DOMAIN calls \/ c = Len(calls) + 1
  BY <1>3
<1>5. \A c \in DOMAIN calls : /\ c \in DOMAIN calls' /\ c # Len(calls) + 1
                              /\ calls'[c] = calls[c] /\ (Holds(c)' <=> Holds(c))
  BY <1>3 DEF Holds
\* What the new invocation holds is held by nobody else, and is not free.
<1>6. /\ forks' \in Seq(Nat) /\ contexts' \in Nat /\ contexts <= contexts'
      /\ x \in 1 .. contexts' /\ (contexts' > 0 => isolate')
      /\ \A k \in DOMAIN forks' : k \in DOMAIN forks /\ forks'[k] = forks[k] /\ forks'[k] # x
      /\ \A c \in DOMAIN calls : Holds(c) => calls[c].context # x
      /\ iso = "PER_FIBER" => contexts' <= 1 \/ contexts' = contexts
  <2>1. CASE /\ isolate /\ forks # << >>
             /\ x = Last(forks) /\ forks' = Front(forks)
             /\ UNCHANGED <<isolate, contexts>>
    <3>1. PICK n \in Nat : n = Len(forks) /\ n > 0 /\ DOMAIN forks = 1 .. n /\ n \in DOMAIN forks
      BY <1>2, <2>1
    <3>2. /\ forks' \in Seq(Nat) /\ DOMAIN forks' = 1 .. (n - 1)
          /\ \A k \in DOMAIN forks' : k \in DOMAIN forks /\ k # n /\ forks'[k] = forks[k]
      BY <1>2, <2>1, <3>1 DEF Front
    <3>3. x = forks[n] /\ x \in 1 .. contexts
      BY <2>1, <3>1 DEF Last, IsoInv, Forked
    <3>4. \A k \in DOMAIN forks' : forks'[k] # x
      BY <3>1, <3>2, <3>3 DEF IsoInv, FreeApart
    <3>5. \A c \in DOMAIN calls : Holds(c) => calls[c].context # x
      BY <3>1, <3>3 DEF IsoInv, FreeApart
    <3>6. contexts' = contexts /\ isolate' = isolate /\ contexts <= contexts
      BY <1>2, <2>1
    <3>7. QED BY <1>2, <2>1, <3>2, <3>3, <3>4, <3>5, <3>6
  <2>2. CASE /\ Forks(iso)
             /\ x = contexts + 1 /\ contexts' = contexts + 1 /\ isolate' = TRUE
             /\ UNCHANGED forks
    <3>1. forks = << >> /\ forks' = forks /\ DOMAIN forks' = {}
      BY <2>2 DEF Forks
    <3>2. \A c \in DOMAIN calls : Holds(c) => calls[c].context # x
      BY <1>2, <2>2 DEF IsoInv, Forked
    <3>3. iso = "PER_FIBER" => contexts' <= 1
      <4>1. SUFFICES ASSUME iso = "PER_FIBER" PROVE contexts' <= 1
        OBVIOUS
      <4>2. ~ isolate
        BY <2>2, <4>1 DEF Forks
      <4>3. ~ (contexts > 0)
        BY <4>2 DEF IsoInv, Forked
      <4>4. QED BY <1>2, <2>2, <4>3
    <3>4. contexts + 1 \in Nat /\ contexts <= contexts + 1 /\ contexts + 1 \in 1 .. contexts + 1
      BY <1>2
    <3>5. QED BY <1>2, <2>2, <3>1, <3>2, <3>3, <3>4
  <2>3. QED BY <1>1, <2>1, <2>2 DEF AcquireIsolate
<1>7. Forked'
  <2>1. ASSUME NEW k \in DOMAIN forks' PROVE forks'[k] \in 1 .. contexts'
    <3>1. forks'[k] = forks[k] /\ forks[k] \in 1 .. contexts
      BY <1>6, <2>1 DEF IsoInv, Forked
    <3>2. QED BY <1>2, <1>6, <3>1
  <2>2. ASSUME NEW c \in DOMAIN calls', Holds(c)' PROVE calls'[c].context \in 1 .. contexts'
    <3>1. CASE c \in DOMAIN calls
      <4>1. calls'[c] = calls[c] /\ calls[c].context \in 1 .. contexts
        BY <1>5, <2>2, <3>1 DEF IsoInv, Forked
      <4>2. QED BY <1>2, <1>6, <4>1
    <3>2. CASE c = Len(calls) + 1
      BY <1>1, <1>3, <1>6, <3>2
    <3>3. QED BY <1>4, <3>1, <3>2
  <2>3. QED BY <1>6, <2>1, <2>2 DEF Forked
<1>8. HeldApart'
  <2>1. ASSUME NEW c \in DOMAIN calls', NEW d \in DOMAIN calls', Holds(c)', Holds(d)', c # d
        PROVE  calls'[c].context # calls'[d].context
    <3>1. CASE c \in DOMAIN calls /\ d \in DOMAIN calls
      BY <1>5, <2>1, <3>1 DEF IsoInv, HeldApart
    <3>2. CASE c \in DOMAIN calls /\ d = Len(calls) + 1
      BY <1>1, <1>3, <1>5, <1>6, <2>1, <3>2
    <3>3. CASE c = Len(calls) + 1 /\ d \in DOMAIN calls
      BY <1>1, <1>3, <1>5, <1>6, <2>1, <3>3
    <3>4. QED BY <1>4, <2>1, <3>1, <3>2, <3>3
  <2>2. QED BY <2>1 DEF HeldApart
<1>9. FreeApart'
  <2>1. ASSUME NEW c \in DOMAIN calls', Holds(c)', NEW k \in DOMAIN forks'
        PROVE  forks'[k] # calls'[c].context
    <3>1. CASE c \in DOMAIN calls
      BY <1>5, <1>6, <2>1, <3>1 DEF IsoInv, FreeApart
    <3>2. CASE c = Len(calls) + 1
      BY <1>1, <1>3, <1>6, <3>2
    <3>3. QED BY <1>4, <3>1, <3>2
  <2>2. ASSUME NEW k \in DOMAIN forks', NEW l \in DOMAIN forks', forks'[k] = forks'[l]
        PROVE  k = l
    BY <1>6, <2>2 DEF IsoInv, FreeApart
  <2>3. QED BY <2>1, <2>2 DEF FreeApart
<1>10. OneOnly'
  <2>1. SUFFICES ASSUME \A c \in DOMAIN calls' : calls'[c].isolation = "PER_FIBER"
                 PROVE  contexts' <= 1
    BY DEF OneOnly
  <2>2. Len(calls) + 1 \in DOMAIN calls'
    BY <1>3
  <2>3. iso = "PER_FIBER"
    BY <1>1, <1>3, <2>1, <2>2
  <2>4. contexts <= 1
    BY <1>5, <2>1 DEF IsoInv, OneOnly
  <2>5. QED BY <1>6, <2>3, <2>4
<1>11. QED BY <1>7, <1>8, <1>9, <1>10 DEF IsoInv

LEMMA IsoStep == TypeInv /\ IsoInv /\ [Next]_vars => IsoInv'
<1> SUFFICES ASSUME TypeInv, IsoInv, [Next]_vars PROVE IsoInv'
  OBVIOUS
<1>1. calls \in Seq(Call)
  BY DEF TypeInv, TypeOK
<1>2. ASSUME calls' = calls, isolation' = isolation PROVE IsoInv'
  <2>1. Isolated(0) /\ (0 \in DOMAIN calls => (Holds(0)' => Holds(0)))
    BY <1>2 DEF Isolated, Holds
  <2>2. QED BY <1>2, <2>1, IsoRests
<1>3. CASE Transfer
  <2>1. calls' = calls /\ isolation' = isolation
    BY <1>3 DEF Transfer, Fill, CopyFrom, FillThrows, CopyThrows, AppendThrows, AppendCommandBuffer
  <2>2. QED BY <1>2, <2>1
<1>4. ASSUME NEW iso \in Isolations, MarshalThrows(iso) PROVE IsoInv'
  <2>1. calls' = calls /\ forks' = forks /\ contexts' = contexts /\ isolate' = TRUE
    BY <1>4 DEF MarshalThrows
  <2>2. QED BY <2>1 DEF IsoInv, Forked, HeldApart, FreeApart, OneOnly, Holds
<1>5. CASE Invoke
  BY <1>4, <1>5, IsoAcquired DEF Invoke
<1>6. ASSUME NEW c \in DOMAIN calls, Schedule(c) PROVE IsoInv'
  <2>1. Holds(c) /\ isolation' = isolation
    BY <1>6 DEF Schedule, Holds
  <2>2. Len(ops') \in Nat
    <3>1. ops' \in Seq(Op)
      BY <1>6, ScheduleTypes DEF TypeInv, TypeOK
    <3>2. QED BY <3>1
  <2>3. Isolated(c)
    BY <1>1, <1>6, <2>2, StateIsolated DEF Schedule
  <2>4. QED BY <2>1, <2>3, IsoRests
<1>7. ASSUME NEW c \in DOMAIN calls, Submit(c) PROVE IsoInv'
  <2>1. Holds(c) /\ isolation' = isolation
    BY <1>7 DEF Submit, Holds
  <2>2. Isolated(c)
    BY <1>1, <1>7, StateIsolated DEF Submit
  <2>3. QED BY <2>1, <2>2, IsoRests
<1>8. ASSUME NEW c \in DOMAIN calls, Complete(c) PROVE IsoInv'
  <2>1. Isolated(c) /\ calls'[c].state = "complete"
    BY <1>1, <1>8, StateIsolated DEF Complete
  <2>2. Holds(c) /\ ~ Holds(c)'
    BY <1>8, <2>1 DEF Complete, Holds
  <2>3. QED BY <1>8, <2>1, <2>2, IsoReleased DEF Complete
<1>9. ASSUME NEW c \in DOMAIN calls, Fail(c) PROVE IsoInv'
  <2>1. Isolated(c) /\ calls'[c].state = "failed"
    BY <1>1, <1>9, StateIsolated DEF Fail
  <2>2. Holds(c) /\ ~ Holds(c)'
    BY <1>9, <2>1 DEF Fail, Holds
  <2>3. QED BY <1>9, <2>1, <2>2, IsoReleased DEF Fail
<1>10. ASSUME NEW c \in DOMAIN calls, Import(c) PROVE IsoInv'
  <2>1. Isolated(c) /\ calls'[c].state = "imported"
    BY <1>1, <1>10, StateIsolated DEF Import
  <2>2. isolation' = isolation /\ ~ Holds(c)'
    BY <1>10, <2>1 DEF Import, Holds
  <2>3. QED BY <2>1, <2>2, IsoRests
<1>11. ASSUME NEW i \in DOMAIN ops, Execute(i) PROVE IsoInv'
  BY <1>2, <1>11 DEF Execute
<1>12. ASSUME NEW q \in Queues, OnSync(q) PROVE IsoInv'
  BY <1>2, <1>12 DEF OnSync
<1>13. CASE UNCHANGED vars
  BY <1>2, <1>13 DEF vars
<1>14. CASE Advance
  BY <1>6, <1>7, <1>8, <1>11, <1>14 DEF Advance
<1>15. QED BY <1>3, <1>5, <1>9, <1>10, <1>12, <1>13, <1>14 DEF Next

\* Theorem (program.h:50-59).  No two invocations under way share a context, a
\* context that is free is used by nobody and free once, and a program that is
\* only called PER_FIBER has a single one, whatever functions are called with,
\* complete or fail, and when forking a context fails.
THEOREM ContextsApart == Spec => []ContextsExclusive
<1>1. Init => TypeInv /\ IsoInv
  <2> SUFFICES ASSUME Init PROVE TypeInv /\ IsoInv
    OBVIOUS
  <2>1. TypeInv
    BY OrderInit DEF Init, OrderInv, TypeInv, CallsLive
  <2>2. forks = << >> /\ calls = << >> /\ contexts = 0 /\ forks \in Seq(Nat)
    BY DEF Init
  <2>3. IsoInv
    BY <2>2 DEF IsoInv, Forked, HeldApart, FreeApart, OneOnly
  <2>4. QED BY <2>1, <2>3
<1>2. QED BY <1>1, TypeStep, IsoStep, IsoImplied, PTL DEF Spec
=============================================================================
