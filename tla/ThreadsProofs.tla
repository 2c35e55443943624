---------------------------- MODULE ThreadsProofs ----------------------------
(***************************************************************************)
(* Proofs about the threads of the host: about Worker, for any set of      *)
(* callers and any number of thunks, about BlockingExecutor, for any       *)
(* numbers of threads, of callers of Schedule and Kill, and of tasks, and  *)
(* about System, for any numbers of Python threads, workers and processes. *)
(***************************************************************************)
EXTENDS Worker, BlockingExecutor, System, ProofLemmas

(***************************************************************************)
(* Worker                                                                  *)
(***************************************************************************)

\* The event and the callers: nothing but TransactLoop resets the event, and
\* it takes the pending thunks in the same critical section.
LEMMA WakeupStep == TypeOK /\ (phase # "run" => next = << >>) /\ NoLostWakeup
                       /\ [Next]_vars => NoLostWakeup'
<1> SUFFICES ASSUME TypeOK, phase # "run" => next = << >>, NoLostWakeup, [Next]_vars
             PROVE  NoLostWakeup'
  OBVIOUS
<1> USE DEF NoLostWakeup
<1>1. ASSUME NEW c \in Callers, CallThreadsafe(c) PROVE NoLostWakeup'
  <2>1. pc'[c] = "signal"
    BY <1>1 DEF CallThreadsafe, TypeOK
  <2>2. QED BY <2>1
<1>2. ASSUME NEW c \in Callers, Kill(c) PROVE NoLostWakeup'
  BY <1>2 DEF Kill
<1>3. ASSUME NEW c \in Callers, SetSignal(c) PROVE NoLostWakeup'
  BY <1>3 DEF SetSignal
<1>4. CASE TransactLoop
  <2>1. CASE kill
    BY <1>4, <2>1 DEF TransactLoop
  <2>2. CASE ~kill
    BY <1>4, <2>2 DEF TransactLoop
  <2>3. QED BY <2>1, <2>2
<1>5. CASE Start \/ CheckKill \/ DrainReturns \/ ScheduleExternalTransactEvent
  BY <1>5 DEF Start, CheckKill, DrainReturns, ScheduleExternalTransactEvent, thunks
<1>6. CASE RunThunk
  BY <1>6 DEF RunThunk
<1>7. CASE RunLowLevel \/ RunLowLevelFails
  BY <1>7 DEF RunLowLevel, RunLowLevelFails, thunks
<1>8. CASE UNCHANGED vars
  BY <1>8 DEF vars, thunks
<1>9. QED
  BY <1>1, <1>2, <1>3, <1>4, <1>5, <1>6, <1>7, <1>8 DEF Next, WorkerStep

----------------------------------------------------------------------------
(***************************************************************************)
(* Types.  Outside of the loop over next_thunks_ that vector is empty,     *)
(* which is why the swap of TransactLoop loses nothing.                    *)
(***************************************************************************)
Swapped == phase # "run" => next = << >>

\* Every step keeps the types, and next_thunks_ empty outside of its loop.
LEMMA TypeStep == TypeOK /\ Swapped /\ [Next]_vars => (TypeOK /\ Swapped)'
<1> SUFFICES ASSUME TypeOK, Swapped, [Next]_vars PROVE (TypeOK /\ Swapped)'
  OBVIOUS
<1> USE DEF TypeOK, Swapped, Phases
<1>0. MaxThunks \in Nat /\ MaxLowLevel \in Nat
  BY WorkerAssumption
<1>1. ASSUME NEW c \in Callers, CallThreadsafe(c) PROVE (TypeOK /\ Swapped)'
  BY <1>1 DEF CallThreadsafe
<1>2. ASSUME NEW c \in Callers, Kill(c) PROVE (TypeOK /\ Swapped)'
  BY <1>2 DEF Kill, thunks
<1>3. ASSUME NEW c \in Callers, SetSignal(c) PROVE (TypeOK /\ Swapped)'
  BY <1>3 DEF SetSignal, thunks
<1>4. CASE TransactLoop
  <2>1. CASE kill
    BY <1>4, <2>1 DEF TransactLoop
  <2>2. CASE ~kill
    BY <1>4, <2>2 DEF TransactLoop
  <2>3. QED BY <2>1, <2>2
<1>5. CASE Start
  BY <1>5 DEF Start, thunks
<1>6. CASE CheckKill \/ DrainReturns
  BY <1>6 DEF CheckKill, DrainReturns, thunks
<1>7. CASE ScheduleExternalTransactEvent
  BY <1>7 DEF ScheduleExternalTransactEvent, thunks
<1>8. CASE RunThunk
  <2>1. ran' \in Seq(Nat) /\ next' \in Seq(Nat)
    BY <1>8 DEF RunThunk
  <2>2. low' \in 0 .. MaxLowLevel
    BY <1>0, <1>8 DEF RunThunk
  <2>3. QED
    BY <1>8, <2>1, <2>2 DEF RunThunk
<1>9. CASE RunLowLevel \/ RunLowLevelFails
  <2>1. low' \in 0 .. MaxLowLevel
    BY <1>0, <1>9 DEF RunLowLevel, RunLowLevelFails
  <2>2. armed' \in BOOLEAN
    BY <1>9 DEF RunLowLevel, RunLowLevelFails
  <2>3. QED
    BY <1>9, <2>1, <2>2 DEF RunLowLevel, RunLowLevelFails, thunks
<1>10. CASE UNCHANGED vars
  BY <1>10 DEF vars, thunks
<1>11. QED
  BY <1>1, <1>2, <1>3, <1>4, <1>5, <1>6, <1>7, <1>8, <1>9, <1>10
     DEF Next, WorkerStep

\* A new worker has no thunks.
LEMMA TypeInit == Init => TypeOK /\ Swapped
<1> SUFFICES ASSUME Init PROVE TypeOK /\ Swapped
  OBVIOUS
<1>1. /\ owned_thread \in BOOLEAN /\ phase \in Phases
      /\ kill \in BOOLEAN /\ signal \in BOOLEAN /\ armed \in BOOLEAN
  BY Zenon DEF Init, Phases
<1>2. /\ submitted \in Nat /\ low \in 0 .. MaxLowLevel
      /\ pending \in Seq(Nat) /\ next \in Seq(Nat) /\ ran \in Seq(Nat)
  BY WorkerAssumption DEF Init
<1>3. pc \in [Callers -> {"idle", "signal"}] /\ next = << >>
  BY DEF Init
<1>4. QED
  BY <1>1, <1>2, <1>3 DEF TypeOK, Swapped

\* The variables of the worker keep their types.
THEOREM TypeCorrect == Spec => [](TypeOK /\ Swapped)
  BY TypeInit, TypeStep, PTL DEF Spec

\* worker.cc 94-106, 239-245: no wakeup is lost, for any number of threads that
\* call CallThreadsafe and Kill while the worker runs.
THEOREM Wakeups == Spec => []NoLostWakeup
<1>1. Init => NoLostWakeup
  BY DEF Init, NoLostWakeup
<1>2. TypeOK /\ Swapped /\ NoLostWakeup /\ [Next]_vars => NoLostWakeup'
  BY WakeupStep DEF Swapped
<1>3. QED
  BY <1>1, <1>2, TypeCorrect, PTL DEF Spec
----------------------------------------------------------------------------
(***************************************************************************)
(* The order of the thunks.                                                *)
(***************************************************************************)

\* Two lists of numbers with the same elements are the same.
LEMMA SameList ==
    ASSUME NEW l \in Seq(Nat), NEW r \in Seq(Nat), Len(l) = Len(r),
           \A i \in 1 .. Len(l) : l[i] = r[i]
    PROVE  l = r
  OBVIOUS

\* The elements of a concatenation.
LEMMA ConcatElements ==
    ASSUME NEW s \in Seq(Nat), NEW t \in Seq(Nat)
    PROVE  /\ s \o t \in Seq(Nat) /\ Len(s \o t) = Len(s) + Len(t)
           /\ \A i \in 1 .. Len(s) : (s \o t)[i] = s[i]
           /\ \A i \in 1 .. Len(t) : (s \o t)[Len(s) + i] = t[i]
  OBVIOUS

\* The elements of a list with one more.
LEMMA AppendElements ==
    ASSUME NEW s \in Seq(Nat), NEW x \in Nat
    PROVE  /\ Append(s, x) \in Seq(Nat) /\ Len(Append(s, x)) = Len(s) + 1
           /\ \A i \in 1 .. Len(s) : Append(s, x)[i] = s[i]
           /\ Append(s, x)[Len(s) + 1] = x
  OBVIOUS

\* Running the first thunk of the batch moves it from one list to the next.
LEMMA MoveHead ==
    ASSUME NEW s \in Seq(Nat), NEW t \in Seq(Nat), t # << >>
    PROVE  Append(s, Head(t)) \o Tail(t) = s \o t
<1> DEFINE a == Append(s, Head(t))
           d == Tail(t)
           l == a \o d
           r == s \o t
<1>1. /\ Head(t) \in Nat /\ Head(t) = t[1] /\ d \in Seq(Nat) /\ Len(t) = Len(d) + 1
      /\ \A i \in 1 .. Len(d) : d[i] = t[i + 1]
  OBVIOUS
<1>2. /\ a \in Seq(Nat) /\ Len(a) = Len(s) + 1
      /\ \A i \in 1 .. Len(s) : a[i] = s[i]
      /\ a[Len(s) + 1] = t[1]
  BY <1>1, AppendElements
<1> HIDE DEF a, d
<1>3. a \in Seq(Nat) /\ d \in Seq(Nat)
  BY <1>1, <1>2
<1>4. /\ l \in Seq(Nat) /\ Len(l) = Len(a) + Len(d)
      /\ \A i \in 1 .. Len(a) : l[i] = a[i]
      /\ \A i \in 1 .. Len(d) : l[Len(a) + i] = d[i]
  BY <1>3, ConcatElements
<1>5. /\ r \in Seq(Nat) /\ Len(r) = Len(s) + Len(t)
      /\ \A i \in 1 .. Len(s) : r[i] = s[i]
      /\ \A i \in 1 .. Len(t) : r[Len(s) + i] = t[i]
  BY ConcatElements
<1> HIDE DEF l, r
<1>6. Len(s) \in Nat /\ Len(t) \in Nat /\ Len(d) \in Nat
  BY <1>3
<1>7. ASSUME NEW i \in 1 .. Len(l) PROVE l[i] = r[i]
  <2>1. CASE i \in 1 .. Len(s)
    <3>1. i \in 1 .. Len(a)
      BY <1>2, <1>6, <2>1
    <3>2. l[i] = a[i] /\ r[i] = s[i]
      BY <1>4, <1>5, <2>1, <3>1
    <3>3. QED
      BY <1>2, <2>1, <3>2
  <2>2. CASE i = Len(s) + 1
    <3>1. i \in 1 .. Len(a) /\ 1 \in 1 .. Len(t)
      BY <1>1, <1>2, <1>6, <2>2
    <3>2. l[i] = a[i] /\ r[Len(s) + 1] = t[1]
      BY <1>4, <1>5, <3>1
    <3>3. QED
      BY <1>2, <2>2, <3>2
  <2>3. CASE i > Len(s) + 1
    <3>1. PICK j \in 1 .. Len(d) : i = Len(a) + j
      <4>1. Len(l) = Len(a) + Len(d) /\ Len(a) = Len(s) + 1
        BY <1>2, <1>4
      <4>2. i - Len(a) \in 1 .. Len(d) /\ i = Len(a) + (i - Len(a))
        BY <1>6, <2>3, <4>1
      <4>3. QED BY <4>2
    <3>2. j + 1 \in 1 .. Len(t) /\ i = Len(s) + (j + 1)
      BY <1>1, <1>2, <1>6, <3>1
    <3>3. l[i] = d[j] /\ r[i] = t[j + 1]
      BY <1>4, <1>5, <3>1, <3>2
    <3>4. QED
      BY <1>1, <3>1, <3>3
  <2>4. QED
    BY <1>6, <2>1, <2>2, <2>3
<1>8. Len(l) = Len(r)
  BY <1>1, <1>2, <1>4, <1>5, <1>6
<1>9. l = r
  BY <1>4, <1>5, <1>7, <1>8, SameList
<1>10. QED
  BY <1>9 DEF l, r, a, d

\* Appending to the second of two lists appends to their concatenation.
LEMMA ConcatAppend ==
    ASSUME NEW s \in Seq(Nat), NEW t \in Seq(Nat), NEW x \in Nat
    PROVE  s \o Append(t, x) = Append(s \o t, x)
<1> DEFINE a == Append(t, x)
           c == s \o t
           l == s \o a
           r == Append(c, x)
<1>1. /\ a \in Seq(Nat) /\ Len(a) = Len(t) + 1 /\ a[Len(t) + 1] = x
      /\ \A i \in 1 .. Len(t) : a[i] = t[i]
  BY AppendElements
<1>2. /\ c \in Seq(Nat) /\ Len(c) = Len(s) + Len(t)
      /\ \A i \in 1 .. Len(s) : c[i] = s[i]
      /\ \A i \in 1 .. Len(t) : c[Len(s) + i] = t[i]
  BY ConcatElements
<1> HIDE DEF a, c
<1>3. /\ l \in Seq(Nat) /\ Len(l) = Len(s) + Len(a)
      /\ \A i \in 1 .. Len(s) : l[i] = s[i]
      /\ \A i \in 1 .. Len(a) : l[Len(s) + i] = a[i]
  BY <1>1, ConcatElements
<1>4. /\ r \in Seq(Nat) /\ Len(r) = Len(c) + 1 /\ r[Len(c) + 1] = x
      /\ \A i \in 1 .. Len(c) : r[i] = c[i]
  BY <1>2, AppendElements
<1> HIDE DEF l, r
<1>5. Len(s) \in Nat /\ Len(t) \in Nat
  OBVIOUS
<1>6. Len(l) = Len(s) + Len(t) + 1 /\ Len(r) = Len(l)
  BY <1>1, <1>2, <1>3, <1>4, <1>5
<1>7. ASSUME NEW i \in 1 .. Len(l) PROVE l[i] = r[i]
  <2>1. CASE i \in 1 .. Len(s)
    <3>1. i \in 1 .. Len(c)
      BY <1>2, <1>5, <2>1
    <3>2. QED
      BY <1>2, <1>3, <1>4, <2>1, <3>1
  <2>2. CASE i > Len(s)
    <3>1. PICK j \in 1 .. Len(a) : i = Len(s) + j
      <4>1. i - Len(s) \in 1 .. Len(a) /\ i = Len(s) + (i - Len(s))
        BY <1>1, <1>5, <1>6, <2>2
      <4>2. QED BY <4>1
    <3>2. l[i] = a[j]
      BY <1>3, <3>1
    <3>3. CASE j \in 1 .. Len(t)
      <4>1. i \in 1 .. Len(c)
        BY <1>2, <1>5, <3>1, <3>3
      <4>2. r[i] = c[i] /\ c[i] = t[j] /\ a[j] = t[j]
        BY <1>1, <1>2, <1>4, <3>1, <3>3, <4>1
      <4>3. QED BY <3>2, <4>2
    <3>4. CASE j = Len(t) + 1
      BY <1>1, <1>2, <1>4, <1>5, <3>1, <3>2, <3>4
    <3>5. QED
      BY <1>1, <1>5, <3>3, <3>4
  <2>3. QED
    BY <1>5, <2>1, <2>2
<1>8. l = r
  BY <1>3, <1>4, <1>6, <1>7, SameList
<1>9. QED
  BY <1>8 DEF l, r, a, c

\* CallThreadsafe adds the next number at the end.
LEMMA AppendNext ==
    ASSUME NEW n \in Nat, NEW s \in Seq(Nat), NEW t \in Seq(Nat),
           s \o t = [i \in 1 .. n |-> i]
    PROVE  s \o Append(t, n + 1) = [i \in 1 .. n + 1 |-> i]
<1> DEFINE up(m) == [i \in 1 .. m |-> i]
<1>1. s \o Append(t, n + 1) = Append(s \o t, n + 1)
  <2>1. ASSUME NEW x \in Nat PROVE s \o Append(t, x) = Append(s \o t, x)
    BY ConcatAppend
  <2>2. n + 1 \in Nat
    OBVIOUS
  <2>3. QED
    BY <2>1, <2>2, Zenon
<1>2. ASSUME NEW m \in Nat
      PROVE  up(m) \in Seq(Nat) /\ Len(up(m)) = m /\ \A i \in 1 .. m : up(m)[i] = i
  OBVIOUS
<1>3. n + 1 \in Nat /\ s \o t = up(n)
  OBVIOUS
<1> HIDE DEF up
<1>4. /\ Append(up(n), n + 1) \in Seq(Nat) /\ Len(Append(up(n), n + 1)) = n + 1
      /\ \A i \in 1 .. n : Append(up(n), n + 1)[i] = up(n)[i]
      /\ Append(up(n), n + 1)[n + 1] = n + 1
  BY <1>2, <1>3
<1>5. \A i \in 1 .. n + 1 : Append(up(n), n + 1)[i] = up(n + 1)[i]
  BY <1>2, <1>3, <1>4
<1>6. Append(up(n), n + 1) = up(n + 1)
  BY <1>2, <1>3, <1>4, <1>5, SameList
<1>7. QED
  BY <1>1, <1>3, <1>6 DEF up

\* Every step keeps the three lists in order.
LEMMA OrderStep == TypeOK /\ Swapped /\ ThunksInOrder /\ [Next]_vars => ThunksInOrder'
<1> SUFFICES ASSUME TypeOK, Swapped, ThunksInOrder, [Next]_vars PROVE ThunksInOrder'
  OBVIOUS
<1> USE DEF ThunksInOrder
<1>0. pending \in Seq(Nat) /\ next \in Seq(Nat) /\ ran \in Seq(Nat) /\ submitted \in Nat
  BY DEF TypeOK
<1>1. ASSUME NEW c \in Callers, CallThreadsafe(c) PROVE ThunksInOrder'
  <2>1. ran \o next \in Seq(Nat)
    BY <1>0
  <2>2. (ran \o next) \o Append(pending, submitted + 1)
           = [i \in 1 .. submitted + 1 |-> i]
    BY <1>0, <2>1, AppendNext
  <2>3. QED
    BY <1>1, <2>2 DEF CallThreadsafe
<1>2. CASE TransactLoop
  <2>1. CASE kill
    BY <1>2, <2>1 DEF TransactLoop
  <2>2. CASE ~kill
    <3>1. next = << >> /\ next' = pending /\ pending' = << >> /\ ran' = ran
          /\ submitted' = submitted
      BY <1>2, <2>2 DEF TransactLoop, Swapped
    <3>2. ran \o << >> = ran /\ (ran \o pending) \o << >> = ran \o pending
      BY <1>0
    <3>3. QED
      BY <3>1, <3>2
  <2>3. QED BY <2>1, <2>2
<1>3. CASE RunThunk
  <2>1. Append(ran, Head(next)) \o Tail(next) \o pending = ran \o next \o pending
    <3>1. next # << >>
      BY <1>3 DEF RunThunk
    <3>2. Append(ran, Head(next)) \o Tail(next) = ran \o next
      BY <1>0, <3>1, MoveHead
    <3>3. QED
      BY <3>2
  <2>2. QED
    BY <1>3, <2>1 DEF RunThunk
<1>4. CASE UNCHANGED thunks
  BY <1>4 DEF thunks
<1>5. QED
  BY <1>1, <1>2, <1>3, <1>4
     DEF Next, WorkerStep, Kill, SetSignal, Start, CheckKill, DrainReturns,
         ScheduleExternalTransactEvent, RunLowLevel, RunLowLevelFails, vars

\* worker.cc 88-117, 239-245: thunks are run exactly once and in the order in
\* which CallThreadsafe appended them, for any number of callers and thunks.
THEOREM InOrder == Spec => []ThunksInOrder
<1>1. Init => ThunksInOrder
  <2>1. << >> \o << >> \o << >> = [i \in 1 .. 0 |-> i]
    OBVIOUS
  <2>2. QED
    BY <2>1 DEF Init, ThunksInOrder
<1>2. QED
  BY <1>1, OrderStep, TypeCorrect, PTL DEF Spec

----------------------------------------------------------------------------
(***************************************************************************)
(* BlockingExecutor                                                        *)
(***************************************************************************)

(***************************************************************************)
(* The inductive invariant.  A thread and the places it is known from: the *)
(* free list, the stack of the caller that is about to signal it, and      *)
(* live_thread_count_.                                                     *)
(***************************************************************************)
LivePlaces == {"suspended", "waiting", "running", "returning"}
LiveThreads == {t \in Threads : thread[t] \in LivePlaces}

Free(t) == \E n \in DOMAIN free_threads : free_threads[n] = t
Dispatched(t) == \E c \in Schedulers : dispatch[c] = t
Holds(t, i) == current_task[t] = i \/ exec_task[t] = i

\* A thread runs the task it holds in exec_task, and holds one in current_task
\* from Schedule until it wakes up.
TasksHeld ==
    \A t \in Threads :
        /\ exec_task[t] # 0 <=> thread[t] = "running"
        /\ current_task[t] # 0 => /\ thread[t] \in {"suspended", "waiting"}
                                  /\ signalled[t] \/ Dispatched(t)
        /\ signalled[t] => thread[t] \notin {"none", "suspended"}

\* No two callers signal the same thread, and it has not been signalled before.
DispatchesSound ==
    \A c \in Schedulers :
        dispatch[c] # Nobody =>
            /\ thread[dispatch[c]] \in {"suspended", "waiting"}
            /\ ~signalled[dispatch[c]]
            /\ \A d \in Schedulers : dispatch[d] = dispatch[c] => c = d

\* The free list holds threads that wait with nothing to do, each once; a thread
\* that waits unsignalled is there or is about to be signalled.
FreeListSound ==
    /\ \A t \in Threads :
          /\ Free(t) => /\ thread[t] = "waiting" /\ ~signalled[t] /\ current_task[t] = 0
                        /\ ~Dispatched(t)
          /\ thread[t] = "suspended" \/ (thread[t] = "waiting" /\ ~signalled[t])
                => Free(t) \/ Dispatched(t)
    /\ \A m, n \in DOMAIN free_threads : free_threads[m] = free_threads[n] => m = n

\* Exactly one thread holds a task that was accepted, until it has finished.
HeldOnce ==
    \A i \in 1 .. accepted :
        /\ i \in finished => \A t \in Threads : ~Holds(t, i)
        /\ i \notin finished => \E t \in Threads : Holds(t, i)
        /\ \A t, u \in Threads : Holds(t, i) /\ Holds(u, i) => t = u

\* inhibit_ is set when no thread is alive, and none is started afterwards.
KillSound ==
    /\ live = Cardinality(LiveThreads)
    /\ inhibit => LiveThreads = {}
    /\ \A k \in Killers : killer[k] = "returned" => inhibit

PoolInv == /\ PoolTypeOK /\ TasksHeld /\ DispatchesSound /\ FreeListSound /\ HeldOnce
           /\ KillSound

----------------------------------------------------------------------------
\* The empty free list.
LEMMA EmptyList == DOMAIN << >> = {} /\ \A S : << >> \in Seq(S)
OBVIOUS

\* There are finitely many threads to count.
LEMMA LiveFinite == IsFiniteSet(LiveThreads)
BY ExecutorAssumption, FS_Subset DEF LiveThreads

\* Where a thread on the free list, and one that is about to be signalled, are.
LEMMA KnownThread ==
  ASSUME PoolInv, NEW t \in Threads
  PROVE  /\ Free(t) => thread[t] = "waiting" /\ ~signalled[t]
         /\ Dispatched(t) => thread[t] \in {"suspended", "waiting"} /\ ~signalled[t]
BY ExecutorAssumption DEF PoolInv, FreeListSound, DispatchesSound, Dispatched

\* Schedule, under control_mu_: the new task has one holder, the others keep
\* theirs.
LEMMA HandHolds ==
  ASSUME PoolInv, NEW c \in Schedulers, NEW t \in Threads, Hand(c, t), CanSchedule(c),
         current_task[t] = 0, UNCHANGED <<exec_task, finished>>
  PROVE  /\ HeldOnce'
         /\ accepted' \in 0 .. MaxTasks /\ finished \subseteq 1 .. accepted'
         /\ current_task' \in [Threads -> 0 .. accepted']
         /\ exec_task \in [Threads -> 0 .. accepted']
         /\ dispatch' \in [Schedulers -> Threads \cup {Nobody}]
<1>1. /\ accepted \in Nat /\ MaxTasks \in Nat /\ accepted < MaxTasks
      /\ accepted' = accepted + 1
      /\ current_task \in [Threads -> 0 .. accepted]
      /\ exec_task \in [Threads -> 0 .. accepted]
      /\ finished \subseteq 1 .. accepted
      /\ dispatch \in [Schedulers -> Threads \cup {Nobody}]
  BY ExecutorAssumption DEF PoolInv, PoolTypeOK, Hand, CanSchedule
<1>2. current_task' = [current_task EXCEPT ![t] = accepted + 1]
  BY DEF Hand
<1>3. \A u \in Threads, i \in 1 .. accepted : Holds(u, i)' <=> Holds(u, i)
  BY <1>1, <1>2 DEF Holds
<1>4. \A u \in Threads, i \in {accepted + 1} : Holds(u, i)' <=> u = t
  BY <1>1, <1>2 DEF Holds
<1>5. accepted + 1 \notin finished /\ 1 .. accepted' = (1 .. accepted) \cup {accepted + 1}
  BY <1>1
<1>6. HeldOnce'
  BY <1>1, <1>3, <1>4, <1>5 DEF PoolInv, HeldOnce
<1>7. QED BY <1>1, <1>2, <1>6 DEF Hand

\* Schedule takes the thread off the free list with the task: nobody else has it.
LEMMA ScheduleOnFreeKeeps ==
  ASSUME PoolInv, NEW c \in Schedulers, ScheduleOnFree(c) PROVE PoolInv'
<1> DEFINE t == Head(free_threads)
<1>1. /\ free_threads \in Seq(Threads) /\ free_threads # << >>
      /\ free_threads' = Tail(free_threads) /\ Hand(c, t) /\ CanSchedule(c)
      /\ UNCHANGED <<live, killing, inhibit, thread, signalled, exec_task, finished, killer>>
  BY DEF PoolInv, PoolTypeOK, ScheduleOnFree
<1>2. /\ t \in Threads /\ free_threads[1] = t /\ 1 \in DOMAIN free_threads
      /\ free_threads' \in Seq(Threads)
      /\ \A n \in DOMAIN free_threads' : /\ n + 1 \in DOMAIN free_threads /\ n + 1 # 1
                                         /\ free_threads'[n] = free_threads[n + 1]
      /\ \A n \in DOMAIN free_threads : n # 1 => n - 1 \in DOMAIN free_threads' /\ (n - 1) + 1 = n
  BY <1>1
<1> HIDE DEF t
<1>3. /\ thread[t] = "waiting" /\ ~signalled[t] /\ current_task[t] = 0
      /\ ~Dispatched(t) /\ dispatch[c] = Nobody
  BY <1>1, <1>2 DEF PoolInv, FreeListSound, Free, CanSchedule
<1>4. \A u : Free(u)' <=> Free(u) /\ u # t
  BY <1>2 DEF Free, PoolInv, FreeListSound
<1>5. /\ current_task' = [current_task EXCEPT ![t] = accepted + 1]
      /\ dispatch' = [dispatch EXCEPT ![c] = t]
  BY <1>1 DEF Hand
<1>6. PoolTypeOK' /\ HeldOnce'
  BY <1>1, <1>2, <1>3, HandHolds DEF PoolInv, PoolTypeOK
<1>7. \A u \in Threads : Dispatched(u)' <=> Dispatched(u) \/ u = t
  BY <1>2, <1>3, <1>5, ExecutorAssumption DEF Dispatched, PoolInv, PoolTypeOK
<1>8. TasksHeld'
  BY <1>1, <1>2, <1>3, <1>5, <1>7 DEF PoolInv, TasksHeld, PoolTypeOK
<1>9. DispatchesSound'
  BY <1>1, <1>2, <1>3, <1>5 DEF PoolInv, DispatchesSound, PoolTypeOK, Dispatched
<1>10. FreeListSound'
  <2>1. ASSUME NEW u \in Threads
        PROVE  /\ Free(u)' => /\ thread'[u] = "waiting" /\ ~signalled'[u] /\ current_task'[u] = 0
                              /\ ~Dispatched(u)'
               /\ thread'[u] = "suspended" \/ (thread'[u] = "waiting" /\ ~signalled'[u])
                     => Free(u)' \/ Dispatched(u)'
    BY <1>1, <1>4, <1>5, <1>7 DEF PoolInv, FreeListSound, PoolTypeOK
  <2>2. \A m, n \in DOMAIN free_threads' : free_threads'[m] = free_threads'[n] => m = n
    BY <1>2 DEF PoolInv, FreeListSound
  <2>3. QED BY <2>1, <2>2 DEF FreeListSound
<1>11. KillSound'
  BY <1>1 DEF PoolInv, KillSound, LiveThreads
<1>12. QED BY <1>6, <1>8, <1>9, <1>10, <1>11 DEF PoolInv

\* Schedule on a new thread: it is suspended until its caller has signalled it.
LEMMA ScheduleOnNewKeeps ==
  ASSUME PoolInv, NEW c \in Schedulers, NEW t \in Threads, ScheduleOnNew(c, t) PROVE PoolInv'
<1>1. /\ thread[t] = "none" /\ thread' = [thread EXCEPT ![t] = "suspended"]
      /\ live' = live + 1 /\ Hand(c, t) /\ CanSchedule(c)
      /\ UNCHANGED <<free_threads, killing, inhibit, signalled, exec_task, finished, killer>>
  BY DEF ScheduleOnNew
<1>2. /\ ~signalled[t] /\ current_task[t] = 0 /\ ~Dispatched(t) /\ dispatch[c] = Nobody
      /\ ~Free(t)
  BY <1>1, ExecutorAssumption
     DEF PoolInv, TasksHeld, DispatchesSound, Dispatched, FreeListSound, CanSchedule
<1>3. /\ current_task' = [current_task EXCEPT ![t] = accepted + 1]
      /\ dispatch' = [dispatch EXCEPT ![c] = t]
  BY <1>1 DEF Hand
<1>4. PoolTypeOK' /\ HeldOnce'
  BY <1>1, <1>2, HandHolds DEF PoolInv, PoolTypeOK, ThreadPlaces
<1>5. \A u \in Threads : Dispatched(u)' <=> Dispatched(u) \/ u = t
  BY <1>2, <1>3, ExecutorAssumption DEF Dispatched, PoolInv, PoolTypeOK
<1>6. TasksHeld'
  BY <1>1, <1>2, <1>3, <1>5 DEF PoolInv, TasksHeld, PoolTypeOK
<1>7. DispatchesSound'
  BY <1>1, <1>2, <1>3 DEF PoolInv, DispatchesSound, PoolTypeOK, Dispatched
<1>8. FreeListSound'
  <2>1. \A u : Free(u)' = Free(u)
    BY <1>1 DEF Free
  <2>2. QED BY <1>1, <1>2, <1>3, <1>5, <2>1 DEF PoolInv, FreeListSound, PoolTypeOK
<1>9. KillSound'
  <2>1. LiveThreads' = LiveThreads \cup {t} /\ t \notin LiveThreads
    BY <1>1 DEF LiveThreads, LivePlaces, PoolInv, PoolTypeOK
  <2>2. Cardinality(LiveThreads') = Cardinality(LiveThreads) + 1
    BY <2>1, LiveFinite, FS_AddElement
  <2>3. QED BY <1>1, <2>2 DEF PoolInv, KillSound, CanSchedule
<1>10. QED BY <1>4, <1>6, <1>7, <1>8, <1>9 DEF PoolInv

\* The signal that a thread gets without the lock is its first.
LEMMA FinishDispatchKeeps ==
  ASSUME PoolInv, NEW c \in Schedulers, FinishDispatch(c) PROVE PoolInv'
<1> DEFINE t == dispatch[c]
<1>1. /\ t # Nobody /\ signalled' = [signalled EXCEPT ![t] = TRUE]
      /\ thread' = [thread EXCEPT ![t] = "waiting"]
      /\ dispatch' = [dispatch EXCEPT ![c] = Nobody]
      /\ UNCHANGED <<free_threads, live, killing, inhibit, current_task, exec_task, accepted,
                     finished, killer>>
  BY DEF FinishDispatch, pool
<1>2. /\ t \in Threads /\ thread[t] \in {"suspended", "waiting"} /\ ~signalled[t]
      /\ Dispatched(t) /\ ~Free(t)
      /\ \A d \in Schedulers : dispatch[d] = t => c = d
  BY <1>1 DEF PoolInv, PoolTypeOK, DispatchesSound, Dispatched, FreeListSound
<1>3. \A u \in Threads : Dispatched(u)' <=> Dispatched(u) /\ u # t
  BY <1>1, <1>2, ExecutorAssumption DEF Dispatched, PoolInv, PoolTypeOK
<1> HIDE DEF t
<1>4. PoolTypeOK'
  BY <1>1, <1>2 DEF PoolInv, PoolTypeOK, ThreadPlaces
<1>5. TasksHeld'
  BY <1>1, <1>2, <1>3 DEF PoolInv, TasksHeld, PoolTypeOK
<1>6. DispatchesSound'
  BY <1>1, <1>2 DEF PoolInv, DispatchesSound, PoolTypeOK, t
<1>7. FreeListSound'
  <2>1. \A u : Free(u)' = Free(u)
    BY <1>1 DEF Free
  <2>2. QED BY <1>1, <1>2, <1>3, <2>1 DEF PoolInv, FreeListSound, PoolTypeOK
<1>8. HeldOnce'
  BY <1>1 DEF PoolInv, HeldOnce, Holds
<1>9. KillSound'
  <2>1. LiveThreads' = LiveThreads
    BY <1>1, <1>2 DEF LiveThreads, LivePlaces, PoolInv, PoolTypeOK
  <2>2. QED BY <1>1, <2>1 DEF PoolInv, KillSound
<1>10. QED BY <1>4, <1>5, <1>6, <1>7, <1>8, <1>9 DEF PoolInv

\* RunOnThread: the task moves from current_task to the thread that runs it.
LEMMA WakeUpKeeps ==
  ASSUME PoolInv, NEW t \in Threads, WakeUp(t) PROVE PoolInv'
<1> DEFINE i == current_task[t]
<1>1. /\ thread[t] = "waiting" /\ signalled[t]
      /\ exec_task' = [exec_task EXCEPT ![t] = i]
      /\ current_task' = [current_task EXCEPT ![t] = 0]
      /\ thread' = [thread EXCEPT ![t] = IF i = 0 THEN "returning" ELSE "running"]
      /\ UNCHANGED <<free_threads, live, killing, inhibit, signalled, accepted, finished,
                     dispatch, killer>>
  BY DEF WakeUp, pool
<1>2. /\ ~Free(t) /\ ~Dispatched(t) /\ exec_task[t] = 0 /\ i \in 0 .. accepted
  BY <1>1, KnownThread DEF PoolInv, PoolTypeOK, TasksHeld
<1> HIDE DEF i
<1>3. PoolTypeOK'
  BY <1>1, <1>2 DEF PoolInv, PoolTypeOK, ThreadPlaces
<1>4. /\ \A u : Free(u)' = Free(u)
      /\ \A u : Dispatched(u)' = Dispatched(u)
  BY <1>1 DEF Free, Dispatched
<1>5. TasksHeld'
  BY <1>1, <1>2, <1>4 DEF PoolInv, TasksHeld, PoolTypeOK
<1>6. DispatchesSound'
  BY <1>1, <1>2 DEF PoolInv, DispatchesSound, PoolTypeOK, Dispatched
<1>7. FreeListSound'
  BY <1>1, <1>2, <1>4 DEF PoolInv, FreeListSound, PoolTypeOK
<1>8. HeldOnce'
  <2>1. \A u \in Threads, j \in 1 .. accepted : Holds(u, j)' <=> Holds(u, j)
    BY <1>1, <1>2 DEF Holds, PoolInv, PoolTypeOK, i
  <2>2. QED BY <1>1, <2>1 DEF PoolInv, HeldOnce
<1>9. KillSound'
  <2>1. LiveThreads' = LiveThreads
    BY <1>1 DEF LiveThreads, LivePlaces, PoolInv, PoolTypeOK
  <2>2. QED BY <1>1, <2>1 DEF PoolInv, KillSound
<1>10. QED BY <1>3, <1>5, <1>6, <1>7, <1>8, <1>9 DEF PoolInv

\* A task that has run has no holder any more.
LEMMA TaskReturnsKeeps ==
  ASSUME PoolInv, NEW t \in Threads, TaskReturns(t) PROVE PoolInv'
<1> DEFINE i == exec_task[t]
<1>1. /\ thread[t] = "running" /\ finished' = finished \cup {i}
      /\ exec_task' = [exec_task EXCEPT ![t] = 0]
      /\ thread' = [thread EXCEPT ![t] = "returning"]
      /\ UNCHANGED <<free_threads, live, killing, inhibit, signalled, current_task, accepted,
                     dispatch, killer>>
  BY DEF TaskReturns, pool
<1>2. i \in 1 .. accepted /\ current_task[t] = 0 /\ ~Free(t) /\ ~Dispatched(t)
  BY <1>1, KnownThread DEF PoolInv, PoolTypeOK, TasksHeld
<1>3. Holds(t, i)
  BY DEF Holds
<1> HIDE DEF i
<1>4. PoolTypeOK'
  BY <1>1, <1>2 DEF PoolInv, PoolTypeOK, ThreadPlaces
<1>5. /\ \A u : Free(u)' = Free(u)
      /\ \A u : Dispatched(u)' = Dispatched(u)
  BY <1>1 DEF Free, Dispatched
<1>6. TasksHeld'
  BY <1>1, <1>2, <1>5 DEF PoolInv, TasksHeld, PoolTypeOK
<1>7. DispatchesSound'
  BY <1>1, <1>2 DEF PoolInv, DispatchesSound, PoolTypeOK, Dispatched
<1>8. FreeListSound'
  BY <1>1, <1>2, <1>5 DEF PoolInv, FreeListSound, PoolTypeOK
<1>9. HeldOnce'
  <2>1. \A u \in Threads, j \in 1 .. accepted : Holds(u, j)' <=> Holds(u, j) /\ u # t
    <3> SUFFICES ASSUME NEW u \in Threads, NEW j \in 1 .. accepted
                 PROVE  Holds(u, j)' <=> Holds(u, j) /\ u # t
      OBVIOUS
    <3>1. CASE u = t
      BY <1>1, <1>2, <3>1 DEF Holds, PoolInv, PoolTypeOK
    <3>2. CASE u # t
      BY <1>1, <3>2 DEF Holds, PoolInv, PoolTypeOK
    <3>3. QED BY <3>1, <3>2
  <2>2. \A j \in 1 .. accepted : Holds(t, j) <=> j = i
    BY <1>2 DEF Holds, i
  <2>3. ASSUME NEW j \in 1 .. accepted
        PROVE  /\ j \in finished' => \A u \in Threads : ~Holds(u, j)'
               /\ j \notin finished' => \E u \in Threads : Holds(u, j)'
               /\ \A u, v \in Threads : Holds(u, j)' /\ Holds(v, j)' => u = v
    BY <1>1, <1>3, <2>1, <2>2 DEF PoolInv, HeldOnce
  <2>4. QED BY <1>1, <2>3 DEF HeldOnce
<1>10. KillSound'
  <2>1. LiveThreads' = LiveThreads
    BY <1>1 DEF LiveThreads, LivePlaces, PoolInv, PoolTypeOK
  <2>2. QED BY <1>1, <2>1 DEF PoolInv, KillSound
<1>11. QED BY <1>4, <1>6, <1>7, <1>8, <1>9, <1>10 DEF PoolInv

\* A thread that enters the free list was not there, and has nothing to do.
LEMMA MoveToFreeListKeeps ==
  ASSUME PoolInv, NEW t \in Threads, MoveToFreeList(t) PROVE PoolInv'
<1>1. /\ thread[t] = "returning" /\ free_threads' = <<t>> \o free_threads
      /\ signalled' = [signalled EXCEPT ![t] = FALSE]
      /\ thread' = [thread EXCEPT ![t] = "waiting"]
      /\ UNCHANGED <<live, killing, inhibit, current_task, exec_task, accepted, finished,
                     dispatch, killer>>
  BY DEF MoveToFreeList
<1>2. /\ exec_task[t] = 0 /\ current_task[t] = 0 /\ ~Free(t) /\ ~Dispatched(t)
  BY <1>1, KnownThread DEF PoolInv, PoolTypeOK, TasksHeld
<1>3. /\ free_threads \in Seq(Threads) /\ free_threads' \in Seq(Threads)
      /\ free_threads'[1] = t /\ 1 \in DOMAIN free_threads'
      /\ \A n \in DOMAIN free_threads : /\ n + 1 \in DOMAIN free_threads' /\ n + 1 # 1
                                        /\ free_threads'[n + 1] = free_threads[n]
      /\ \A n \in DOMAIN free_threads' : n # 1 => /\ n - 1 \in DOMAIN free_threads
                                                  /\ (n - 1) + 1 = n
  <2>1. free_threads \in Seq(Threads) /\ Len(free_threads) \in Nat
    BY DEF PoolInv, PoolTypeOK
  <2>2. /\ free_threads' \in Seq(Threads) /\ Len(free_threads') = Len(free_threads) + 1
        /\ \A n \in 1 .. Len(free_threads) + 1 :
              free_threads'[n] = IF n = 1 THEN t ELSE free_threads[n - 1]
    BY <1>1, <2>1
  <2>3. DOMAIN free_threads = 1 .. Len(free_threads) /\ DOMAIN free_threads' = 1 .. Len(free_threads) + 1
    BY <2>1, <2>2
  <2>4. QED BY <2>1, <2>2, <2>3
<1>4. \A u : Free(u)' <=> Free(u) \/ u = t
  BY <1>3 DEF Free
<1>5. \A m, n \in DOMAIN free_threads' : free_threads'[m] = free_threads'[n] => m = n
  BY <1>2, <1>3 DEF Free, PoolInv, FreeListSound
<1>6. PoolTypeOK'
  BY <1>1, <1>3 DEF PoolInv, PoolTypeOK, ThreadPlaces
<1>7. \A u : Dispatched(u)' = Dispatched(u)
  BY <1>1 DEF Dispatched
<1>8. TasksHeld'
  BY <1>1, <1>2, <1>7 DEF PoolInv, TasksHeld, PoolTypeOK
<1>9. DispatchesSound'
  BY <1>1, <1>2 DEF PoolInv, DispatchesSound, PoolTypeOK, Dispatched
<1>10. FreeListSound'
  BY <1>1, <1>2, <1>4, <1>5, <1>7 DEF PoolInv, FreeListSound, PoolTypeOK
<1>11. HeldOnce'
  BY <1>1 DEF PoolInv, HeldOnce, Holds
<1>12. KillSound'
  <2>1. LiveThreads' = LiveThreads
    BY <1>1 DEF LiveThreads, LivePlaces, PoolInv, PoolTypeOK
  <2>2. QED BY <1>1, <2>1 DEF PoolInv, KillSound
<1>13. QED BY <1>6, <1>8, <1>9, <1>10, <1>11, <1>12 DEF PoolInv

\* A thread that ends under kill_ is the one that live_thread_count_ loses.
LEMMA ThreadEndsKeeps ==
  ASSUME PoolInv, NEW t \in Threads, ThreadEnds(t) PROVE PoolInv'
<1>1. /\ thread[t] = "returning" /\ live' = live - 1
      /\ thread' = [thread EXCEPT ![t] = "gone"]
      /\ UNCHANGED <<free_threads, killing, inhibit, signalled, current_task, exec_task,
                     accepted, finished, dispatch, killer>>
  BY DEF ThreadEnds
<1>2. /\ exec_task[t] = 0 /\ current_task[t] = 0 /\ ~Free(t) /\ ~Dispatched(t)
  BY <1>1, KnownThread DEF PoolInv, PoolTypeOK, TasksHeld
<1>3. /\ \A u : Free(u)' = Free(u)
      /\ \A u : Dispatched(u)' = Dispatched(u)
  BY <1>1 DEF Free, Dispatched
<1>4. TasksHeld'
  BY <1>1, <1>2, <1>3 DEF PoolInv, TasksHeld, PoolTypeOK
<1>5. DispatchesSound'
  BY <1>1, <1>2 DEF PoolInv, DispatchesSound, PoolTypeOK, Dispatched
<1>6. FreeListSound'
  BY <1>1, <1>2, <1>3 DEF PoolInv, FreeListSound, PoolTypeOK
<1>7. HeldOnce'
  BY <1>1 DEF PoolInv, HeldOnce, Holds
<1>8. PoolTypeOK' /\ KillSound'
  <2>1. LiveThreads' = LiveThreads \ {t} /\ t \in LiveThreads
    BY <1>1 DEF LiveThreads, LivePlaces, PoolInv, PoolTypeOK
  <2>2. Cardinality(LiveThreads') = Cardinality(LiveThreads) - 1 /\ IsFiniteSet(LiveThreads')
    BY <2>1, LiveFinite, FS_RemoveElement
  <2>3. Cardinality(LiveThreads') \in Nat
    BY <2>2, FS_CardinalityType
  <2>4. KillSound' /\ live' \in Nat
    BY <1>1, <2>1, <2>2, <2>3 DEF PoolInv, KillSound
  <2>5. QED BY <1>1, <2>4 DEF PoolInv, PoolTypeOK, ThreadPlaces
<1>9. QED BY <1>4, <1>5, <1>6, <1>7, <1>8 DEF PoolInv

\* Kill begins.
LEMMA KillPoolKeeps ==
  ASSUME PoolInv, NEW k \in Killers, NEW wait \in BOOLEAN, KillPool(k, wait) PROVE PoolInv'
<1> USE DEF KillPool
<1>1. killer' \in [Killers -> KillerPlaces] /\ \A l \in Killers : killer'[l] = "returned" => inhibit
  BY DEF PoolInv, PoolTypeOK, KillerPlaces, KillSound
<1>2. PoolTypeOK' /\ KillSound'
  BY <1>1 DEF PoolInv, PoolTypeOK, KillSound, LiveThreads
<1>3. TasksHeld' /\ DispatchesSound'
  BY DEF PoolInv, TasksHeld, DispatchesSound, Dispatched
<1>4. FreeListSound'
  BY DEF PoolInv, FreeListSound, Free, Dispatched
<1>5. HeldOnce'
  BY DEF PoolInv, HeldOnce, Holds
<1>6. QED BY <1>2, <1>3, <1>4, <1>5 DEF PoolInv

\* Kill signals the threads that it takes off the free list, and no others.
LEMMA WakeFreeThreadsKeeps ==
  ASSUME PoolInv, NEW k \in Killers, WakeFreeThreads(k) PROVE PoolInv'
<1>1. /\ killer[k] \in {"wake", "wake once"} /\ free_threads' = << >>
      /\ signalled' = [t \in Threads |-> signalled[t] \/ t \in Range(free_threads)]
      /\ killer' = [killer EXCEPT ![k] = IF @ = "wake" THEN "check" ELSE "idle"]
      /\ UNCHANGED <<live, killing, inhibit, thread, current_task, exec_task, accepted,
                     finished, dispatch>>
  BY DEF WakeFreeThreads
<1>2. \A t \in Threads : signalled'[t] <=> signalled[t] \/ Free(t)
  BY <1>1 DEF Range, Free
<1>3. killer' \in [Killers -> KillerPlaces] /\ \A l \in Killers : killer'[l] = "returned" => inhibit
  BY <1>1 DEF PoolInv, PoolTypeOK, KillerPlaces, KillSound
<1>4. PoolTypeOK'
  <2>1. signalled' \in [Threads -> BOOLEAN]
    BY <1>1 DEF PoolInv, PoolTypeOK
  <2>2. free_threads' \in Seq(Threads)
    BY <1>1, EmptyList, Zenon
  <2>3. /\ UNCHANGED <<live, killing, inhibit, thread, current_task, exec_task, accepted,
                       finished, dispatch>>
    BY <1>1
  <2>4. QED BY <1>3, <2>1, <2>2, <2>3 DEF PoolInv, PoolTypeOK
<1>5. (\A t : ~Free(t)') /\ (\A t : Dispatched(t)' = Dispatched(t))
  <2>1. DOMAIN free_threads' = {}
    BY <1>1, EmptyList, Zenon
  <2>2. QED BY <1>1, <2>1 DEF Free, Dispatched
<1>6. TasksHeld'
  BY <1>1, <1>2, <1>5 DEF PoolInv, TasksHeld, FreeListSound
<1>7. DispatchesSound'
  <2>1. \A c \in Schedulers : dispatch[c] # Nobody => dispatch[c] \in Threads /\ ~Free(dispatch[c])
    BY DEF PoolInv, PoolTypeOK, FreeListSound, Dispatched
  <2>2. QED BY <1>1, <1>2, <2>1 DEF PoolInv, DispatchesSound
<1>8. FreeListSound'
  <2>1. \A t \in Threads : thread[t] = "suspended" => ~Free(t)
    BY KnownThread
  <2>2. DOMAIN free_threads' = {}
    BY <1>1, EmptyList, Zenon
  <2>3. UNCHANGED <<thread, current_task>>
    BY <1>1
  <2>4. QED BY <1>2, <1>5, <2>1, <2>2, <2>3 DEF PoolInv, FreeListSound
<1>9. HeldOnce' /\ KillSound'
  BY <1>1, <1>3 DEF PoolInv, HeldOnce, Holds, KillSound, LiveThreads
<1>10. QED BY <1>4, <1>6, <1>7, <1>8, <1>9 DEF PoolInv

\* Kill sets inhibit_ when it finds no thread alive.
LEMMA CheckLiveKeeps ==
  ASSUME PoolInv, NEW k \in Killers, CheckLive(k) PROVE PoolInv'
<1> USE DEF CheckLive
<1>1. killer' \in [Killers -> KillerPlaces] /\ \A l \in Killers : killer'[l] = "returned" => inhibit'
  BY DEF PoolInv, PoolTypeOK, KillerPlaces, KillSound
<1>2. live = 0 => LiveThreads = {}
  BY LiveFinite, FS_EmptySet DEF PoolInv, KillSound
<1>3. PoolTypeOK' /\ KillSound'
  BY <1>1, <1>2 DEF PoolInv, PoolTypeOK, KillSound, LiveThreads
<1>4. TasksHeld' /\ DispatchesSound' /\ FreeListSound' /\ HeldOnce'
  BY DEF PoolInv, TasksHeld, DispatchesSound, FreeListSound, HeldOnce, Free, Dispatched, Holds
<1>5. QED BY <1>3, <1>4 DEF PoolInv

\* Schedule that throws, and stuttering.
LEMMA PoolRests ==
  ASSUME PoolInv, UNCHANGED poolVars PROVE PoolInv'
<1> USE DEF poolVars, pool
<1>1. PoolTypeOK' /\ TasksHeld' /\ DispatchesSound'
  BY DEF PoolInv, PoolTypeOK, TasksHeld, DispatchesSound, Dispatched
<1>2. FreeListSound' /\ HeldOnce' /\ KillSound'
  BY DEF PoolInv, FreeListSound, HeldOnce, KillSound, Free, Dispatched, Holds, LiveThreads
<1>3. QED BY <1>1, <1>2 DEF PoolInv

\* The executor starts without threads.
LEMMA PoolInitKeeps ==
  ASSUME PoolInit PROVE PoolInv
<1> USE DEF PoolInit
<1>1. PoolTypeOK
  <2>1. MaxTasks \in Nat /\ accepted \in 0 .. MaxTasks /\ accepted = 0
    BY ExecutorAssumption
  <2>2. free_threads \in Seq(Threads)
    BY EmptyList, Zenon
  <2>3. /\ live \in Nat
        /\ killing \in BOOLEAN /\ inhibit \in BOOLEAN /\ finished \subseteq 1 .. accepted
    OBVIOUS
  <2>4. thread \in [Threads -> ThreadPlaces] /\ killer \in [Killers -> KillerPlaces]
    BY DEF ThreadPlaces, KillerPlaces
  <2>5. /\ signalled \in [Threads -> BOOLEAN]
        /\ dispatch \in [Schedulers -> Threads \cup {Nobody}]
    OBVIOUS
  <2>6. current_task \in [Threads -> 0 .. accepted] /\ exec_task \in [Threads -> 0 .. accepted]
    BY <2>1
  <2>7. QED BY <2>1, <2>2, <2>3, <2>4, <2>5, <2>6 DEF PoolTypeOK
<1>2. TasksHeld /\ DispatchesSound /\ FreeListSound /\ HeldOnce
  BY DEF TasksHeld, DispatchesSound, FreeListSound, HeldOnce, Free, Dispatched, Holds
<1>3. LiveThreads = {}
  BY DEF LiveThreads, LivePlaces
<1>4. KillSound
  BY <1>3, FS_EmptySet DEF KillSound
<1>5. QED BY <1>1, <1>2, <1>4 DEF PoolInv

\* The inductive invariant holds throughout.
LEMMA PoolInvariant == PoolSpec => []PoolInv
<1>1. ASSUME PoolInv, [PoolNext]_poolVars PROVE PoolInv'
  <2>1. ASSUME NEW c \in Schedulers,
               \/ ScheduleOnFree(c) \/ \E t \in Threads : ScheduleOnNew(c, t)
               \/ ScheduleThrows(c) \/ FinishDispatch(c)
        PROVE  PoolInv'
    BY <1>1, <2>1, ScheduleOnFreeKeeps, ScheduleOnNewKeeps, FinishDispatchKeeps, PoolRests
       DEF ScheduleThrows
  <2>2. ASSUME NEW t \in Threads, WakeUp(t) \/ TaskReturns(t) \/ LockAndMoveToFreeList(t)
        PROVE  PoolInv'
    BY <1>1, <2>2, WakeUpKeeps, TaskReturnsKeeps, MoveToFreeListKeeps, ThreadEndsKeeps
       DEF LockAndMoveToFreeList
  <2>3. ASSUME NEW k \in Killers,
               (\E wait \in BOOLEAN : KillPool(k, wait)) \/ WakeFreeThreads(k) \/ CheckLive(k)
        PROVE  PoolInv'
    BY <1>1, <2>3, KillPoolKeeps, WakeFreeThreadsKeeps, CheckLiveKeeps
  <2>4. QED BY <1>1, <2>1, <2>2, <2>3, PoolRests DEF PoolNext
<1>2. QED BY <1>1, PoolInitKeeps, PTL DEF PoolSpec

\* blocking_executor.h 45-68: an accepted task has one holder until it has
\* finished; a thread that sleeps is on the free list or about to be signalled;
\* after Kill(wait=true) no thread is left and no task is owed.
THEOREM PoolIsSound == PoolSpec => []PoolSound
<1>1. ASSUME PoolInv PROVE TasksOnce
  <2> SUFFICES ASSUME NEW i \in 1 .. accepted
               PROVE  Cardinality({t \in Threads : current_task[t] = i}
                                     \cup {t \in Threads : exec_task[t] = i})
                        = IF i \in finished THEN 0 ELSE 1
    BY DEF TasksOnce
  <2> DEFINE H == {t \in Threads : current_task[t] = i} \cup {t \in Threads : exec_task[t] = i}
  <2>1. H = {t \in Threads : Holds(t, i)}
    BY DEF Holds
  <2>2. i \in finished => H = {}
    BY <1>1, <2>1 DEF PoolInv, HeldOnce
  <2>3. i \notin finished => \E t : H = {t}
    BY <1>1, <2>1 DEF PoolInv, HeldOnce
  <2> HIDE DEF H
  <2>4. Cardinality(H) = IF i \in finished THEN 0 ELSE 1
    BY <2>2, <2>3, FS_EmptySet, FS_Singleton
  <2>5. QED BY <2>4 DEF H
<1>2. ASSUME PoolInv PROVE NoThreadForgotten
  <2>1. \A t : t \in Range(free_threads) <=> Free(t)
    BY DEF Range, Free
  <2>2. \A t : Free(t) => t \in Threads
    BY <1>2 DEF PoolInv, PoolTypeOK, Free
  <2>3. QED
    BY <1>2, <2>1, <2>2 DEF PoolInv, FreeListSound, NoThreadForgotten, Dispatched, IsInjective
<1>3. ASSUME PoolInv PROVE KilledIsQuiet
  <2> SUFFICES ASSUME NEW k \in Killers, killer[k] = "returned"
               PROVE  /\ inhibit /\ free_threads = << >> /\ finished = 1 .. accepted
                      /\ \A t \in Threads : thread[t] \in {"none", "gone"}
                      /\ \A c \in Schedulers : dispatch[c] = Nobody
    BY DEF KilledIsQuiet
  <2>1. inhibit /\ LiveThreads = {}
    BY <1>3 DEF PoolInv, KillSound
  <2>2. \A t \in Threads : thread[t] \in {"none", "gone"}
    BY <1>3, <2>1 DEF PoolInv, PoolTypeOK, ThreadPlaces, LiveThreads, LivePlaces
  <2>3. \A t \in Threads : ~Free(t) /\ ~Dispatched(t) /\ exec_task[t] = 0 /\ current_task[t] = 0
    BY <1>3, <2>2, KnownThread DEF PoolInv, TasksHeld
  <2>4. free_threads = << >>
    <3>1. free_threads \in Seq(Threads) /\ Len(free_threads) \in Nat
      BY <1>3 DEF PoolInv, PoolTypeOK
    <3>2. 1 \notin DOMAIN free_threads
      BY <2>3, <3>1 DEF Free
    <3>3. QED BY <3>1, <3>2
  <2>5. finished = 1 .. accepted
    <3>1. \A i \in 1 .. accepted, t \in Threads : ~Holds(t, i)
      BY <2>3 DEF Holds
    <3>2. QED BY <1>3, <3>1 DEF PoolInv, PoolTypeOK, HeldOnce
  <2>6. \A c \in Schedulers : dispatch[c] = Nobody
    BY <1>3, <2>3 DEF PoolInv, PoolTypeOK, Dispatched
  <2>7. QED BY <2>1, <2>2, <2>4, <2>5, <2>6
<1>4. PoolInv => PoolSound
  BY <1>1, <1>2, <1>3 DEF PoolSound
<1>5. QED BY <1>4, PoolInvariant, PTL

----------------------------------------------------------------------------
(***************************************************************************)
(* System: who calls what, and what a shutdown waits for.                  *)
(***************************************************************************)
WorkerPlaces == {"absent", "listed", "ready", "starting", "running", "stopping", "ended"}

ClientTypes ==
    /\ DOMAIN call = Clients
    /\ workerState \in [AllWorkers -> WorkerPlaces] /\ workers \in Seq(AllWorkers)
    /\ home \in [Coros -> AllWorkers \cup {NoOne}] /\ home[Root] = InitWorker

\* A client creates a worker that nobody else creates, and initializes one that
\* nobody else initializes; it launches a process that has a fiber.
ClientSound(c) ==
    /\ call[c][1] = "worker" =>
          /\ gilHolder = c
          /\ call[c][2] \in Owned /\ workerState[call[c][2]] = "absent"
    /\ call[c][1] = "initialize" =>
          call[c][2] \in Owned /\ workerState[call[c][2]] = "listed"
    /\ call[c][1] = "fiber" => call[c][2] \in Procs /\ call[c][3] \in AllWorkers
    /\ call[c][1] = "launch" => call[c][2] \in Procs /\ home[call[c][2]] # NoOne

OneInitializer ==
    \A c, d \in Clients :
        /\ call[c][1] = "initialize" /\ call[d][1] = "initialize"
        /\ call[c][2] = call[d][2]
        => c = d

\* A worker that has been made is listed; a shutdown that waits has seen all
\* workers started, and still waits for each that has not ended.
Listed == \A w \in Owned : workerState[w] # "absent" => \E i \in DOMAIN workers : workers[i] = w

WaitSound(c) ==
    call[c][1] = "wait" =>
        /\ shutdown
        /\ \A w \in Owned :
              /\ workerState[w] # "listed"
              /\ workerState[w] \notin {"absent", "ended"} =>
                    \E i \in call[c][2] : i \in DOMAIN workers /\ workers[i] = w

CleanSound == clean => shutdown /\ \A w \in Owned : workerState[w] \in {"absent", "ended"}

ClientInv == /\ ClientTypes /\ (\A c \in Clients : ClientSound(c)) /\ OneInitializer
             /\ Listed /\ (\A c \in Clients : WaitSound(c)) /\ CleanSound

\* Nobody else's call changes, and the GIL is not taken from a client.
Apart(c) ==
    /\ DOMAIN call' = Clients
    /\ \A d \in Clients : d # c => call'[d] = call[d]
    /\ gilHolder' = gilHolder \/ gilHolder \in {NoOne, c} \cup AllWorkers

\* Homes are found once.
HomesKept == /\ home' \in [Coros -> AllWorkers \cup {NoOne}] /\ home'[Root] = InitWorker
             /\ \A p \in Procs : home[p] # NoOne => home'[p] # NoOne

\* Workers with a thread of their own are neither made nor started.
Steady == /\ workerState' \in [AllWorkers -> WorkerPlaces]
          /\ \A w \in Owned :
                /\ workerState[w] \in {"absent", "listed", "ended"} => workerState'[w] = workerState[w]
                /\ workerState'[w] \in {"absent", "listed"} => workerState'[w] = workerState[w]

\* What has been listed stays.
ListKept == /\ workers' \in Seq(AllWorkers)
            /\ \A i \in DOMAIN workers : i \in DOMAIN workers' /\ workers'[i] = workers[i]

\* Others keep what they know, when no worker is made or started.
LEMMA OthersKeep ==
  ASSUME ClientInv, NEW c, Apart(c), HomesKept, Steady, NEW d \in Clients, d # c
  PROVE  ClientSound(d)'
<1>1. call'[d] = call[d] /\ ClientSound(d)
  BY DEF Apart, ClientInv
<1>2. call[d][1] = "worker" => gilHolder' = d
  <2>1. d \notin AllWorkers \cup {NoOne}
    BY SystemAssumption
  <2>2. QED BY <1>1, <2>1 DEF Apart, ClientSound
<1>3. QED BY <1>1, <1>2 DEF ClientSound, HomesKept, Steady

\* A call goes on with something that is neither of these.
Harmless(k) == k[1] \notin {"worker", "initialize", "fiber", "launch", "wait"}

LEMMA ShutdownRests ==
  ASSUME ClientInv, Steady, ListKept, shutdown => shutdown', clean' = clean,
         \A c \in Clients : call'[c][1] = "wait" => call'[c] = call[c]
  PROVE  Listed' /\ (\A c \in Clients : WaitSound(c)') /\ CleanSound'
<1>1. Listed'
  BY DEF ClientInv, Listed, Steady, ListKept
<1>2. ASSUME NEW c \in Clients PROVE WaitSound(c)'
  <2>1. WaitSound(c)
    BY DEF ClientInv
  <2>2. QED BY <2>1 DEF WaitSound, Steady, ListKept
<1>3. CleanSound'
  BY DEF ClientInv, CleanSound, Steady
<1>4. QED BY <1>1, <1>2, <1>3

\* The client goes on with a harmless call, or none changes.
LEMMA HarmlessKeeps ==
  ASSUME ClientInv, NEW c, Apart(c), HomesKept, Steady, ListKept,
         shutdown => shutdown', clean' = clean,
         c \in Clients => Harmless(call'[c])
  PROVE  ClientInv'
<1>1. \A d \in Clients : ClientSound(d)'
  <2>1. c \in Clients => ClientSound(c)'
    BY DEF ClientSound, Harmless
  <2>2. QED BY <2>1, OthersKeep
<1>2. OneInitializer'
  BY DEF ClientInv, OneInitializer, Apart, Harmless
<1>3. \A d \in Clients : call'[d][1] = "wait" => call'[d] = call[d]
  BY DEF Apart, Harmless
<1>4. Listed' /\ (\A d \in Clients : WaitSound(d)') /\ CleanSound'
  BY <1>3, ShutdownRests
<1>5. ClientTypes'
  BY DEF ClientTypes, ClientInv, Apart, HomesKept, Steady, ListKept
<1>6. QED BY <1>1, <1>2, <1>4, <1>5 DEF ClientInv

\* Nobody's call changes.
LEMMA QuietKeeps ==
  ASSUME ClientInv, call' = call, HomesKept, Steady, ListKept, shutdown' = shutdown, clean' = clean,
         gilHolder' = gilHolder \/ gilHolder \in {NoOne} \cup AllWorkers
  PROVE  ClientInv'
<1>1. Apart(NoOne)
  BY DEF Apart, ClientInv, ClientTypes
<1>2. NoOne \notin Clients
  BY SystemAssumption
<1>3. QED BY <1>1, <1>2, HarmlessKeeps

LEMMA HomesRest == ClientInv /\ home' = home => HomesKept
BY DEF ClientInv, ClientTypes, HomesKept

LEMMA WorkersRest ==
  ASSUME ClientInv, workerState' = workerState, workers' = workers
  PROVE  Steady /\ ListKept
BY DEF ClientInv, ClientTypes, Steady, ListKept

LEMMA RequestKinds ==
  ASSUME NEW k \in Requests
  PROVE  /\ k[1] \in {"worker", "fiber", "launch", "run", "shutdown"}
         /\ k[1] = "worker" => k[2] \in Owned /\ workerState[k[2]] = "absent"
         /\ k[1] = "fiber" => k[2] \in Procs /\ k[3] \in AllWorkers
         /\ k[1] = "launch" => k[2] \in Procs /\ home[k[2]] # NoOne
BY DEF Requests

\* One worker goes on, which is not one that is made, started or over.
LEMMA SteadyStep ==
  ASSUME ClientInv, NEW w \in AllWorkers, NEW st \in WorkerPlaces,
         workerState' = [workerState EXCEPT ![w] = st],
         w \in Owned => /\ workerState[w] \in {"starting", "running", "stopping"}
                        /\ st \in {"starting", "running", "stopping", "ended"}
  PROVE  Steady
BY DEF ClientInv, ClientTypes, Steady

LEMMA CallKeeps ==
  ASSUME ClientInv, NEW c \in Clients, NEW k \in Requests, Call(c, k)
  PROVE  ClientInv'
<1>1. /\ call' = [call EXCEPT ![c] = k] /\ gilHolder = NoOne /\ gilHolder' = c
      /\ workerState' = workerState /\ workers' = workers /\ home' = home
      /\ shutdown' = shutdown /\ clean' = clean
  BY DEF Call, threadVars, procVars
<1>2. Apart(c) /\ call'[c] = k
  BY <1>1 DEF Apart, ClientInv, ClientTypes
<1>3. HomesKept /\ Steady /\ ListKept
  BY <1>1, HomesRest, WorkersRest
<1>4. ClientSound(c)'
  BY <1>1, <1>2, RequestKinds DEF ClientSound
<1>5. \A d \in Clients : ClientSound(d)'
  BY <1>2, <1>3, <1>4, OthersKeep
<1>6. k[1] # "initialize" /\ k[1] # "wait"
  BY RequestKinds
<1>7. OneInitializer'
  BY <1>2, <1>6 DEF ClientInv, OneInitializer, Apart
<1>8. Listed' /\ (\A d \in Clients : WaitSound(d)') /\ CleanSound'
  BY <1>1, <1>2, <1>3, <1>6, ShutdownRests DEF Apart
<1>9. ClientTypes'
  BY <1>1, <1>2, <1>3 DEF ClientTypes, ClientInv, Apart
<1>10. QED BY <1>5, <1>7, <1>8, <1>9 DEF ClientInv

LEMMA CreateWorkerKeeps ==
  ASSUME ClientInv, NEW c \in Clients, CreateWorker(c)
  PROVE  ClientInv'
<1>1. PICK w \in Owned : w = call[c][2] /\ workerState[w] = "absent" /\ gilHolder = c
  BY DEF ClientInv, ClientSound, CreateWorker, Inside
<1>2. /\ workers' = Append(workers, w) /\ workerState' = [workerState EXCEPT ![w] = "listed"]
      /\ call' = [call EXCEPT ![c] = <<"initialize", w>>] /\ gilHolder' = NoOne
      /\ ~ shutdown /\ shutdown' = shutdown /\ home' = home /\ clean' = clean
  BY <1>1 DEF CreateWorker, procVars
<1>3. DOMAIN call = Clients /\ w \in AllWorkers /\ workerState \in [AllWorkers -> WorkerPlaces]
  BY DEF ClientInv, ClientTypes, AllWorkers
<1>4. /\ DOMAIN call' = Clients /\ call'[c][1] = "initialize" /\ call'[c][2] = w
      /\ \A d \in Clients : d # c => call'[d] = call[d]
  BY <1>2, <1>3
<1>5. /\ workerState' \in [AllWorkers -> WorkerPlaces] /\ workerState'[w] = "listed"
      /\ \A v \in AllWorkers : v # w => workerState'[v] = workerState[v]
  BY <1>2, <1>3 DEF WorkerPlaces
<1>6. /\ workers' \in Seq(AllWorkers) /\ \E i \in DOMAIN workers' : workers'[i] = w
      /\ \A i \in DOMAIN workers : i \in DOMAIN workers' /\ workers'[i] = workers[i]
  <2>1. /\ workers' \in Seq(AllWorkers) /\ Len(workers) \in Nat /\ DOMAIN workers = 1 .. Len(workers)
        /\ DOMAIN workers' = 1 .. (Len(workers) + 1) /\ workers'[Len(workers) + 1] = w
        /\ \A i \in DOMAIN workers : workers'[i] = workers[i]
    BY <1>2, <1>3, AppendItems DEF ClientInv, ClientTypes
  <2>2. QED BY <2>1
<1>7. ASSUME NEW d \in Clients PROVE ClientSound(d)'
  <2>1. CASE d = c
    BY <1>1, <1>4, <1>5, <2>1 DEF ClientSound
  <2>2. CASE d # c
    <3>1. ClientSound(d) /\ call'[d] = call[d] /\ call[d][1] # "worker"
      BY <1>1, <1>4, <2>2 DEF ClientInv, ClientSound
    <3>2. call[d][1] = "initialize" => call[d][2] # w /\ call[d][2] \in AllWorkers
      BY <1>1, <3>1 DEF ClientSound, AllWorkers
    <3>3. QED BY <1>2, <1>5, <3>1, <3>2 DEF ClientSound
  <2>3. QED BY <2>1, <2>2
<1>8. OneInitializer'
  <2>1. ASSUME NEW d \in Clients, d # c, call[d][1] = "initialize" PROVE call[d][2] # w
    BY <1>1, <2>1 DEF ClientInv, ClientSound
  <2>2. QED BY <1>4, <2>1 DEF ClientInv, OneInitializer
<1>9. Listed'
  <2>1. ASSUME NEW v \in Owned, workerState'[v] # "absent"
        PROVE  \E i \in DOMAIN workers' : workers'[i] = v
    <3>1. CASE v = w
      BY <1>6, <3>1
    <3>2. CASE v # w
      <4>1. workerState[v] # "absent"
        BY <1>5, <2>1, <3>2 DEF AllWorkers
      <4>2. QED BY <1>6, <4>1 DEF ClientInv, Listed
    <3>3. QED BY <3>1, <3>2
  <2>2. QED BY <2>1 DEF Listed
<1>10. \A d \in Clients : WaitSound(d)'
  BY <1>2, <1>4 DEF ClientInv, WaitSound
<1>11. CleanSound'
  BY <1>2 DEF ClientInv, CleanSound
<1>12. ClientTypes'
  BY <1>2, <1>4, <1>5, <1>6 DEF ClientInv, ClientTypes
<1>13. QED BY <1>7, <1>8, <1>9, <1>10, <1>11, <1>12 DEF ClientInv

LEMMA StartWorkerKeeps ==
  ASSUME ClientInv, NEW c \in Clients, StartWorker(c)
  PROVE  ClientInv'
<1>1. PICK w \in Owned : w = call[c][2] /\ workerState[w] = "listed" /\ call[c][1] = "initialize"
  BY DEF ClientInv, ClientSound, StartWorker
<1>2. /\ workers' = workers /\ workerState' = [workerState EXCEPT ![w] = "starting"]
      /\ call' = [call EXCEPT ![c] = Idle] /\ gilHolder' = gilHolder
      /\ shutdown' = shutdown /\ home' = home /\ clean' = clean
  BY <1>1 DEF StartWorker, procVars
<1>3. DOMAIN call = Clients /\ w \in AllWorkers /\ workerState \in [AllWorkers -> WorkerPlaces]
  BY DEF ClientInv, ClientTypes, AllWorkers
<1>4. /\ DOMAIN call' = Clients /\ call'[c][1] = "idle"
      /\ \A d \in Clients : d # c => call'[d] = call[d]
  BY <1>2, <1>3 DEF Idle
<1>5. /\ workerState' \in [AllWorkers -> WorkerPlaces] /\ workerState'[w] = "starting"
      /\ \A v \in AllWorkers : v # w => workerState'[v] = workerState[v]
  BY <1>2, <1>3 DEF WorkerPlaces
<1>6. ASSUME NEW d \in Clients PROVE ClientSound(d)'
  <2>1. CASE d = c
    BY <1>4, <2>1 DEF ClientSound
  <2>2. CASE d # c
    <3>1. ClientSound(d) /\ call'[d] = call[d]
      BY <1>4, <2>2 DEF ClientInv
    <3>2. call[d][1] = "initialize" => call[d][2] # w /\ call[d][2] \in AllWorkers
      BY <1>1, <2>2, <3>1 DEF ClientInv, ClientSound, OneInitializer, AllWorkers
    <3>3. call[d][1] = "worker" => call[d][2] # w /\ call[d][2] \in AllWorkers
      BY <1>1, <3>1 DEF ClientSound, AllWorkers
    <3>4. QED BY <1>2, <1>5, <3>1, <3>2, <3>3 DEF ClientSound
  <2>3. QED BY <2>1, <2>2
<1>7. OneInitializer'
  BY <1>4 DEF ClientInv, OneInitializer
<1>8. \A v \in Owned : /\ workerState'[v] # "absent" => workerState[v] # "absent"
                       /\ workerState'[v] = "listed" => workerState[v] = "listed"
                       /\ workerState[v] \in {"absent", "ended"} => workerState'[v] = workerState[v]
  BY <1>1, <1>5 DEF AllWorkers
<1>9. Listed' /\ CleanSound'
  BY <1>2, <1>8 DEF ClientInv, Listed, CleanSound
<1>10. ASSUME NEW d \in Clients PROVE WaitSound(d)'
  <2>1. CASE d = c
    BY <1>4, <2>1 DEF WaitSound
  <2>2. CASE d # c
    BY <1>2, <1>4, <1>8, <2>2 DEF ClientInv, WaitSound
  <2>3. QED BY <2>1, <2>2
<1>11. ClientTypes'
  BY <1>2, <1>4, <1>5 DEF ClientInv, ClientTypes
<1>12. QED BY <1>6, <1>7, <1>9, <1>10, <1>11 DEF ClientInv

LEMMA InitWorkerKeeps ==
  ASSUME ClientInv, NEW c \in Clients, InitWorkerBegins(c) \/ InitWorkerEnds(c)
  PROVE  ClientInv'
<1>1. /\ call' = call /\ home' = home /\ shutdown' = shutdown /\ clean' = clean
      /\ gilHolder \in {NoOne, c} /\ gilHolder' \in {NoOne, c}
  BY DEF InitWorkerBegins, InitWorkerEnds, Inside, procVars
<1>2. InitWorker \in AllWorkers /\ InitWorker \notin Owned
  BY SystemAssumption DEF AllWorkers
<1>3. HomesKept
  BY <1>1, HomesRest
<1>4. Steady
  <2>1. \/ workerState' = [workerState EXCEPT ![InitWorker] = "listed"]
        \/ workerState' = [workerState EXCEPT ![InitWorker] = "ready"]
    BY DEF InitWorkerBegins, InitWorkerEnds
  <2>2. QED BY <1>2, <2>1, SteadyStep DEF WorkerPlaces
<1>5. ListKept
  <2>1. CASE workers' = Append(workers, InitWorker)
    <3>1. /\ workers' \in Seq(AllWorkers) /\ Len(workers) \in Nat /\ DOMAIN workers = 1 .. Len(workers)
          /\ DOMAIN workers' = 1 .. (Len(workers) + 1)
          /\ \A i \in DOMAIN workers : workers'[i] = workers[i]
      BY <1>2, <2>1, AppendItems DEF ClientInv, ClientTypes
    <3>2. QED BY <3>1 DEF ListKept
  <2>2. CASE workers' = workers
    BY <2>2 DEF ListKept, ClientInv, ClientTypes
  <2>3. QED BY <2>1, <2>2 DEF InitWorkerBegins, InitWorkerEnds
<1>6. call[c][1] = "worker" => gilHolder' = c
  <2>1. InitWorkerBegins(c) => call[c][1] # "worker"
    BY DEF InitWorkerBegins, UsesInit
  <2>2. QED BY <2>1 DEF InitWorkerEnds
<1>7. Apart(c)
  BY <1>1 DEF Apart, ClientInv, ClientTypes
<1>8. ClientSound(c)'
  <2>1. ClientSound(c)
    BY DEF ClientInv
  <2>2. QED BY <1>1, <1>3, <1>4, <1>6, <2>1 DEF ClientSound, Steady
<1>9. \A d \in Clients : ClientSound(d)'
  BY <1>3, <1>4, <1>7, <1>8, OthersKeep
<1>10. Listed' /\ (\A d \in Clients : WaitSound(d)') /\ CleanSound'
  BY <1>1, <1>4, <1>5, ShutdownRests
<1>11. OneInitializer'
  BY <1>1 DEF ClientInv, OneInitializer
<1>12. ClientTypes'
  BY <1>1, <1>3, <1>4, <1>5 DEF ClientInv, ClientTypes, HomesKept, Steady, ListKept
<1>13. QED BY <1>9, <1>10, <1>11, <1>12 DEF ClientInv

LEMMA ClientEntersKeeps ==
  ASSUME ClientInv, NEW c \in Clients, Throws(c) \/ Joined(c) \/ Launch(c)
  PROVE  ClientInv'
<1>1. /\ home' = home /\ workerState' = workerState /\ workers' = workers
      /\ shutdown' = shutdown /\ clean' = clean /\ gilHolder \in {NoOne, c}
      /\ \E k \in {Idle, Threw, <<"shutdown">>} : call' = [call EXCEPT ![c] = k]
  BY DEF Throws, Joined, Launch, Throw, Return, Inside, procVars, threadVars
<1>2. Apart(c) /\ Harmless(call'[c])
  BY <1>1 DEF Apart, ClientInv, ClientTypes, Harmless, Idle, Threw
<1>3. HomesKept /\ Steady /\ ListKept
  BY <1>1, HomesRest, WorkersRest
<1>4. QED BY <1>1, <1>2, <1>3, HarmlessKeeps

LEMMA CreateFiberKeeps ==
  ASSUME ClientInv, NEW c \in Clients, CreateFiber(c)
  PROVE  ClientInv'
<1>1. /\ workerState' = workerState /\ workers' = workers
      /\ shutdown' = shutdown /\ clean' = clean /\ gilHolder = c
      /\ call' = [call EXCEPT ![c] = Idle]
  BY DEF CreateFiber, Return, Inside, threadVars
<1>2. Apart(c) /\ Harmless(call'[c])
  BY <1>1 DEF Apart, ClientInv, ClientTypes, Harmless, Idle
<1>3. PICK p \in Procs, w \in AllWorkers : home' = [home EXCEPT ![p] = IF home[p] = NoOne THEN w ELSE home[p]]
  <2>1. call[c][2] \in Procs /\ call[c][3] \in AllWorkers
    BY DEF ClientInv, ClientSound, CreateFiber, Inside
  <2>2. QED BY <2>1 DEF CreateFiber
<1>4. home \in [Coros -> AllWorkers \cup {NoOne}] /\ home[Root] = InitWorker /\ p \in Coros /\ p # Root
      /\ Root \in Coros /\ \A q \in Procs : q \in Coros
  BY SystemAssumption DEF ClientInv, ClientTypes, Coros
<1>5. HomesKept
  BY <1>3, <1>4 DEF HomesKept
<1>6. Steady /\ ListKept
  BY <1>1, WorkersRest
<1>7. QED BY <1>1, <1>2, <1>5, <1>6, HarmlessKeeps

LEMMA RunInForegroundKeeps ==
  ASSUME ClientInv, NEW c \in Clients, RunInForeground(c)
  PROVE  ClientInv'
<1>1. /\ home' = home /\ workers' = workers
      /\ shutdown' = shutdown /\ clean' = clean /\ gilHolder = c
      /\ \E k \in {<<"join">>, Threw} : call' = [call EXCEPT ![c] = k]
      /\ \/ workerState' = [workerState EXCEPT ![InitWorker] = "starting"]
         \/ workerState' = workerState
  BY DEF RunInForeground, Inside
<1>2. Apart(c) /\ Harmless(call'[c])
  BY <1>1 DEF Apart, ClientInv, ClientTypes, Harmless, Threw
<1>3. InitWorker \in AllWorkers /\ InitWorker \notin Owned
  BY SystemAssumption DEF AllWorkers
<1>4. Steady
  <2>1. workerState' = workerState => Steady
    BY DEF ClientInv, ClientTypes, Steady
  <2>2. QED BY <1>1, <1>3, <2>1, SteadyStep DEF WorkerPlaces
<1>5. HomesKept /\ ListKept
  BY <1>1, HomesRest DEF ListKept, ClientInv, ClientTypes
<1>6. QED BY <1>1, <1>2, <1>4, <1>5, HarmlessKeeps

LEMMA ThreadKeeps ==
  ASSUME ClientInv, NEW w \in AllWorkers, ThreadStarts(w) \/ LoopExits(w) \/ ThreadStops(w)
  PROVE  ClientInv'
<1>1. /\ call' = call /\ home' = home /\ workers' = workers
      /\ shutdown' = shutdown /\ clean' = clean /\ gilHolder' = gilHolder
  BY DEF ThreadStarts, LoopExits, ThreadStops, workerUnchanged, procVars
<1>2. Steady
  BY SteadyStep DEF ThreadStarts, LoopExits, ThreadStops, WorkerPlaces
<1>3. HomesKept /\ ListKept
  BY <1>1, HomesRest DEF ListKept, ClientInv, ClientTypes
<1>4. QED BY <1>1, <1>2, <1>3, QuietKeeps

\* Steps of the workers and their coroutines, which take the GIL from nobody and
\* give it back themselves.
WorkerSteps ==
    \/ \E w \in AllWorkers : TakeThunks(w) \/ RunOnWorker(w)
    \/ \E i \in Coros : \/ Finishes(i) \/ Raises(i) \/ Resumes(i)
                        \/ \E q \in Procs : Awaits(i, q)
    \/ \E p \in Procs : DoneCallback(p) \/ DeallocateProcess(p)
    \/ RootDone

LEMMA WorkerStepsKeep ==
  ASSUME ClientInv, WorkerSteps
  PROVE  ClientInv'
<1>1. /\ call' = call /\ home' = home /\ workers' = workers /\ workerState' = workerState
      /\ shutdown' = shutdown /\ clean' = clean
  <2> DEFINE Rest == /\ call' = call /\ home' = home /\ workers' = workers
                     /\ workerState' = workerState /\ shutdown' = shutdown /\ clean' = clean
  <2>1. \A w \in AllWorkers : TakeThunks(w) \/ RunOnWorker(w) => Rest
    BY DEF TakeThunks, RunOnWorker, workerUnchanged, procVars
  <2>2. \A i \in Coros : Finishes(i) \/ Raises(i) \/ Resumes(i) => Rest
    BY DEF Finishes, Raises, Resumes, workerUnchanged, threadVars
  <2>3. \A i \in Coros : \A q \in Procs : Awaits(i, q) => Rest
    BY DEF Awaits, workerUnchanged, threadVars
  <2>4. \A p \in Procs : DoneCallback(p) => Rest
    BY DEF DoneCallback, workerUnchanged, threadVars
  <2>5. \A p \in Procs : DeallocateProcess(p) => Rest
    BY DEF DeallocateProcess, workerUnchanged
  <2>6. RootDone => Rest
    BY DEF RootDone, threadVars
  <2> HIDE DEF Rest
  <2>7. Rest
    BY <2>1, <2>2, <2>3, <2>4, <2>5, <2>6 DEF WorkerSteps
  <2>8. QED BY <2>7 DEF Rest
<1>2. gilHolder' = gilHolder \/ gilHolder \in {NoOne} \cup AllWorkers
  <2>1. \A p \in Procs : home[p] \in {NoOne} \cup AllWorkers
    BY DEF ClientInv, ClientTypes, Coros
  <2>2. \A p \in Procs : DeallocateProcess(p) => gilHolder = home[p]
    BY DEF DeallocateProcess
  <2>3. \A w \in AllWorkers : TakeThunks(w) => gilHolder' = gilHolder
    BY DEF TakeThunks
  <2>4. \A w \in AllWorkers : RunOnWorker(w) => gilHolder = NoOne
    BY DEF RunOnWorker
  <2>5. \A i \in Coros : Finishes(i) \/ Raises(i) \/ Resumes(i) => gilHolder = NoOne
    BY DEF Finishes, Raises, Resumes, Steps
  <2>6. \A i \in Coros : \A q \in Procs : Awaits(i, q) => gilHolder = NoOne
    BY DEF Awaits, Steps
  <2>7. \A p \in Procs : DoneCallback(p) => gilHolder = NoOne
    BY DEF DoneCallback, Steps
  <2>8. RootDone => gilHolder = NoOne
    BY DEF RootDone, Steps
  <2>9. QED BY <2>1, <2>2, <2>3, <2>4, <2>5, <2>6, <2>7, <2>8 DEF WorkerSteps
<1>3. HomesKept /\ Steady /\ ListKept
  BY <1>1, HomesRest, WorkersRest
<1>4. QED BY <1>1, <1>2, <1>3, QuietKeeps

\* The workers that WaitForShutdown is given cover those that run.
LEMMA WaitKeeps ==
  ASSUME ClientInv, NEW c \in Clients, NEW s, WaitForShutdown(c, s),
         home' = home, workerState' = workerState, workers' = workers, shutdown',
         gilHolder \in {NoOne, c},
         \A w \in Owned :
            /\ workerState[w] # "listed"
            /\ workerState[w] \notin {"absent", "ended"} =>
                  \E i \in s : i \in DOMAIN workers /\ workers[i] = w
  PROVE  ClientInv'
<1>1. /\ call' = [call EXCEPT ![c] = IF s = {} THEN Idle ELSE <<"wait", s>>]
      /\ clean' = (clean \/ s = {})
  BY DEF WaitForShutdown
<1>2. DOMAIN call = Clients
  BY DEF ClientInv, ClientTypes
<1>3. Apart(c)
  BY <1>1, <1>2 DEF Apart
<1>4. \/ call'[c][1] = "idle"
      \/ call'[c][1] = "wait" /\ call'[c][2] = s
  <2>1. CASE s = {}
    BY <1>1, <1>2, <2>1 DEF Idle
  <2>2. CASE s # {}
    BY <1>1, <1>2, <2>2
  <2>3. QED BY <2>1, <2>2
<1>5. HomesKept /\ Steady /\ ListKept
  BY HomesRest, WorkersRest
<1>6. \A d \in Clients : ClientSound(d)'
  <2>1. ClientSound(c)'
    BY <1>4 DEF ClientSound
  <2>2. QED BY <1>3, <1>5, <2>1, OthersKeep
<1>7. OneInitializer'
  BY <1>3, <1>4 DEF ClientInv, OneInitializer, Apart
<1>8. Listed'
  BY DEF ClientInv, Listed
<1>9. ASSUME NEW d \in Clients PROVE WaitSound(d)'
  <2>1. CASE d = c
    BY <1>4, <2>1 DEF WaitSound
  <2>2. CASE d # c
    BY <1>3, <2>2 DEF Apart, ClientInv, WaitSound
  <2>3. QED BY <2>1, <2>2
<1>10. CleanSound'
  BY <1>1 DEF ClientInv, CleanSound
<1>11. ClientTypes'
  BY <1>3, <1>5 DEF ClientInv, ClientTypes, Apart
<1>12. QED BY <1>6, <1>7, <1>8, <1>9, <1>10, <1>11 DEF ClientInv

LEMMA ShutdownKeeps ==
  ASSUME ClientInv, NEW c \in Clients, Shutdown(c)
  PROVE  ClientInv'
<1>1. /\ home' = home /\ workerState' = workerState /\ workers' = workers /\ shutdown'
      /\ gilHolder = c
  BY DEF Shutdown, Inside, threadVars, procVars
<1>2. ASSUME Return(c) \/ Throw(c), clean' = clean PROVE ClientInv'
  <2>1. \E k \in {Idle, Threw} : call' = [call EXCEPT ![c] = k]
    BY <1>2 DEF Return, Throw
  <2>2. Apart(c) /\ Harmless(call'[c])
    BY <1>1, <2>1 DEF Apart, ClientInv, ClientTypes, Harmless, Idle, Threw
  <2>3. HomesKept /\ Steady /\ ListKept
    BY <1>1, HomesRest, WorkersRest
  <2>4. QED BY <1>1, <1>2, <2>2, <2>3, HarmlessKeeps
<1>3. ASSUME \A i \in DOMAIN workers : workerState[workers[i]] # "listed",
             WaitForShutdown(c, {i \in DOMAIN workers : workers[i] \in Owned})
      PROVE  ClientInv'
  <2>1. PICK s : s = {i \in DOMAIN workers : workers[i] \in Owned}
    OBVIOUS
  <2>2. ASSUME NEW w \in Owned
        PROVE  /\ workerState[w] # "listed"
               /\ workerState[w] \notin {"absent", "ended"} =>
                     \E i \in s : i \in DOMAIN workers /\ workers[i] = w
    <3>1. workerState[w] # "absent" => \E i \in DOMAIN workers : workers[i] = w
      BY DEF ClientInv, Listed
    <3>2. QED BY <1>3, <2>1, <3>1
  <2>3. WaitForShutdown(c, s)
    BY <1>3, <2>1
  <2>4. QED BY <1>1, <2>2, <2>3, WaitKeeps
<1>4. \/ (Return(c) \/ Throw(c)) /\ clean' = clean
      \/ /\ {i \in DOMAIN workers : workerState[workers[i]] = "listed"} = {}
         /\ WaitForShutdown(c, {i \in DOMAIN workers : workers[i] \in Owned})
  BY DEF Shutdown
<1>5. QED BY <1>2, <1>3, <1>4

LEMMA WorkerAwaitedKeeps ==
  ASSUME ClientInv, NEW c \in Clients, WorkerAwaited(c)
  PROVE  ClientInv'
<1>1. /\ home' = home /\ workerState' = workerState /\ workers' = workers /\ shutdown' = shutdown
      /\ gilHolder \in {NoOne, c} /\ call[c][1] = "wait"
  BY DEF WorkerAwaited, threadVars, procVars
<1>2. PICK i \in call[c][2] : /\ workerState[workers[i]] = "ended"
                              /\ WaitForShutdown(c, call[c][2] \ {i})
  BY DEF WorkerAwaited
<1>3. WaitSound(c)
  BY DEF ClientInv
<1>4. shutdown'
  BY <1>1, <1>3 DEF WaitSound
<1>5. ASSUME NEW w \in Owned
      PROVE  /\ workerState[w] # "listed"
             /\ workerState[w] \notin {"absent", "ended"} =>
                   \E j \in call[c][2] \ {i} : j \in DOMAIN workers /\ workers[j] = w
  BY <1>1, <1>2, <1>3 DEF WaitSound
<1>6. QED BY <1>1, <1>2, <1>4, <1>5, WaitKeeps

LEMMA ClientStep == ClientInv /\ [SystemNext]_systemVars => ClientInv'
<1> SUFFICES ASSUME ClientInv, [SystemNext]_systemVars PROVE ClientInv'
  OBVIOUS
<1>1. ASSUME NEW c \in Clients, Interrupt(c) PROVE ClientInv'
  <2>1. /\ call' = call /\ home' = home /\ workerState' = workerState /\ workers' = workers
        /\ shutdown' = shutdown /\ clean' = clean /\ gilHolder' = gilHolder
    BY <1>1 DEF Interrupt, threadVars, procVars
  <2>2. QED BY <2>1, HomesRest, WorkersRest, QuietKeeps
<1>2. CASE UNCHANGED systemVars
  <2>1. /\ call' = call /\ home' = home /\ workerState' = workerState /\ workers' = workers
        /\ shutdown' = shutdown /\ clean' = clean /\ gilHolder' = gilHolder
    BY <1>2 DEF systemVars
  <2>2. QED BY <2>1, HomesRest, WorkersRest, QuietKeeps
<1>3. CASE WorkerSteps
  BY <1>3, WorkerStepsKeep
<1>4. CASE SystemNext
  BY <1>1, <1>3, <1>4, CallKeeps, ClientEntersKeeps, CreateWorkerKeeps, StartWorkerKeeps,
     InitWorkerKeeps, CreateFiberKeeps, RunInForegroundKeeps, ShutdownKeeps, WorkerAwaitedKeeps,
     ThreadKeeps DEF SystemNext, WorkerSteps
<1>5. QED BY <1>2, <1>4

----------------------------------------------------------------------------
(***************************************************************************)
(* System: processes, their thunks and the table.                          *)
(***************************************************************************)

\* Places of a coroutine that has been launched and has not terminated.
UnderWay == {"posted", "task", "waiting", "finished", "lost"}
CoroPlaces == {"new", "terminating", "ended"} \cup UnderWay

ProcessTypes ==
    /\ nextPid \in Nat \ {0}
    /\ pid \in [Procs -> Nat \cup {-1}] /\ leaving \in [Procs -> Nat]
    /\ terminated \in [Procs -> {"null", "unset", "set"}]
    /\ home \in [Coros -> AllWorkers \cup {NoOne}] /\ home[Root] = InitWorker
    /\ place \in [Coros -> CoroPlaces]
    /\ pendingThunks \in [AllWorkers -> Seq(Coros)] /\ nextThunks \in [AllWorkers -> Seq(Coros)]

\* Where a process is says what it has of a pid.
PlaceSound(p) ==
    /\ place[p] = "new" => pid[p] = 0 /\ leaving[p] = 0
    /\ place[p] \in UnderWay => pid[p] > 0 /\ leaving[p] = 0
    /\ place[p] = "terminating" => pid[p] = -1 /\ leaving[p] > 0
    /\ place[p] = "ended" => pid[p] = -1 /\ leaving[p] = 0

\* The number that the table knows a process by, also while it leaves.
Number(p) == IF pid[p] > 0 THEN pid[p] ELSE leaving[p]

TableSound ==
    /\ table = {<<Number(p), p>> : p \in {q \in Procs : Number(q) > 0}}
    /\ \A p \in Procs : Number(p) < nextPid
    /\ \A p, q \in Procs : Number(p) = Number(q) /\ Number(p) > 0 => p = q

EventsSound ==
    \A p \in Procs : /\ terminated[p] = "set" => pid[p] = -1
                     /\ pid[p] = -1 => terminated[p] # "unset"

\* The thunks of a worker are coroutines that were posted to it, each once.
PostedTo(w, s) ==
    /\ \A i \in DOMAIN s : place[s[i]] = "posted" /\ home[s[i]] = w
    /\ \A i, j \in DOMAIN s : s[i] = s[j] => i = j

ThunksPosted ==
    \A w \in AllWorkers :
        /\ PostedTo(w, pendingThunks[w]) /\ PostedTo(w, nextThunks[w])
        /\ \A i \in DOMAIN pendingThunks[w] : \A j \in DOMAIN nextThunks[w] :
              pendingThunks[w][i] # nextThunks[w][j]

ProcessInv == /\ ProcessTypes /\ (\A p \in Procs : PlaceSound(p)) /\ TableSound
              /\ EventsSound /\ ThunksPosted

LEMMA Coroutines == /\ Root \in Coros /\ Root \notin Procs
                    /\ \A p \in Procs : p \in Coros /\ p # Root
                    /\ InitWorker \in AllWorkers /\ NoOne \notin AllWorkers
BY SystemAssumption DEF Coros, AllWorkers

\* Pids rest.
PidsRest == nextPid' = nextPid /\ table' = table /\ pid' = pid /\ leaving' = leaving

\* Coroutines that are posted are still, and nobody gets another home.
PostedStay ==
    /\ place' \in [Coros -> CoroPlaces]
    /\ home' \in [Coros -> AllWorkers \cup {NoOne}] /\ home'[Root] = InitWorker
    /\ \A i \in Coros : place[i] = "posted" => place'[i] = "posted"
    /\ \A i \in Coros : home[i] # NoOne => home'[i] = home[i]

LEMMA ThunkItems ==
  ASSUME NEW s \in Seq(Coros)
  PROVE  DOMAIN s = 1 .. Len(s) /\ Len(s) \in Nat /\ \A i \in DOMAIN s : s[i] \in Coros
OBVIOUS

LEMMA ListPosted ==
  ASSUME NEW w \in AllWorkers, NEW s \in Seq(Coros), PostedTo(w, s), PostedStay
  PROVE  \A i \in DOMAIN s : place'[s[i]] = "posted" /\ home'[s[i]] = w
<1>1. ASSUME NEW i \in DOMAIN s PROVE place'[s[i]] = "posted" /\ home'[s[i]] = w
  <2>1. PICK x \in Coros : x = s[i]
    BY ThunkItems
  <2>2. place[x] = "posted" /\ home[x] = w
    BY <2>1 DEF PostedTo
  <2>3. w # NoOne
    BY Coroutines
  <2>4. QED BY <2>1, <2>2, <2>3 DEF PostedStay
<1>2. QED BY <1>1

LEMMA ThunksRest ==
  ASSUME ProcessInv, PostedStay, pendingThunks' = pendingThunks, nextThunks' = nextThunks
  PROVE  ThunksPosted'
<1>1. ASSUME NEW w \in AllWorkers, NEW s \in Seq(Coros), PostedTo(w, s), NEW t, t = s
      PROVE  /\ \A i \in DOMAIN t : place'[t[i]] = "posted" /\ home'[t[i]] = w
             /\ \A i, j \in DOMAIN t : t[i] = t[j] => i = j
  BY <1>1, ListPosted DEF PostedTo
<1>2. ASSUME NEW w \in AllWorkers
      PROVE  /\ PostedTo(w, pendingThunks[w])' /\ PostedTo(w, nextThunks[w])'
             /\ \A i \in DOMAIN pendingThunks'[w] : \A j \in DOMAIN nextThunks'[w] :
                   pendingThunks'[w][i] # nextThunks'[w][j]
  <2>1. /\ pendingThunks[w] \in Seq(Coros) /\ nextThunks[w] \in Seq(Coros)
        /\ PostedTo(w, pendingThunks[w]) /\ PostedTo(w, nextThunks[w])
    BY DEF ProcessInv, ProcessTypes, ThunksPosted
  <2>2. PostedTo(w, pendingThunks[w])'
    BY <1>1, <2>1 DEF PostedTo
  <2>3. PostedTo(w, nextThunks[w])'
    BY <1>1, <2>1 DEF PostedTo
  <2>4. QED BY <2>2, <2>3 DEF ProcessInv, ThunksPosted
<1>3. QED BY <1>2 DEF ThunksPosted

\* Processes that are under way stay so.
LEMMA UnderWayKeeps ==
  ASSUME ProcessInv, PidsRest, place' \in [Coros -> CoroPlaces],
         \A p \in Procs : place'[p] = place[p] \/ {place[p], place'[p]} \subseteq UnderWay
  PROVE  (\A p \in Procs : PlaceSound(p)') /\ TableSound'
<1>1. \A p \in Procs : PlaceSound(p)'
  <2>1. ASSUME NEW p \in Procs PROVE PlaceSound(p)'
    <3>1. PlaceSound(p)
      BY DEF ProcessInv
    <3>2. QED BY <3>1 DEF PlaceSound, PidsRest, UnderWay
  <2>2. QED BY <2>1
<1>2. \A p \in Procs : Number(p)' = Number(p)
  BY DEF Number, PidsRest
<1>3. table' = {<<Number(p)', p>> : p \in {q \in Procs : Number(q)' > 0}}
  BY <1>2 DEF ProcessInv, TableSound, PidsRest
<1>4. TableSound'
  BY <1>2, <1>3 DEF ProcessInv, TableSound, PidsRest
<1>5. QED BY <1>1, <1>4

\* Nothing happens to processes.
LEMMA ProcessesRest ==
  ASSUME ProcessInv, procVars' = procVars, pendingThunks' = pendingThunks, nextThunks' = nextThunks
  PROVE  ProcessInv'
<1>1. /\ PidsRest /\ terminated' = terminated /\ home' = home /\ place' = place
  BY DEF procVars, PidsRest
<1>2. PostedStay
  BY <1>1 DEF PostedStay, ProcessInv, ProcessTypes
<1>3. ThunksPosted'
  BY <1>2, ThunksRest
<1>4. (\A p \in Procs : PlaceSound(p)') /\ TableSound'
  BY <1>1, UnderWayKeeps DEF ProcessInv, ProcessTypes
<1>5. ProcessTypes' /\ EventsSound'
  BY <1>1 DEF ProcessInv, ProcessTypes, EventsSound, PidsRest
<1>6. QED BY <1>3, <1>4, <1>5 DEF ProcessInv

\* A coroutine is posted that is not yet.
LEMMA PostKeeps ==
  ASSUME ProcessInv, NEW w \in AllWorkers, NEW x \in Coros, place[x] # "posted", home[x] = w,
         pendingThunks' = [pendingThunks EXCEPT ![w] = Append(@, x)], nextThunks' = nextThunks,
         place' = [place EXCEPT ![x] = "posted"], home' = home
  PROVE  pendingThunks' \in [AllWorkers -> Seq(Coros)] /\ ThunksPosted'
<1>1. /\ pendingThunks \in [AllWorkers -> Seq(Coros)] /\ nextThunks \in [AllWorkers -> Seq(Coros)]
      /\ place \in [Coros -> CoroPlaces]
  BY DEF ProcessInv, ProcessTypes
<1>2. place'[x] = "posted" /\ \A i \in Coros : place[i] = "posted" => place'[i] = "posted" /\ i # x
  BY <1>1
<1>3. PICK s \in Seq(Coros) : s = pendingThunks[w]
  BY <1>1
<1>4. PICK t \in Seq(Coros) : t = nextThunks[w]
  BY <1>1
<1>5. PostedTo(w, s) /\ PostedTo(w, t) /\ \A i \in DOMAIN s : \A j \in DOMAIN t : s[i] # t[j]
  BY <1>3, <1>4 DEF ProcessInv, ThunksPosted
<1>6. PICK u : u = Append(s, x)
  OBVIOUS
<1>7. /\ u \in Seq(Coros) /\ Len(s) \in Nat /\ DOMAIN s = 1 .. Len(s)
      /\ DOMAIN u = 1 .. (Len(s) + 1) /\ u[Len(s) + 1] = x
      /\ \A i \in DOMAIN s : u[i] = s[i]
  BY <1>6, AppendItems
<1>8. \A i \in DOMAIN u : i \in DOMAIN s \/ i = Len(s) + 1
  BY <1>7
<1>9. /\ pendingThunks' \in [AllWorkers -> Seq(Coros)] /\ pendingThunks'[w] = u
      /\ \A v \in AllWorkers : v # w => pendingThunks'[v] = pendingThunks[v]
  BY <1>1, <1>3, <1>6, <1>7
<1>10. ASSUME NEW v \in AllWorkers, NEW r \in Seq(Coros), PostedTo(v, r)
       PROVE  \A i \in DOMAIN r : place'[r[i]] = "posted" /\ home'[r[i]] = v /\ r[i] # x
  BY <1>2, <1>10, ThunkItems DEF PostedTo
<1>11. /\ \A i \in DOMAIN s : place'[s[i]] = "posted" /\ home'[s[i]] = w /\ s[i] # x
       /\ \A i \in DOMAIN t : place'[t[i]] = "posted" /\ home'[t[i]] = w /\ t[i] # x
  BY <1>5, <1>10
<1>12. ASSUME NEW v \in AllWorkers
       PROVE  /\ PostedTo(v, pendingThunks[v])' /\ PostedTo(v, nextThunks[v])'
              /\ \A i \in DOMAIN pendingThunks'[v] : \A j \in DOMAIN nextThunks'[v] :
                    pendingThunks'[v][i] # nextThunks'[v][j]
  <2>1. CASE v = w
    <3>1. PostedTo(w, pendingThunks[w])'
      <4>1. ASSUME NEW i \in DOMAIN u PROVE place'[u[i]] = "posted" /\ home'[u[i]] = w
        BY <1>2, <1>7, <1>8, <1>11
      <4>2. ASSUME NEW i \in DOMAIN u, NEW j \in DOMAIN u, u[i] = u[j] PROVE i = j
        BY <1>5, <1>7, <1>8, <1>11, <4>2 DEF PostedTo
      <4>3. QED BY <1>9, <4>1, <4>2 DEF PostedTo
    <3>2. PostedTo(w, nextThunks[w])'
      BY <1>4, <1>5, <1>11 DEF PostedTo
    <3>3. \A i \in DOMAIN u : \A j \in DOMAIN t : u[i] # t[j]
      BY <1>5, <1>7, <1>8, <1>11
    <3>4. QED BY <1>4, <1>9, <2>1, <3>1, <3>2, <3>3
  <2>2. CASE v # w
    <3>1. /\ PostedTo(v, pendingThunks[v]) /\ PostedTo(v, nextThunks[v])
          /\ pendingThunks[v] \in Seq(Coros) /\ nextThunks[v] \in Seq(Coros)
      BY <1>1 DEF ProcessInv, ThunksPosted
    <3>2. /\ \A i \in DOMAIN pendingThunks[v] :
                place'[pendingThunks[v][i]] = "posted" /\ home'[pendingThunks[v][i]] = v
          /\ \A i \in DOMAIN nextThunks[v] :
                place'[nextThunks[v][i]] = "posted" /\ home'[nextThunks[v][i]] = v
      BY <1>10, <3>1
    <3>3. PostedTo(v, pendingThunks[v])' /\ PostedTo(v, nextThunks[v])'
      BY <1>9, <2>2, <3>1, <3>2 DEF PostedTo
    <3>4. QED BY <1>9, <2>2, <3>3 DEF ProcessInv, ThunksPosted
  <2>3. QED BY <2>1, <2>2
<1>13. QED BY <1>9, <1>12 DEF ThunksPosted

\* The first thunk of a worker is run.
LEMMA HeadRuns ==
  ASSUME ProcessInv, NEW w \in AllWorkers, nextThunks[w] # << >>, NEW st \in CoroPlaces,
         NEW h, h = Head(nextThunks[w]),
         nextThunks' = [nextThunks EXCEPT ![w] = Tail(@)], pendingThunks' = pendingThunks,
         place' = [place EXCEPT ![h] = st], home' = home
  PROVE  /\ h \in Coros /\ place[h] = "posted" /\ home[h] = w
         /\ nextThunks' \in [AllWorkers -> Seq(Coros)] /\ ThunksPosted'
<1>1. /\ pendingThunks \in [AllWorkers -> Seq(Coros)] /\ nextThunks \in [AllWorkers -> Seq(Coros)]
      /\ place \in [Coros -> CoroPlaces]
  BY DEF ProcessInv, ProcessTypes
<1>2. PICK s \in Seq(Coros) : s = pendingThunks[w]
  BY <1>1
<1>3. PICK t \in Seq(Coros) : t = nextThunks[w] /\ t # << >>
  BY <1>1
<1>4. PostedTo(w, s) /\ PostedTo(w, t) /\ \A i \in DOMAIN s : \A j \in DOMAIN t : s[i] # t[j]
  BY <1>2, <1>3 DEF ProcessInv, ThunksPosted
<1>5. /\ h = t[1] /\ h \in Coros /\ 1 \in DOMAIN t /\ Tail(t) \in Seq(Coros)
      /\ \A i \in DOMAIN Tail(t) : i + 1 \in DOMAIN t /\ Tail(t)[i] = t[i + 1] /\ i \in Int /\ i > 0
  BY <1>3, TailItems
<1>6. PICK u \in Seq(Coros) : u = Tail(t)
  BY <1>5
<1>7. place[h] = "posted" /\ home[h] = w
  BY <1>4, <1>5 DEF PostedTo
<1>8. \A i \in Coros : i # h => place'[i] = place[i]
  BY <1>1
<1>9. /\ nextThunks' \in [AllWorkers -> Seq(Coros)] /\ nextThunks'[w] = u
      /\ \A v \in AllWorkers : v # w => nextThunks'[v] = nextThunks[v]
  BY <1>1, <1>3, <1>6
<1>10. ASSUME NEW i \in DOMAIN u
       PROVE  u[i] # h /\ u[i] \in Coros /\ place[u[i]] = "posted" /\ home[u[i]] = w
              /\ \A j \in DOMAIN s : s[j] # u[i]
  <2>1. i + 1 \in DOMAIN t /\ u[i] = t[i + 1] /\ i + 1 # 1
    BY <1>5, <1>6
  <2>2. QED BY <1>4, <1>5, <2>1, ThunkItems DEF PostedTo
<1>11. ASSUME NEW i \in DOMAIN u, NEW j \in DOMAIN u, u[i] = u[j] PROVE i = j
  <2>1. i + 1 \in DOMAIN t /\ u[i] = t[i + 1] /\ j + 1 \in DOMAIN t /\ u[j] = t[j + 1] /\ i \in Int /\ j \in Int
    BY <1>5, <1>6
  <2>2. i + 1 = j + 1
    BY <1>4, <1>11, <2>1 DEF PostedTo
  <2>3. QED BY <2>1, <2>2
<1>12. ASSUME NEW i \in DOMAIN s PROVE s[i] \in Coros /\ s[i] # h
  BY <1>4, <1>5, ThunkItems
<1>13. ASSUME NEW v \in AllWorkers
       PROVE  /\ PostedTo(v, pendingThunks[v])' /\ PostedTo(v, nextThunks[v])'
              /\ \A i \in DOMAIN pendingThunks'[v] : \A j \in DOMAIN nextThunks'[v] :
                    pendingThunks'[v][i] # nextThunks'[v][j]
  <2>1. CASE v = w
    <3>1. PostedTo(w, pendingThunks[w])'
      BY <1>2, <1>4, <1>8, <1>12 DEF PostedTo
    <3>2. PostedTo(w, nextThunks[w])'
      BY <1>8, <1>9, <1>10, <1>11 DEF PostedTo
    <3>3. QED BY <1>2, <1>9, <1>10, <2>1, <3>1, <3>2
  <2>2. CASE v # w
    <3>1. /\ PostedTo(v, pendingThunks[v]) /\ PostedTo(v, nextThunks[v])
          /\ pendingThunks[v] \in Seq(Coros) /\ nextThunks[v] \in Seq(Coros)
      BY <1>1 DEF ProcessInv, ThunksPosted
    <3>2. ASSUME NEW r \in Seq(Coros), PostedTo(v, r)
          PROVE  \A i \in DOMAIN r : place'[r[i]] = "posted"
      BY <1>7, <1>8, <2>2, <3>2, ThunkItems DEF PostedTo
    <3>3. /\ \A i \in DOMAIN pendingThunks[v] : place'[pendingThunks[v][i]] = "posted"
          /\ \A i \in DOMAIN nextThunks[v] : place'[nextThunks[v][i]] = "posted"
      BY <3>1, <3>2
    <3>4. PostedTo(v, pendingThunks[v])' /\ PostedTo(v, nextThunks[v])'
      BY <1>9, <2>2, <3>1, <3>3 DEF PostedTo
    <3>5. QED BY <1>9, <2>2, <3>4 DEF ProcessInv, ThunksPosted
  <2>3. QED BY <2>1, <2>2
<1>14. QED BY <1>5, <1>7, <1>9, <1>13 DEF ThunksPosted

\* The posted thunks are taken.
LEMMA TakeKeeps ==
  ASSUME ProcessInv, NEW w \in AllWorkers, TakeThunks(w)
  PROVE  ProcessInv'
<1>1. /\ nextThunks' = [nextThunks EXCEPT ![w] = pendingThunks[w]]
      /\ pendingThunks' = [pendingThunks EXCEPT ![w] = << >>]
      /\ PidsRest /\ terminated' = terminated /\ home' = home /\ place' = place
  BY DEF TakeThunks, procVars, PidsRest
<1>2. /\ pendingThunks \in [AllWorkers -> Seq(Coros)] /\ nextThunks \in [AllWorkers -> Seq(Coros)]
  BY DEF ProcessInv, ProcessTypes
<1>3. /\ pendingThunks' \in [AllWorkers -> Seq(Coros)] /\ nextThunks' \in [AllWorkers -> Seq(Coros)]
  BY <1>1, <1>2
<1>4. ThunksPosted'
  <2>1. ASSUME NEW v \in AllWorkers
        PROVE  /\ PostedTo(v, pendingThunks[v])' /\ PostedTo(v, nextThunks[v])'
               /\ \A i \in DOMAIN pendingThunks'[v] : \A j \in DOMAIN nextThunks'[v] :
                     pendingThunks'[v][i] # nextThunks'[v][j]
    <3>1. CASE v = w
      <4>1. nextThunks'[v] = pendingThunks[v] /\ pendingThunks'[v] = << >> /\ DOMAIN pendingThunks'[v] = {}
        BY <1>1, <1>2, <3>1
      <4>2. QED BY <1>1, <4>1 DEF ProcessInv, ThunksPosted, PostedTo
    <3>2. CASE v # w
      <4>1. nextThunks'[v] = nextThunks[v] /\ pendingThunks'[v] = pendingThunks[v]
        BY <1>1, <1>2, <3>2
      <4>2. QED BY <1>1, <4>1 DEF ProcessInv, ThunksPosted, PostedTo
    <3>3. QED BY <3>1, <3>2
  <2>2. QED BY <2>1 DEF ThunksPosted
<1>5. (\A p \in Procs : PlaceSound(p)') /\ TableSound'
  BY <1>1, UnderWayKeeps DEF ProcessInv, ProcessTypes
<1>6. ProcessTypes' /\ EventsSound'
  BY <1>1, <1>3 DEF ProcessInv, ProcessTypes, EventsSound, PidsRest
<1>7. QED BY <1>4, <1>5, <1>6 DEF ProcessInv

\* A coroutine that runs goes on to another place.
LEMMA PlaceMoves ==
  ASSUME ProcessInv, PidsRest, home' = home,
         pendingThunks' = pendingThunks, nextThunks' = nextThunks,
         NEW i \in Coros, place[i] \in {"task", "waiting", "finished"},
         NEW st \in CoroPlaces, i \in Procs => st \in UnderWay,
         place' = [place EXCEPT ![i] = st],
         terminated' \in [Procs -> {"null", "unset", "set"}], EventsSound'
  PROVE  ProcessInv'
<1>1. place \in [Coros -> CoroPlaces]
  BY DEF ProcessInv, ProcessTypes
<1>2. /\ place' \in [Coros -> CoroPlaces] /\ place'[i] = st
      /\ \A j \in Coros : j # i => place'[j] = place[j]
  BY <1>1
<1>3. PostedStay
  BY <1>2 DEF PostedStay, ProcessInv, ProcessTypes
<1>4. ThunksPosted'
  BY <1>3, ThunksRest
<1>5. \A p \in Procs : place'[p] = place[p] \/ {place[p], place'[p]} \subseteq UnderWay
  BY <1>2, Coroutines DEF UnderWay
<1>6. (\A p \in Procs : PlaceSound(p)') /\ TableSound'
  BY <1>2, <1>5, UnderWayKeeps
<1>7. ProcessTypes'
  BY <1>2 DEF ProcessInv, ProcessTypes, PidsRest
<1>8. QED BY <1>4, <1>6, <1>7 DEF ProcessInv

LEMMA EventsRest ==
  ASSUME ProcessInv, pid' = pid, terminated' = terminated
  PROVE  terminated' \in [Procs -> {"null", "unset", "set"}] /\ EventsSound'
BY DEF ProcessInv, ProcessTypes, EventsSound

LEMMA CoroutineKeeps ==
  ASSUME ProcessInv, NEW i \in Coros, Finishes(i) \/ Raises(i) \/ Resumes(i)
  PROVE  ProcessInv'
<1>1. /\ PidsRest /\ home' = home /\ terminated' = terminated /\ pid' = pid
      /\ pendingThunks' = pendingThunks /\ nextThunks' = nextThunks
      /\ place[i] \in {"task", "waiting", "finished"}
      /\ \E st \in {"task", "finished"} : place' = [place EXCEPT ![i] = st]
  BY DEF Finishes, Raises, Resumes, PidsRest, threadVars
<1>2. PICK st \in {"task", "finished"} : place' = [place EXCEPT ![i] = st]
  BY <1>1
<1>3. st \in CoroPlaces /\ st \in UnderWay
  BY DEF CoroPlaces, UnderWay
<1>4. terminated' \in [Procs -> {"null", "unset", "set"}] /\ EventsSound'
  BY <1>1, EventsRest
<1>5. QED BY <1>1, <1>2, <1>3, <1>4, PlaceMoves

LEMMA AwaitsKeeps ==
  ASSUME ProcessInv, NEW i \in Coros, NEW q \in Procs, Awaits(i, q)
  PROVE  ProcessInv'
<1>1. /\ PidsRest /\ home' = home /\ pid' = pid
      /\ pendingThunks' = pendingThunks /\ nextThunks' = nextThunks
      /\ place[i] \in {"task", "waiting", "finished"}
      /\ place' = [place EXCEPT ![i] = "waiting"]
      /\ terminated' = [terminated EXCEPT ![q] = OnTermination(q)]
  BY DEF Awaits, PidsRest, threadVars
<1>2. /\ terminated \in [Procs -> {"null", "unset", "set"}] /\ pid \in [Procs -> Nat \cup {-1}]
      /\ EventsSound
  BY DEF ProcessInv, ProcessTypes
<1>3. OnTermination(q) \in {"null", "unset", "set"}
  BY <1>2 DEF OnTermination
<1>4. /\ terminated' \in [Procs -> {"null", "unset", "set"}] /\ terminated'[q] = OnTermination(q)
      /\ \A p \in Procs : p # q => terminated'[p] = terminated[p]
  BY <1>1, <1>2, <1>3
<1>5. EventsSound'
  <2>1. /\ OnTermination(q) = "set" => pid[q] = -1
        /\ pid[q] = -1 => OnTermination(q) # "unset"
    BY <1>2 DEF OnTermination, EventsSound
  <2>2. QED BY <1>1, <1>2, <1>4, <2>1 DEF EventsSound
<1>6. "waiting" \in CoroPlaces /\ "waiting" \in UnderWay
  BY DEF CoroPlaces, UnderWay
<1>7. QED BY <1>1, <1>4, <1>5, <1>6, PlaceMoves

LEMMA RootDoneKeeps == ASSUME ProcessInv, RootDone PROVE ProcessInv'
<1>1. /\ PidsRest /\ home' = home /\ terminated' = terminated /\ pid' = pid
      /\ pendingThunks' = pendingThunks /\ nextThunks' = nextThunks
      /\ place[Root] \in {"task", "waiting", "finished"}
      /\ place' = [place EXCEPT ![Root] = "ended"]
  BY DEF RootDone, PidsRest, threadVars
<1>2. terminated' \in [Procs -> {"null", "unset", "set"}] /\ EventsSound'
  BY <1>1, EventsRest
<1>3. "ended" \in CoroPlaces /\ Root \in Coros /\ Root \notin Procs
  BY Coroutines DEF CoroPlaces
<1>4. QED BY <1>1, <1>2, <1>3, PlaceMoves

LEMMA FiberKeeps ==
  ASSUME ClientInv, ProcessInv, NEW c \in Clients, CreateFiber(c)
  PROVE  ProcessInv'
<1>1. PICK p \in Procs, w \in AllWorkers : p = call[c][2] /\ w = call[c][3]
  BY DEF ClientInv, ClientSound, CreateFiber, Inside
<1>2. /\ PidsRest /\ terminated' = terminated /\ pid' = pid /\ place' = place
      /\ pendingThunks' = pendingThunks /\ nextThunks' = nextThunks
      /\ home' = [home EXCEPT ![p] = IF @ = NoOne THEN w ELSE @]
  BY <1>1 DEF CreateFiber, PidsRest, threadVars
<1>3. /\ home \in [Coros -> AllWorkers \cup {NoOne}] /\ home[Root] = InitWorker
      /\ place \in [Coros -> CoroPlaces] /\ p \in Coros /\ p # Root /\ Root \in Coros
  BY Coroutines DEF ProcessInv, ProcessTypes
<1>4. /\ home' \in [Coros -> AllWorkers \cup {NoOne}] /\ home'[Root] = InitWorker
      /\ \A i \in Coros : home[i] # NoOne => home'[i] = home[i]
  BY <1>2, <1>3
<1>5. PostedStay
  BY <1>2, <1>3, <1>4 DEF PostedStay
<1>6. ThunksPosted'
  BY <1>2, <1>5, ThunksRest
<1>7. (\A q \in Procs : PlaceSound(q)') /\ TableSound'
  BY <1>2, <1>3, UnderWayKeeps
<1>8. terminated' \in [Procs -> {"null", "unset", "set"}] /\ EventsSound'
  BY <1>2, EventsRest
<1>9. ProcessTypes'
  BY <1>2, <1>4, <1>8 DEF ProcessInv, ProcessTypes, PidsRest
<1>10. QED BY <1>6, <1>7, <1>8, <1>9 DEF ProcessInv

\* AllocateProcess gives a new process the next pid.
LEMMA LaunchKeeps ==
  ASSUME ClientInv, ProcessInv, NEW c \in Clients, Launch(c)
  PROVE  ProcessInv'
<1>1. PICK p \in Procs : p = call[c][2] /\ home[p] # NoOne
  BY DEF ClientInv, ClientSound, Launch, Inside
<1>2. /\ pid[p] = 0 /\ pid' = [pid EXCEPT ![p] = nextPid] /\ table' = table \cup {<<nextPid, p>>}
      /\ place' = [place EXCEPT ![p] = "posted"] /\ nextPid' = nextPid + 1
      /\ pendingThunks' = [pendingThunks EXCEPT ![home[p]] = Append(@, p)]
      /\ nextThunks' = nextThunks /\ leaving' = leaving /\ terminated' = terminated /\ home' = home
  BY <1>1 DEF Launch, threadVars
<1>3. /\ home \in [Coros -> AllWorkers \cup {NoOne}] /\ place \in [Coros -> CoroPlaces]
      /\ pid \in [Procs -> Nat \cup {-1}] /\ leaving \in [Procs -> Nat] /\ nextPid \in Nat \ {0}
      /\ p \in Coros
  BY Coroutines DEF ProcessInv, ProcessTypes
<1>4. PICK w \in AllWorkers : w = home[p]
  BY <1>1, <1>3
<1>5. place[p] = "new" /\ leaving[p] = 0
  <2>1. PlaceSound(p) /\ place[p] \in CoroPlaces
    BY <1>3 DEF ProcessInv
  <2>2. QED BY <1>2, <2>1 DEF PlaceSound, CoroPlaces, UnderWay
<1>6. pendingThunks' \in [AllWorkers -> Seq(Coros)] /\ ThunksPosted'
  <2>1. pendingThunks' = [pendingThunks EXCEPT ![w] = Append(@, p)]
    BY <1>2, <1>4
  <2>2. QED BY <1>2, <1>3, <1>4, <1>5, <2>1, PostKeeps
<1>7. /\ pid' \in [Procs -> Nat \cup {-1}] /\ pid'[p] = nextPid
      /\ \A q \in Procs : q # p => pid'[q] = pid[q]
      /\ place' \in [Coros -> CoroPlaces] /\ place'[p] = "posted"
      /\ \A q \in Coros : q # p => place'[q] = place[q]
  BY <1>2, <1>3 DEF CoroPlaces, UnderWay
<1>8. \A q \in Procs : PlaceSound(q)'
  <2>1. ASSUME NEW q \in Procs PROVE PlaceSound(q)'
    <3>1. CASE q = p
      BY <1>2, <1>3, <1>5, <1>7, <3>1 DEF PlaceSound, UnderWay
    <3>2. CASE q # p
      <4>1. pid'[q] = pid[q] /\ place'[q] = place[q] /\ leaving'[q] = leaving[q]
        BY <1>2, <1>7, <3>2, Coroutines
      <4>2. QED BY <4>1 DEF ProcessInv, PlaceSound
    <3>3. QED BY <3>1, <3>2
  <2>2. QED BY <2>1
<1>9. /\ Number(p) = 0 /\ Number(p)' = nextPid
      /\ \A q \in Procs : q # p => Number(q)' = Number(q)
      /\ \A q \in Procs : Number(q) \in Nat /\ Number(q) < nextPid
  BY <1>2, <1>3, <1>5, <1>7 DEF Number, ProcessInv, TableSound
<1>10. TableSound'
  <2>1. ASSUME NEW q \in Procs, NEW r \in Procs, Number(q)' = Number(r)', Number(q)' > 0
        PROVE  q = r
    BY <1>9, <2>1 DEF ProcessInv, TableSound
  <2>2. table' = {<<Number(q)', q>> : q \in {r \in Procs : Number(r)' > 0}}
    <3>1. table = {<<Number(q), q>> : q \in {r \in Procs : Number(r) > 0}}
      BY DEF ProcessInv, TableSound
    <3>2. \A q \in Procs : Number(q)' > 0 <=> Number(q) > 0 \/ q = p
      BY <1>3, <1>9
    <3>3. ASSUME NEW e
          PROVE  e \in table' <=> \E q \in Procs : Number(q)' > 0 /\ e = <<Number(q)', q>>
      <4>1. e \in table <=> \E q \in Procs : Number(q) > 0 /\ e = <<Number(q), q>>
        BY <3>1
      <4>2. e \in table' <=> e \in table \/ e = <<nextPid, p>>
        BY <1>2
      <4>3. QED BY <1>9, <3>2, <4>1, <4>2
    <3>4. PICK T : T = {<<Number(q)', q>> : q \in {r \in Procs : Number(r)' > 0}}
      OBVIOUS
    <3>5. \A e : e \in T <=> \E q \in Procs : Number(q)' > 0 /\ e = <<Number(q)', q>>
      BY <3>4
    <3>6. \A e : e \in table' <=> e \in T
      BY <3>3, <3>5
    <3>7. table' = T
      BY <3>6
    <3>8. QED BY <3>4, <3>7
  <2>3. \A q \in Procs : Number(q)' < nextPid'
    <3>1. ASSUME NEW q \in Procs PROVE Number(q)' < nextPid'
      <4>1. nextPid' = nextPid + 1 /\ nextPid \in Nat
        BY <1>2, <1>3
      <4>2. Number(q)' = nextPid \/ (Number(q)' \in Nat /\ Number(q)' < nextPid)
        BY <1>9
      <4>3. QED BY <4>1, <4>2
    <3>2. QED BY <3>1
  <2>4. QED BY <2>1, <2>2, <2>3 DEF TableSound
<1>11. EventsSound'
  BY <1>2, <1>3, <1>7 DEF ProcessInv, EventsSound
<1>12. ProcessTypes'
  BY <1>2, <1>3, <1>6, <1>7 DEF ProcessInv, ProcessTypes
<1>13. QED BY <1>6, <1>8, <1>10, <1>11, <1>12 DEF ProcessInv

LEMMA ForegroundKeeps ==
  ASSUME ProcessInv, NEW c \in Clients, RunInForeground(c)
  PROVE  ProcessInv'
<1>1. CASE place[Root] # "new"
  <2>1. procVars' = procVars /\ pendingThunks' = pendingThunks /\ nextThunks' = nextThunks
    BY <1>1 DEF RunInForeground, procVars
  <2>2. QED BY <2>1, ProcessesRest
<1>2. CASE place[Root] = "new"
  <2>1. /\ pendingThunks' = [pendingThunks EXCEPT ![InitWorker] = Append(@, Root)]
        /\ place' = [place EXCEPT ![Root] = "posted"] /\ home' = home /\ nextThunks' = nextThunks
        /\ PidsRest /\ terminated' = terminated /\ pid' = pid
    BY <1>2 DEF RunInForeground, PidsRest
  <2>2. /\ InitWorker \in AllWorkers /\ Root \in Coros /\ home[Root] = InitWorker
        /\ place \in [Coros -> CoroPlaces]
    BY Coroutines DEF ProcessInv, ProcessTypes
  <2>3. pendingThunks' \in [AllWorkers -> Seq(Coros)] /\ ThunksPosted'
    BY <1>2, <2>1, <2>2, PostKeeps
  <2>4. place' \in [Coros -> CoroPlaces] /\ \A p \in Procs : place'[p] = place[p]
    BY <2>1, <2>2, Coroutines DEF CoroPlaces, UnderWay
  <2>5. (\A p \in Procs : PlaceSound(p)') /\ TableSound'
    BY <2>1, <2>4, UnderWayKeeps
  <2>6. terminated' \in [Procs -> {"null", "unset", "set"}] /\ EventsSound'
    BY <2>1, EventsRest
  <2>7. ProcessTypes'
    BY <2>1, <2>3, <2>4, <2>6 DEF ProcessInv, ProcessTypes, PidsRest
  <2>8. QED BY <2>3, <2>5, <2>6, <2>7 DEF ProcessInv
<1>3. QED BY <1>1, <1>2

\* What the pids and the table say, without where the thunks are.
Tracked ==
    /\ nextPid \in Nat \ {0}
    /\ pid \in [Procs -> Nat \cup {-1}] /\ leaving \in [Procs -> Nat]
    /\ terminated \in [Procs -> {"null", "unset", "set"}]
    /\ place \in [Coros -> CoroPlaces]
    /\ (\A p \in Procs : PlaceSound(p)) /\ TableSound /\ EventsSound

\* The first half of Terminate keeps the process in the table.
LEMMA TerminatingTracked ==
  ASSUME ProcessInv, NEW w, NEW p \in Procs, place[p] \in UnderWay, Terminating(w, p),
         nextPid' = nextPid, table' = table
  PROVE  Tracked'
<1>1. /\ pid \in [Procs -> Nat \cup {-1}] /\ leaving \in [Procs -> Nat] /\ nextPid \in Nat \ {0}
      /\ terminated \in [Procs -> {"null", "unset", "set"}] /\ place \in [Coros -> CoroPlaces]
      /\ p \in Coros
  BY Coroutines DEF ProcessInv, ProcessTypes
<1>2. pid[p] > 0 /\ leaving[p] = 0 /\ pid[p] \in Nat
  <2>1. PlaceSound(p)
    BY DEF ProcessInv
  <2>2. QED BY <1>1, <2>1 DEF PlaceSound
<1>3. /\ pid' \in [Procs -> Nat \cup {-1}] /\ pid'[p] = -1
      /\ \A q \in Procs : q # p => pid'[q] = pid[q]
      /\ leaving' \in [Procs -> Nat] /\ leaving'[p] = pid[p]
      /\ \A q \in Procs : q # p => leaving'[q] = leaving[q]
  BY <1>1, <1>2 DEF Terminating
<1>4. /\ place' \in [Coros -> CoroPlaces] /\ place'[p] = "terminating"
      /\ \A q \in Procs : q # p => place'[q] = place[q]
  BY <1>1, Coroutines DEF Terminating, CoroPlaces
<1>5. /\ terminated' \in [Procs -> {"null", "unset", "set"}]
      /\ terminated'[p] # "unset" /\ \A q \in Procs : q # p => terminated'[q] = terminated[q]
  BY <1>1 DEF Terminating
<1>6. ASSUME NEW q \in Procs PROVE PlaceSound(q)'
  <2>1. CASE q = p
    BY <1>2, <1>3, <1>4, <2>1 DEF PlaceSound, UnderWay
  <2>2. CASE q # p
    BY <1>3, <1>4, <2>2 DEF ProcessInv, PlaceSound
  <2>3. QED BY <2>1, <2>2
<1>7. \A q \in Procs : Number(q)' = Number(q)
  BY <1>2, <1>3 DEF Number
<1>8. TableSound'
  <2>1. table' = {<<Number(q)', q>> : q \in {r \in Procs : Number(r)' > 0}}
    BY <1>7 DEF ProcessInv, TableSound
  <2>2. QED BY <1>7, <2>1 DEF ProcessInv, TableSound
<1>9. EventsSound'
  BY <1>3, <1>5 DEF ProcessInv, EventsSound
<1>10. QED BY <1>1, <1>3, <1>4, <1>5, <1>6, <1>8, <1>9 DEF Tracked

LEMMA RunOnWorkerKeeps ==
  ASSUME ProcessInv, NEW w \in AllWorkers, RunOnWorker(w)
  PROVE  ProcessInv'
<1>1. PICK h : h = Head(nextThunks[w])
  OBVIOUS
<1>2. /\ nextThunks[w] # << >> /\ nextThunks' = [nextThunks EXCEPT ![w] = Tail(@)]
      /\ pendingThunks' = pendingThunks /\ home' = home /\ nextPid' = nextPid /\ table' = table
  BY DEF RunOnWorker
<1>3. CASE place' = [place EXCEPT ![h] = "task"] /\ UNCHANGED <<gilHolder, pid, leaving, terminated>>
  <2>1. "task" \in CoroPlaces /\ "task" \in UnderWay /\ "posted" \in UnderWay
    BY DEF CoroPlaces, UnderWay
  <2>2. /\ h \in Coros /\ place[h] = "posted" /\ home[h] = w
        /\ nextThunks' \in [AllWorkers -> Seq(Coros)] /\ ThunksPosted'
    BY <1>1, <1>2, <1>3, <2>1, HeadRuns
  <2>3. /\ place' \in [Coros -> CoroPlaces]
        /\ \A p \in Procs : place'[p] = place[p] \/ {place[p], place'[p]} \subseteq UnderWay
    BY <1>3, <2>1, <2>2, Coroutines DEF ProcessInv, ProcessTypes
  <2>4. PidsRest /\ pid' = pid /\ terminated' = terminated
    BY <1>2, <1>3 DEF PidsRest
  <2>5. (\A p \in Procs : PlaceSound(p)') /\ TableSound'
    BY <2>3, <2>4, UnderWayKeeps
  <2>6. terminated' \in [Procs -> {"null", "unset", "set"}] /\ EventsSound'
    BY <2>4, EventsRest
  <2>7. ProcessTypes'
    BY <1>2, <2>2, <2>3, <2>4, <2>6 DEF ProcessInv, ProcessTypes, PidsRest
  <2>8. QED BY <2>2, <2>5, <2>6, <2>7 DEF ProcessInv
<1>4. CASE h \in Procs /\ Terminating(w, h)
  <2>1. place' = [place EXCEPT ![h] = "terminating"] /\ "terminating" \in CoroPlaces
    BY <1>4 DEF Terminating, CoroPlaces
  <2>2. /\ h \in Coros /\ place[h] = "posted" /\ home[h] = w
        /\ nextThunks' \in [AllWorkers -> Seq(Coros)] /\ ThunksPosted'
    BY <1>1, <1>2, <2>1, HeadRuns
  <2>3. place[h] \in UnderWay
    BY <2>2 DEF UnderWay
  <2>4. Tracked'
    BY <1>2, <1>4, <2>3, TerminatingTracked
  <2>5. QED BY <1>2, <2>2, <2>4 DEF ProcessInv, ProcessTypes, Tracked
<1>5. \/ place' = [place EXCEPT ![h] = "task"] /\ UNCHANGED <<gilHolder, pid, leaving, terminated>>
      \/ h \in Procs /\ Terminating(w, h)
  BY <1>1 DEF RunOnWorker
<1>6. QED BY <1>3, <1>4, <1>5

LEMMA DoneCallbackKeeps ==
  ASSUME ProcessInv, NEW p \in Procs, DoneCallback(p)
  PROVE  ProcessInv'
<1>1. /\ Terminating(home[p], p) /\ place[p] = "finished" /\ home' = home
      /\ pendingThunks' = pendingThunks /\ nextThunks' = nextThunks
      /\ nextPid' = nextPid /\ table' = table
  BY DEF DoneCallback, threadVars
<1>2. Tracked'
  <2>1. place[p] \in UnderWay
    BY <1>1 DEF UnderWay
  <2>2. QED BY <1>1, <2>1, TerminatingTracked
<1>3. PostedStay
  <2>1. place' = [place EXCEPT ![p] = "terminating"] /\ place' \in [Coros -> CoroPlaces]
    BY <1>1, <1>2 DEF Terminating, Tracked
  <2>2. QED BY <1>1, <2>1 DEF PostedStay, ProcessInv, ProcessTypes
<1>4. ThunksPosted'
  BY <1>1, <1>3, ThunksRest
<1>5. QED BY <1>1, <1>2, <1>4 DEF ProcessInv, ProcessTypes, Tracked

\* The second half takes it out, and nobody else.
LEMMA DeallocateKeeps ==
  ASSUME ProcessInv, NEW p \in Procs, DeallocateProcess(p)
  PROVE  ProcessInv'
<1>1. /\ place[p] = "terminating" /\ table' = {e \in table : e[1] # leaving[p]}
      /\ leaving' = [leaving EXCEPT ![p] = 0] /\ pid' = pid /\ nextPid' = nextPid
      /\ terminated' = terminated /\ home' = home
      /\ pendingThunks' = pendingThunks /\ nextThunks' = nextThunks
  BY DEF DeallocateProcess
<1>2. /\ pid \in [Procs -> Nat \cup {-1}] /\ leaving \in [Procs -> Nat]
      /\ place \in [Coros -> CoroPlaces] /\ p \in Coros
  BY Coroutines DEF ProcessInv, ProcessTypes
<1>3. pid[p] = -1 /\ leaving[p] > 0 /\ leaving[p] \in Nat
  <2>1. PlaceSound(p)
    BY DEF ProcessInv
  <2>2. QED BY <1>1, <1>2, <2>1 DEF PlaceSound
<1>4. /\ leaving' \in [Procs -> Nat] /\ leaving'[p] = 0
      /\ \A q \in Procs : q # p => leaving'[q] = leaving[q]
  BY <1>1, <1>2
<1>5. /\ place' \in [Coros -> CoroPlaces] /\ place'[p] = "ended"
      /\ \A i \in Coros : place[i] = "posted" => place'[i] = "posted"
      /\ \A i \in Coros : i # p => \/ place'[i] = place[i]
                                   \/ {place[i], place'[i]} \subseteq UnderWay
  <2>1. CASE place' = [place EXCEPT ![p] = "ended"]
    BY <1>1, <1>2, <2>1 DEF CoroPlaces
  <2>2. CASE \E hit \in SUBSET {i \in Coros : home[i] = home[p] /\ place[i] = "waiting"} :
                place' = [i \in Coros |->
                      IF i = p THEN "ended"
                      ELSE IF i \in hit THEN "task"
                      ELSE IF home[i] = home[p] /\ place[i] \in {"task", "waiting", "finished"}
                      THEN "lost" ELSE place[i]]
    <3>1. PICK hit \in SUBSET {i \in Coros : home[i] = home[p] /\ place[i] = "waiting"} :
                place' = [i \in Coros |->
                      IF i = p THEN "ended"
                      ELSE IF i \in hit THEN "task"
                      ELSE IF home[i] = home[p] /\ place[i] \in {"task", "waiting", "finished"}
                      THEN "lost" ELSE place[i]]
      BY <2>2
    <3>2. ASSUME NEW i \in Coros, i # p
          PROVE  /\ place'[i] \in CoroPlaces /\ (place[i] = "posted" => place'[i] = "posted")
                 /\ place'[i] = place[i] \/ {place[i], place'[i]} \subseteq UnderWay
      <4>1. CASE i \in hit
        BY <3>1, <3>2, <4>1 DEF CoroPlaces, UnderWay
      <4>2. CASE i \notin hit /\ home[i] = home[p] /\ place[i] \in {"task", "waiting", "finished"}
        BY <3>1, <3>2, <4>2 DEF CoroPlaces, UnderWay
      <4>3. CASE i \notin hit /\ ~ (home[i] = home[p] /\ place[i] \in {"task", "waiting", "finished"})
        BY <1>2, <3>1, <3>2, <4>3
      <4>4. QED BY <4>1, <4>2, <4>3
    <3>3. place'[p] = "ended" /\ "ended" \in CoroPlaces
      BY <1>2, <3>1 DEF CoroPlaces
    <3>4. place' \in [Coros -> CoroPlaces]
      BY <3>1, <3>2, <3>3
    <3>5. QED BY <1>1, <3>2, <3>3, <3>4
  <2>3. QED BY <2>1, <2>2 DEF DeallocateProcess
<1>6. ThunksPosted'
  <2>1. PostedStay
    BY <1>1, <1>5 DEF PostedStay, ProcessInv, ProcessTypes
  <2>2. QED BY <1>1, <2>1, ThunksRest
<1>7. ASSUME NEW q \in Procs PROVE PlaceSound(q)'
  <2>1. CASE q = p
    BY <1>1, <1>3, <1>4, <1>5, <2>1 DEF PlaceSound, UnderWay
  <2>2. CASE q # p
    <3>1. /\ PlaceSound(q) /\ pid'[q] = pid[q] /\ leaving'[q] = leaving[q]
          /\ place'[q] = place[q] \/ {place[q], place'[q]} \subseteq UnderWay
      BY <1>1, <1>4, <1>5, <2>2, Coroutines DEF ProcessInv
    <3>2. QED BY <3>1 DEF PlaceSound, UnderWay
  <2>3. QED BY <2>1, <2>2
<1>8. /\ Number(p) = leaving[p] /\ Number(p)' = 0
      /\ \A q \in Procs : q # p => Number(q)' = Number(q)
  BY <1>1, <1>3, <1>4 DEF Number
<1>9. TableSound'
  <2>1. \A q, r \in Procs : Number(q)' = Number(r)' /\ Number(q)' > 0 => q = r
    BY <1>8 DEF ProcessInv, TableSound
  <2>2. \A q \in Procs : Number(q)' < nextPid'
    <3>1. \A q \in Procs : Number(q) < nextPid
      BY DEF ProcessInv, TableSound
    <3>2. 0 < nextPid /\ nextPid' = nextPid
      BY <1>1 DEF ProcessInv, ProcessTypes
    <3>3. QED BY <1>8, <3>1, <3>2
  <2>3. PICK T : T = {<<Number(q)', q>> : q \in {r \in Procs : Number(r)' > 0}}
    OBVIOUS
  <2>4. ASSUME NEW e PROVE e \in table' <=> e \in T
    <3>1. e \in T <=> \E q \in Procs : Number(q)' > 0 /\ e = <<Number(q)', q>>
      BY <2>3
    <3>2. e \in table <=> \E q \in Procs : Number(q) > 0 /\ e = <<Number(q), q>>
      BY DEF ProcessInv, TableSound
    <3>3. e \in table' <=> e \in table /\ e[1] # Number(p)
      BY <1>1, <1>8
    <3>4. \A q \in Procs : Number(q) > 0 /\ Number(q) = Number(p) => q = p
      BY DEF ProcessInv, TableSound
    <3>5. ASSUME e \in table' PROVE e \in T
      <4>1. PICK q \in Procs : Number(q) > 0 /\ e = <<Number(q), q>> /\ e[1] # Number(p)
        BY <3>2, <3>3, <3>5
      <4>2. q # p /\ Number(q)' = Number(q)
        BY <1>8, <4>1
      <4>3. QED BY <3>1, <4>1, <4>2
    <3>6. ASSUME e \in T PROVE e \in table'
      <4>1. PICK q \in Procs : Number(q)' > 0 /\ e = <<Number(q)', q>>
        BY <3>1, <3>6
      <4>2. q # p /\ Number(q)' = Number(q)
        BY <1>8, <4>1
      <4>3. Number(q) > 0 /\ e = <<Number(q), q>> /\ e[1] = Number(q) /\ Number(q) # Number(p)
        BY <3>4, <4>1, <4>2
      <4>4. QED BY <3>2, <3>3, <4>3
    <3>7. QED BY <3>5, <3>6
  <2>5. table' = T
    BY <2>4
  <2>6. QED BY <2>1, <2>2, <2>3, <2>5 DEF TableSound
<1>10. EventsSound'
  BY <1>1 DEF ProcessInv, EventsSound
<1>11. ProcessTypes'
  BY <1>1, <1>4, <1>5 DEF ProcessInv, ProcessTypes
<1>12. QED BY <1>6, <1>7, <1>9, <1>10, <1>11 DEF ProcessInv

LEMMA ProcessStep == ClientInv /\ ProcessInv /\ [SystemNext]_systemVars => ProcessInv'
<1> SUFFICES ASSUME ClientInv, ProcessInv, [SystemNext]_systemVars PROVE ProcessInv'
  OBVIOUS
<1> DEFINE Rests == procVars' = procVars /\ pendingThunks' = pendingThunks /\ nextThunks' = nextThunks
<1>1. Rests => ProcessInv'
  BY ProcessesRest
<1>2. ASSUME NEW c \in Clients, NEW k, Call(c, k) PROVE Rests
  BY <1>2 DEF Call, threadVars
<1>3. ASSUME NEW c \in Clients, Throws(c) \/ CreateWorker(c) \/ StartWorker(c) PROVE Rests
  BY <1>3 DEF Throws, CreateWorker, StartWorker, threadVars
<1>4. ASSUME NEW c \in Clients, InitWorkerBegins(c) \/ InitWorkerEnds(c) PROVE Rests
  BY <1>4 DEF InitWorkerBegins, InitWorkerEnds
<1>5. ASSUME NEW c \in Clients, Joined(c) \/ Interrupt(c) \/ Shutdown(c) \/ WorkerAwaited(c)
      PROVE  Rests
  BY <1>5 DEF Joined, Interrupt, Shutdown, WorkerAwaited, threadVars
<1>6. ASSUME NEW w \in AllWorkers, ThreadStarts(w) \/ ThreadStops(w) \/ LoopExits(w) PROVE Rests
  BY <1>6 DEF ThreadStarts, ThreadStops, LoopExits
<1>7. UNCHANGED systemVars => Rests
  BY DEF systemVars, procVars
<1> HIDE DEF Rests
<1>8. CASE \E c \in Clients :
             \/ \E k \in Requests : Call(c, k)
             \/ Throws(c)
             \/ CreateWorker(c) \/ StartWorker(c)
             \/ InitWorkerBegins(c) \/ InitWorkerEnds(c)
             \/ CreateFiber(c) \/ Launch(c)
             \/ RunInForeground(c) \/ Joined(c) \/ Interrupt(c)
             \/ Shutdown(c) \/ WorkerAwaited(c)
  BY <1>1, <1>2, <1>3, <1>4, <1>5, <1>8, FiberKeeps, LaunchKeeps, ForegroundKeeps
<1>9. CASE \E w \in AllWorkers :
             \/ ThreadStarts(w) \/ LoopExits(w) \/ ThreadStops(w)
             \/ TakeThunks(w) \/ RunOnWorker(w)
  BY <1>1, <1>6, <1>9, TakeKeeps, RunOnWorkerKeeps
<1>10. CASE \E i \in Coros : \/ Finishes(i) \/ Raises(i) \/ Resumes(i)
                             \/ \E q \in Procs : Awaits(i, q)
  BY <1>10, CoroutineKeeps, AwaitsKeeps
<1>11. CASE \E p \in Procs : DoneCallback(p) \/ DeallocateProcess(p)
  BY <1>11, DoneCallbackKeeps, DeallocateKeeps
<1>12. CASE RootDone
  BY <1>12, RootDoneKeeps
<1>13. QED BY <1>1, <1>7, <1>8, <1>9, <1>10, <1>11, <1>12 DEF SystemNext

LEMMA SystemStarts == SystemInit => ClientInv /\ ProcessInv
<1> SUFFICES ASSUME SystemInit PROVE ClientInv /\ ProcessInv
  OBVIOUS
<1>1. /\ workers = << >> /\ workers \in Seq(AllWorkers) /\ ~ clean
      /\ workerState = [w \in AllWorkers |-> "absent"] /\ \A w \in Owned : w \in AllWorkers
      /\ call = [c \in Clients |-> Idle]
      /\ home = [i \in Coros |-> IF i = Root THEN InitWorker ELSE NoOne]
      /\ place = [i \in Coros |-> "new"]
      /\ pid = [p \in Procs |-> 0] /\ leaving = [p \in Procs |-> 0] /\ table = {} /\ nextPid = 1
      /\ terminated = [p \in Procs |-> "null"]
      /\ pendingThunks = [w \in AllWorkers |-> << >>] /\ nextThunks = [w \in AllWorkers |-> << >>]
  BY DEF SystemInit, AllWorkers
<1>2. ClientTypes
  BY <1>1, Coroutines DEF ClientTypes, WorkerPlaces
<1>3. \A c \in Clients : call[c][1] = "idle"
  BY <1>1 DEF Idle
<1>4. ClientInv
  BY <1>1, <1>2, <1>3 DEF ClientInv, ClientSound, OneInitializer, Listed, WaitSound, CleanSound
<1>5. ProcessTypes
  BY <1>1, Coroutines DEF ProcessTypes, CoroPlaces
<1>6. \A p \in Procs : /\ place[p] = "new" /\ pid[p] = 0 /\ leaving[p] = 0 /\ Number(p) = 0
                       /\ terminated[p] = "null"
  BY <1>1, Coroutines DEF Number
<1>7. (\A p \in Procs : PlaceSound(p)) /\ TableSound /\ EventsSound
  BY <1>1, <1>6 DEF PlaceSound, UnderWay, TableSound, EventsSound
<1>8. ThunksPosted
  BY <1>1 DEF ThunksPosted, PostedTo
<1>9. QED BY <1>4, <1>5, <1>7, <1>8 DEF ProcessInv

\* The table, the pids and the events, from where the processes are.
LEMMA TrackedProcesses == ProcessInv => ProcessesTracked
<1> SUFFICES ASSUME ProcessInv PROVE ProcessesTracked
  OBVIOUS
<1>1. pid \in [Procs -> Nat \cup {-1}] /\ leaving \in [Procs -> Nat] /\ place \in [Procs \cup {Root} -> CoroPlaces]
  BY DEF ProcessInv, ProcessTypes, Coros
<1>2. \A e : e \in table <=> \E q \in Procs : Number(q) > 0 /\ e = <<Number(q), q>>
  BY DEF ProcessInv, TableSound
<1>3. ASSUME NEW p \in Procs
      PROVE  {e[1] : e \in {f \in table : f[2] = p}} = {n \in {pid[p], leaving[p]} : n > 0}
  <2>1. /\ pid[p] \in Nat \cup {-1} /\ leaving[p] \in Nat
        /\ pid[p] > 0 => leaving[p] = 0
    BY <1>1 DEF ProcessInv, PlaceSound, CoroPlaces
  <2>2. \A n : n \in {pid[p], leaving[p]} /\ n > 0 <=> n = Number(p) /\ Number(p) > 0
    BY <2>1 DEF Number
  <2>3. ASSUME NEW n
        PROVE  n \in {e[1] : e \in {f \in table : f[2] = p}} <=> n = Number(p) /\ Number(p) > 0
    <3>1. ASSUME NEW e \in table, e[2] = p, n = e[1] PROVE n = Number(p) /\ Number(p) > 0
      <4>1. PICK q \in Procs : Number(q) > 0 /\ e = <<Number(q), q>>
        BY <1>2, <3>1
      <4>2. e[1] = Number(q) /\ e[2] = q
        BY <4>1
      <4>3. QED BY <3>1, <4>1, <4>2
    <3>2. ASSUME n = Number(p), Number(p) > 0 PROVE \E e \in table : e[2] = p /\ n = e[1]
      <4>1. PICK e : e = <<Number(p), p>>
        OBVIOUS
      <4>2. e \in table /\ e[1] = Number(p) /\ e[2] = p
        BY <1>2, <3>2, <4>1
      <4>3. QED BY <3>2, <4>2
    <3>3. QED BY <3>1, <3>2
  <2>4. QED BY <2>2, <2>3
<1>4. \A e, f \in table : e[1] = f[1] => e = f
  BY <1>2 DEF ProcessInv, TableSound
<1>5. QED BY <1>3, <1>4 DEF ProcessInv, EventsSound, ProcessesTracked

\* process.cc, system.cc 66-89 and 234-245: for any number of Python threads, workers
\* and processes, the table of processes agrees with their pids and with both
\* halves of Terminate, pids are never shared, a termination event is set exactly
\* if the process has terminated, and after a Shutdown that went through all its
\* steps no worker with a thread of its own is left or will be started.
THEOREM SystemIsSound == SystemSpec => []SystemSound
<1>1. ClientInv /\ ProcessInv => SystemSound
  BY TrackedProcesses DEF ClientInv, CleanSound, SystemSound, ShutdownIsFinal
<1>2. ClientInv /\ ProcessInv /\ [SystemNext]_systemVars => (ClientInv /\ ProcessInv)'
  BY ClientStep, ProcessStep
<1>3. QED BY <1>1, <1>2, SystemStarts, PTL DEF SystemSpec
==============================================================================
