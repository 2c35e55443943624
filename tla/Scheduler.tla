------------------------------ MODULE Scheduler ------------------------------
(***************************************************************************)
(* The scheduling of one fiber: the accounts and timelines of Scheduler    *)
(* (local/scheduler.cc), the transfers of array::storage that go through   *)
(* it (array/storage.cc), program invocations with coarse fences           *)
(* (local/program.cc), the contexts that isolate them (ProgramIsolate) and *)
(* the wait for a device (ScopedDevice::OnSync).                           *)
(*                                                                         *)
(* The fiber's worker issues operations one after the other.  What they    *)
(* submit is executed by the device in any order that the semaphores       *)
(* allow: a submission waits for timepoints of the timelines and signals   *)
(* one of its own.                                                         *)
(***************************************************************************)
EXTENDS Integers, Sequences, FiniteSets, SequencesExt, FiniteSetsExt

CONSTANTS Queues,           \* queue ordinals of the fiber's device: its accounts
          Allocated,        \* buffers from allocate_device and allocate_host
          ResultBuffers,    \* buffers that invocations return
          HomeOf,           \* the queue of each allocated buffer
          Isolations,       \* the isolations that invocations ask for
          Arguments,        \* the sets of buffers that are passed to a function
          MaxFaults,        \* bound: commands, forks and functions that fail
          MaxOps,           \* bound: operations issued
          MaxSyncs          \* bound: waits for a device

ASSUME SchedulerAssumption ==
          /\ Queues \subseteq Nat /\ Queues # {} /\ IsFiniteSet(Queues)
          /\ Allocated \cap ResultBuffers = {}
          /\ HomeOf \in [Allocated -> Queues]
          /\ Isolations \subseteq {"PER_FIBER", "PER_CALL"}
          /\ Arguments \subseteq (SUBSET (Allocated \cup ResultBuffers)) \ {{}}
          /\ \A args \in Arguments : IsFiniteSet(args)
          /\ {MaxFaults, MaxOps, MaxSyncs} \subseteq Nat

VARIABLES idle,             \* per account: idle_timepoint_
          active,           \* per account: active_deps_ of the active command buffer, if any
          sem,              \* per account: the payload of its semaphore
          home,             \* per buffer: the queue of its storage, or None
          mutation,         \* per buffer: the mutation barrier, a fence
          use,              \* per buffer: the use barrier, a fence
          ops,              \* what was issued, in the order of the worker
          calls,            \* invocations, by index: arguments, context, state
          forks,            \* fork_contexts of the program's isolate
          isolate,          \* whether the fiber has an isolate for the program
          contexts,         \* contexts forked so far
          syncs,            \* the futures of OnSync
          failures          \* what has failed so far

timeline == <<idle, active, sem>>
barriers == <<home, mutation, use>>
isolation == <<forks, isolate, contexts>>
vars == <<timeline, barriers, ops, calls, isolation, syncs, failures>>

None == -1
Buffers == Allocated \cup ResultBuffers

----------------------------------------------------------------------------
(***************************************************************************)
(* Fences: the timepoint to wait for on each timeline.  0, the value that  *)
(* a semaphore is made with, is no wait.                                   *)
(***************************************************************************)
Fences == [Queues -> Nat]
NoFence == [q \in Queues |-> 0]
At(q, t) == [NoFence EXCEPT ![q] = t]
Join(f, g) == [q \in Queues |-> Max({f[q], g[q]})]
Reached(f) == \A q \in Queues : f[q] <= sem[q]

Op == [reads : SUBSET Buffers, writes : SUBSET Buffers, waits : Fences,
       account : Queues, time : Nat,
       state : {"held", "queued", "done", "lost"}]

Submission(R, W, waits, q, t, st) ==
    [reads |-> R, writes |-> W, waits |-> waits, account |-> q, time |-> t, state |-> st]

Init == /\ idle = NoFence /\ sem = NoFence
        /\ active = [q \in Queues |-> {}]
        /\ home = [b \in Buffers |-> IF b \in Allocated THEN HomeOf[b] ELSE None]
        /\ mutation = [b \in Buffers |-> NoFence]
        /\ use = [b \in Buffers |-> NoFence]
        /\ ops = << >> /\ calls = << >> /\ syncs = {}
        /\ forks = << >> /\ isolate = FALSE /\ contexts = 0 /\ failures = 0

Fault == failures < MaxFaults /\ failures' = failures + 1

\* The buffers that have a storage: allocate_device and allocate_host gave them one,
\* or it was imported.
Live == {b \in Buffers : home[b] # None}
Room == Len(ops) + Cardinality({c \in DOMAIN calls : calls[c].state = "marshaled"})
          + Cardinality({q \in Queues : active[q] # {}}) < MaxOps

----------------------------------------------------------------------------
(***************************************************************************)
(* Scheduler::AppendCommandBuffer and FlushWithStatus                      *)
(***************************************************************************)

\* What a new command buffer waits for, and an active one already does.
Deps(q) == IF active[q] = {} THEN At(q, idle[q]) ELSE CHOOSE f \in active[q] : TRUE

\* The timepoint that the account's command buffer signals.
Timepoint(q) == IF active[q] = {} THEN idle[q] + 1 ELSE idle[q]

\* Mutant: only the account of the operation is flushed.
FlushOwn(act, idl, q, R, W) ==
    IF act[q] = {} THEN << >>
    ELSE <<Submission(R, W, CHOOSE f \in act[q] : TRUE, q, idl[q], "queued")>>

\* The accounts with an active command buffer, in order.
Due(act) ==
    LET due == {a \in Queues : act[a] # {}}
    IN  CHOOSE s \in [1 .. Cardinality(due) -> due] :
           \A i, j \in DOMAIN s : i < j => s[i] < s[j]

\* The submissions of a flush.  Only the one of account q has commands (a buffer
\* that is active between two operations is left by a command that could not be
\* recorded).  The driver accepts what is submitted: the two early returns for its
\* errors (269-270), after which later accounts are not flushed, are left out.
FlushWithStatus(act, idl, q, R, W) ==
    [i \in DOMAIN Due(act) |->
       LET a == Due(act)[i]
       IN  Submission(IF a = q THEN R ELSE {}, IF a = q THEN W ELSE {},
                      CHOOSE f \in act[a] : TRUE, a, idl[a], "queued")]

\* The callback recorded its command, with what it must wait for, and the
\* transaction mode, which is always EAGER, flushes.
AppendCommandBuffer(q, deps, R, W) ==
    \E t \in {[idle EXCEPT ![q] = Timepoint(q)]} :
        /\ idle' = t
        /\ ops' = ops \o FlushWithStatus([active EXCEPT ![q] = {Join(Deps(q), deps)}],
                                         t, q, R, W)
        /\ active' = [a \in Queues |-> {}]
        /\ UNCHANGED <<sem, calls, isolation, syncs, failures>>

\* The callback throws when the command is recorded: the command buffer stays
\* active, with the timepoint and the dependencies it has been given.
AppendThrows(q, deps) ==
    /\ Fault /\ Room
    /\ idle' = [idle EXCEPT ![q] = Timepoint(q)]
    /\ active' = [active EXCEPT ![q] = {Join(Deps(q), deps)}]
    /\ UNCHANGED <<sem, barriers, ops, calls, isolation, syncs>>

----------------------------------------------------------------------------
(***************************************************************************)
(* array::storage                                                          *)
(***************************************************************************)

FillDeps(b) == Join(use[b], mutation[b])

\* storage::fill
Fill(b) == /\ Room /\ b \in Live
           /\ AppendCommandBuffer(home[b], FillDeps(b), {}, {b})
           /\ mutation' = [mutation EXCEPT ![b] = At(home[b], Timepoint(home[b]))]
           /\ UNCHANGED <<home, use>>

\* Mutant: no wait for those that read the target.
CopyDepsNoUse(src, dst) == Join(mutation[src], mutation[dst])

CopyDeps(src, dst) == Join(mutation[src], Join(use[dst], mutation[dst]))

\* storage::copy_from.  Two subspans of one allocation share their barriers:
\* source and target may be the same.
CopyFrom(dst, src) ==
    /\ Room /\ {src, dst} \subseteq Live
    /\ AppendCommandBuffer(home[dst], CopyDeps(src, dst), {src}, {dst})
    /\ \E now \in {At(home[dst], Timepoint(home[dst]))} :
          /\ mutation' = [mutation EXCEPT ![dst] = now]
          /\ use' = [use EXCEPT ![src] = Join(@, now)]
    /\ UNCHANGED home

FillThrows(b) == b \in Live /\ AppendThrows(home[b], FillDeps(b))

CopyThrows(dst, src) ==
    {src, dst} \subseteq Live /\ AppendThrows(home[dst], CopyDeps(src, dst))

----------------------------------------------------------------------------
(***************************************************************************)
(* ProgramIsolate                                                          *)
(***************************************************************************)

\* Mutant: a busy isolate of a PER_FIBER program is forked once more.
ForkWhenBusy(iso) == forks = << >>

\* AcquireIsolate forks a context.
Forks(iso) == forks = << >> /\ (~isolate \/ iso = "PER_CALL")

\* AcquireIsolate, when it does not throw: the context that it returns.
AcquireIsolate(iso, c) ==
    \/ /\ isolate /\ forks # << >>
       /\ c = Last(forks) /\ forks' = Front(forks)
       /\ UNCHANGED <<isolate, contexts>>
    \/ /\ Forks(iso)
       /\ c = contexts + 1 /\ contexts' = contexts + 1 /\ isolate' = TRUE
       /\ UNCHANGED forks

ReleaseIsolate(c) == forks' = Append(forks, c) /\ UNCHANGED <<isolate, contexts>>

----------------------------------------------------------------------------
(***************************************************************************)
(* ProgramInvocation                                                       *)
(***************************************************************************)
Call == [args : SUBSET Buffers, result : ResultBuffers, waits : Fences, context : Nat,
         isolation : Isolations, op : Nat,
         state : {"marshaled", "scheduled", "submitted", "complete", "failed", "imported"}]

Fresh == {r \in ResultBuffers : /\ home[r] = None
                          /\ \A c \in DOMAIN calls : calls[c].result # r}

\* CreateInvocation and AddInvocationArgBarrier for every argument, with the
\* DEFAULT barrier: it waits for the mutations, and is not recorded as a use.
Marshal(args, iso) ==
    /\ Room /\ args \subseteq Live /\ Fresh # {}
    /\ \E c \in 1 .. contexts + 1 :
          /\ AcquireIsolate(iso, c)
          /\ calls' = Append(calls,
                [args |-> args, result |-> CHOOSE r \in Fresh : TRUE, context |-> c,
                 isolation |-> iso, op |-> 0,
                 waits |-> [q \in Queues |-> Max({mutation[b][q] : b \in args})],
                 state |-> "marshaled"])
    /\ UNCHANGED <<timeline, barriers, ops, syncs, failures>>

\* iree_vm_context_fork fails: the isolate stays behind without a context.
MarshalThrows(iso) ==
    /\ Fault /\ Forks(iso) /\ ~isolate
    /\ isolate' = TRUE
    /\ UNCHANGED <<timeline, barriers, ops, calls, forks, contexts, syncs>>

\* The account of an invocation: the lowest queue of its device selection.
Selected(args) == Min({home[b] : b \in args})

\* FinalizeCallingConvention: wait for the arguments and for the timeline.
WaitFence(c, idl) ==
    Join(calls[c].waits, At(Selected(calls[c].args), idl[Selected(calls[c].args)]))

\* The lambda of Invoke, on the fiber's worker (at once when the caller is on
\* it, as a thunk otherwise): flush, finalize and begin the invocation.  A
\* timepoint of the account is taken for the signal.
Schedule(c) ==
    /\ calls[c].state = "marshaled"
    /\ \E q \in {Selected(calls[c].args)} :
          /\ ops' = Append(ops \o FlushWithStatus(active, idle, q, {}, {}),
                           Submission(calls[c].args, {calls[c].result}, WaitFence(c, idle),
                                      q, idle[q] + 1, "held"))
          /\ idle' = [idle EXCEPT ![q] = @ + 1]
    /\ active' = [a \in Queues |-> {}]
    /\ calls' = [calls EXCEPT ![c].state = "scheduled", ![c].op = Len(ops')]
    /\ UNCHANGED <<sem, barriers, isolation, syncs, failures>>

\* The function runs (external): it submits its work to the device, which
\* waits for the one fence and signals the other.
Submit(c) ==
    /\ calls[c].state = "scheduled"
    /\ ops' = [ops EXCEPT ![calls[c].op].state = "queued"]
    /\ calls' = [calls EXCEPT ![c].state = "submitted"]
    /\ UNCHANGED <<timeline, barriers, isolation, syncs, failures>>

\* The complete callback: the context is released and the future set.
Complete(c) ==
    /\ calls[c].state = "submitted"
    /\ ReleaseIsolate(calls[c].context)
    /\ calls' = [calls EXCEPT ![c].state = "complete"]
    /\ UNCHANGED <<timeline, barriers, ops, syncs, failures>>

\* The complete callback of a function that failed before it submitted
\* anything: nobody signals the timepoint.
Fail(c) ==
    /\ Fault /\ calls[c].state = "scheduled"
    /\ ReleaseIsolate(calls[c].context)
    /\ calls' = [calls EXCEPT ![c].state = "failed"]
    /\ ops' = [ops EXCEPT ![calls[c].op].state = "lost"]
    /\ UNCHANGED <<timeline, barriers, syncs>>

\* coarse_signal
CoarseSignal(c) == At(ops[calls[c].op].account, ops[calls[c].op].time)

\* ImportInvocationResultStorage, once the future has been awaited.
Import(c) ==
    /\ calls[c].state = "complete"
    /\ home' = [home EXCEPT ![calls[c].result] = Selected(calls[c].args)]
    /\ mutation' = [mutation EXCEPT ![calls[c].result] = CoarseSignal(c)]
    /\ use' = [use EXCEPT ![calls[c].result] = Join(@, CoarseSignal(c))]
    /\ calls' = [calls EXCEPT ![c].state = "imported"]
    /\ UNCHANGED <<timeline, ops, isolation, syncs, failures>>

----------------------------------------------------------------------------
(***************************************************************************)
(* ScopedDevice::OnSync and Account::OnSync                                *)
(***************************************************************************)

IdleTimepoint(q) == idle[q]

OnSync(q) ==
    /\ Cardinality(syncs) < MaxSyncs
    /\ ops' = ops \o FlushWithStatus(active, idle, q, {}, {})
    /\ active' = [a \in Queues |-> {}]
    /\ syncs' = syncs \cup {[account |-> q, time |-> IdleTimepoint(q), upto |-> Len(ops')]}
    /\ UNCHANGED <<idle, sem, barriers, calls, isolation, failures>>

\* The blocking executor's wait for the semaphore returns, or can.
Returned(s) == s.time <= sem[s.account]

----------------------------------------------------------------------------
(***************************************************************************)
(* The device (external)                                                   *)
(***************************************************************************)
\* The work of a submission and its signal.  That others may overlap with the
\* work needs no step of its own: they begin on the same timepoints before it.
Execute(i) == /\ ops[i].state = "queued" /\ Reached(ops[i].waits)
              /\ ops' = [ops EXCEPT ![i].state = "done"]
              /\ sem' = [sem EXCEPT ![ops[i].account] = ops[i].time]
              /\ UNCHANGED <<idle, active, barriers, calls, isolation, syncs, failures>>

Transfer == \/ \E b \in Buffers : Fill(b) \/ FillThrows(b)
            \/ \E src, dst \in Buffers : CopyFrom(dst, src) \/ CopyThrows(dst, src)

Invoke == \/ \E args \in Arguments, iso \in Isolations : Marshal(args, iso)
          \/ \E iso \in Isolations : MarshalThrows(iso)

Advance == \/ \E c \in DOMAIN calls : Schedule(c) \/ Submit(c) \/ Complete(c)
           \/ \E i \in DOMAIN ops : Execute(i)

Next == \/ Transfer \/ Invoke \/ Advance
        \/ \E c \in DOMAIN calls : Fail(c) \/ Import(c)
        \/ \E q \in Queues : OnSync(q)

Spec == Init /\ [][Next]_vars

\* The worker runs its thunks and callbacks, the device and the blocking
\* executor what is ready.  Nobody has to issue an operation.
Fairness == WF_vars(Advance)
FairSpec == Spec /\ Fairness
----------------------------------------------------------------------------
(***************************************************************************)
(* Properties                                                              *)
(***************************************************************************)

\* The accounts, barriers and operations keep their types.
TypeOK == /\ idle \in Fences /\ sem \in Fences
          /\ active \in [Queues -> SUBSET Fences]
          /\ home \in [Buffers -> Queues \cup {None}]
          /\ mutation \in [Buffers -> Fences] /\ use \in [Buffers -> Fences]
          /\ ops \in Seq(Op) /\ calls \in Seq(Call)

Conflict(a, b) == \/ a.writes \cap (b.reads \cup b.writes) # {}
                  \/ a.reads \cap b.writes # {}

\* storage.cc:102-103 "Must depend on all of this buffer's use dependencies to
\* avoid write-after-read hazard.", and 106-107, 128-129, 132 for the others: the
\* device runs an operation only when all earlier ones that it conflicts with are
\* over, on whatever queue they are.
ConflictsInOrder ==
    \A j \in DOMAIN ops : ops[j].state = "done" =>
        \A i \in 1 .. j - 1 :
            Conflict(ops[i], ops[j]) => ops[i].state \in {"done", "lost"}

\* fiber.h:52: a wait for a device that has returned means that everything
\* issued to it before is complete, invocations that had not been submitted
\* included.
SyncMeansIdle ==
    \A s \in syncs : Returned(s) =>
        \A i \in 1 .. s.upto : ops[i].account = s.account => ops[i].state = "done"

\* The arguments of each invocation are on one queue.  (An invocation runs on one
\* queue and is not recorded as a use of its arguments, storage.cc:261-265: only
\* the account that they share puts it before what is issued to them later.)
SameQueue == \A c \in DOMAIN calls : \A a, b \in calls[c].args : home[a] = home[b]

\* Both: as long as no function was called with arrays of two queues, the device's
\* order is the program's, also as a wait shows it.
DeviceOrder == SameQueue => ConflictsInOrder /\ SyncMeansIdle

Holds(c) == calls[c].state \in {"marshaled", "scheduled", "submitted"}

\* program.h:50-59: no two invocations under way share a context, a context
\* that is free is used by nobody, and a program that is only called PER_FIBER
\* has a single one.
ContextsExclusive ==
    /\ \A c, d \in DOMAIN calls :
          Holds(c) /\ Holds(d) /\ c # d => calls[c].context # calls[d].context
    /\ \A c \in DOMAIN calls : Holds(c) => calls[c].context \notin ToSet(forks)
    /\ IsInjective(forks)
    /\ (\A c \in DOMAIN calls : calls[c].isolation = "PER_FIBER") => contexts <= 1

\* A wait for a device returns, also when a command could not be recorded; only
\* a function that failed, whose timepoint nobody signals, may keep it waiting.
SyncsReturn ==
    (\E s \in syncs : ~Returned(s)) ~>
        (\/ \A s \in syncs : Returned(s)
         \/ \E i \in DOMAIN ops : ops[i].state = "lost")
=============================================================================
