-------------------------- MODULE BlockingExecutor --------------------------
(***************************************************************************)
(* The thread pool for blocking calls (support/blocking_executor.cc).      *)
(*                                                                         *)
(* Schedule hands its task to a free thread or to a new one: under         *)
(* control_mu_ it takes the thread out of the free list and stores the     *)
(* task, then, without the lock, it sets the thread's event and lets a new *)
(* thread run.  A thread that has run its task puts itself back on the     *)
(* free list, or ends if kill_ is set.  Kill wakes the free threads, over  *)
(* and over when it waits, until no thread is alive.                       *)
(*                                                                         *)
(* Tasks are numbered in the order in which they were accepted.            *)
(***************************************************************************)
EXTENDS Integers, Sequences, FiniteSets, Functions

CONSTANTS Threads,      \* bound: ThreadInstances over the whole run
          Schedulers,      \* threads that call Schedule
          Killers,      \* threads that call Kill
          MaxTasks      \* bound: tasks accepted

\* A null ThreadInstance*.
Nobody == "nobody"

ASSUME ExecutorAssumption ==
    MaxTasks \in Nat /\ IsFiniteSet(Threads) /\ Nobody \notin Threads

VARIABLES free_threads,     \* the linked list, first element first
          live,             \* live_thread_count_
          killing,             \* kill_
          inhibit,          \* inhibit_
          thread,           \* per ThreadInstance: where its thread is
          signalled,           \* per ThreadInstance: signal_transact is set
          current_task,     \* per ThreadInstance: current_task, 0 if null
          exec_task,        \* per ThreadInstance: the task it runs
          accepted,         \* number of tasks Schedule has accepted
          finished,              \* tasks that have finished
          dispatch,         \* per caller: the thread it has yet to signal
          killer            \* per killer: where in Kill it is

pool == <<free_threads, live, killing, inhibit>>
poolVars == <<pool, thread, signalled, current_task, exec_task, accepted, finished, dispatch,
              killer>>

\* "none" before it is created, "suspended" until it is resumed, "waiting" for
\* its event, "running" a task, "returning" to the executor, "gone" at the end.
ThreadPlaces == {"none", "suspended", "waiting", "running", "returning", "gone"}

\* "wake" and "check" are the two critical sections of Kill(wait=true)'s loop,
\* "wake once" is the one of Kill(wait=false).
KillerPlaces == {"idle", "wake once", "wake", "check", "returned"}

\* The fields of the executor keep their types; live_thread_count_ never falls
\* below zero.
PoolTypeOK == /\ free_threads \in Seq(Threads)
              /\ live \in Nat
              /\ killing \in BOOLEAN /\ inhibit \in BOOLEAN
              /\ thread \in [Threads -> ThreadPlaces]
              /\ signalled \in [Threads -> BOOLEAN]
              /\ current_task \in [Threads -> 0 .. accepted]
              /\ exec_task \in [Threads -> 0 .. accepted]
              /\ accepted \in 0 .. MaxTasks
              /\ finished \subseteq 1 .. accepted
              /\ dispatch \in [Schedulers -> Threads \cup {Nobody}]
              /\ killer \in [Killers -> KillerPlaces]

PoolInit == /\ free_threads = << >> /\ live = 0 /\ killing = FALSE /\ inhibit = FALSE
            /\ thread = [t \in Threads |-> "none"]
            /\ signalled = [t \in Threads |-> FALSE]
            /\ current_task = [t \in Threads |-> 0]
            /\ exec_task = [t \in Threads |-> 0]
            /\ accepted = 0 /\ finished = {}
            /\ dispatch = [c \in Schedulers |-> Nobody]
            /\ killer = [k \in Killers |-> "idle"]

----------------------------------------------------------------------------
(***************************************************************************)
(* Schedule.                                                               *)
(***************************************************************************)

\* Stores the next task in t and leaves the lock.
Hand(c, t) == /\ accepted' = accepted + 1
              /\ current_task' = [current_task EXCEPT ![t] = accepted + 1]
              /\ dispatch' = [dispatch EXCEPT ![c] = t]

CanSchedule(c) == dispatch[c] = Nobody /\ accepted < MaxTasks /\ ~inhibit

\* Mutant: the thread stays on the free list.
ScheduleShared(c) ==
    /\ CanSchedule(c) /\ free_threads # << >>
    /\ Hand(c, Head(free_threads))
    /\ UNCHANGED <<pool, thread, signalled, exec_task, finished, killer>>

ScheduleOnFree(c) ==
    /\ CanSchedule(c) /\ free_threads # << >>
    /\ free_threads' = Tail(free_threads)
    /\ Hand(c, Head(free_threads))
    /\ UNCHANGED <<live, killing, inhibit, thread, signalled, exec_task, finished, killer>>

ScheduleOnNew(c, t) ==
    /\ CanSchedule(c) /\ free_threads = << >>
    /\ thread[t] = "none"
    /\ thread' = [thread EXCEPT ![t] = "suspended"]
    /\ live' = live + 1
    /\ Hand(c, t)
    /\ UNCHANGED <<free_threads, killing, inhibit, signalled, exec_task, finished, killer>>

\* "BlockingExecutor has shut down and new work cannot be scheduled", or the
\* thread cannot be created.
ScheduleThrows(c) == /\ dispatch[c] = Nobody
                     /\ inhibit \/ free_threads = << >>
                     /\ UNCHANGED poolVars

\* signal_transact.set(), and iree_thread_resume for a new thread.
FinishDispatch(c) ==
    /\ dispatch[c] # Nobody
    /\ LET t == dispatch[c]
       IN  /\ signalled' = [signalled EXCEPT ![t] = TRUE]
           /\ thread' = [thread EXCEPT ![t] = "waiting"]
    /\ dispatch' = [dispatch EXCEPT ![c] = Nobody]
    /\ UNCHANGED <<pool, current_task, exec_task, accepted, finished, killer>>

----------------------------------------------------------------------------
(***************************************************************************)
(* RunOnThread.                                                            *)
(***************************************************************************)

WakeUp(t) ==
    /\ thread[t] = "waiting" /\ signalled[t]
    /\ exec_task' = [exec_task EXCEPT ![t] = current_task[t]]
    /\ current_task' = [current_task EXCEPT ![t] = 0]
    /\ thread' = [thread EXCEPT
                     ![t] = IF current_task[t] = 0 THEN "returning" ELSE "running"]
    /\ UNCHANGED <<pool, signalled, accepted, finished, dispatch, killer>>

TaskReturns(t) ==
    /\ thread[t] = "running"
    /\ finished' = finished \cup {exec_task[t]}
    /\ exec_task' = [exec_task EXCEPT ![t] = 0]
    /\ thread' = [thread EXCEPT ![t] = "returning"]
    /\ UNCHANGED <<pool, signalled, current_task, accepted, dispatch, killer>>

MoveToFreeList(t) ==
    /\ thread[t] = "returning" /\ ~killing
    /\ free_threads' = <<t>> \o free_threads
    /\ signalled' = [signalled EXCEPT ![t] = FALSE]
    /\ thread' = [thread EXCEPT ![t] = "waiting"]
    /\ UNCHANGED <<live, killing, inhibit, current_task, exec_task, accepted, finished,
                   dispatch, killer>>

ThreadEnds(t) ==
    /\ thread[t] = "returning" /\ killing
    /\ live' = live - 1
    /\ thread' = [thread EXCEPT ![t] = "gone"]
    /\ UNCHANGED <<free_threads, killing, inhibit, signalled, current_task, exec_task,
                   accepted, finished, dispatch, killer>>

LockAndMoveToFreeList(t) == MoveToFreeList(t) \/ ThreadEnds(t)

----------------------------------------------------------------------------
(***************************************************************************)
(* Kill.                                                                   *)
(***************************************************************************)

KillPool(k, wait) == /\ killer[k] = "idle"
                 /\ killing' = TRUE
                 /\ killer' = [killer EXCEPT
                                  ![k] = IF wait THEN "wake" ELSE "wake once"]
                 /\ UNCHANGED <<free_threads, live, inhibit, thread, signalled,
                                current_task, exec_task, accepted, finished, dispatch>>

\* Mutant: the free threads are dropped, not woken.
DropFreeThreads(k) ==
    /\ killer[k] \in {"wake", "wake once"}
    /\ free_threads' = << >>
    /\ killer' = [killer EXCEPT ![k] = IF @ = "wake" THEN "check" ELSE "idle"]
    /\ UNCHANGED <<live, killing, inhibit, thread, signalled, current_task, exec_task,
                   accepted, finished, dispatch>>

WakeFreeThreads(k) ==
    /\ killer[k] \in {"wake", "wake once"}
    /\ signalled' = [t \in Threads |-> signalled[t] \/ t \in Range(free_threads)]
    /\ free_threads' = << >>
    /\ killer' = [killer EXCEPT ![k] = IF @ = "wake" THEN "check" ELSE "idle"]
    /\ UNCHANGED <<live, killing, inhibit, thread, current_task, exec_task, accepted,
                   finished, dispatch>>

CheckLive(k) ==
    /\ killer[k] = "check"
    /\ killer' = [killer EXCEPT
                     ![k] = IF live = 0 /\ inhibit THEN "returned" ELSE "wake"]
    /\ inhibit' = (inhibit \/ live = 0)
    /\ UNCHANGED <<free_threads, live, killing, thread, signalled, current_task, exec_task,
                   accepted, finished, dispatch>>

PoolNext == \/ \E c \in Schedulers : \/ ScheduleOnFree(c)
                                  \/ \E t \in Threads : ScheduleOnNew(c, t)
                                  \/ ScheduleThrows(c)
                                  \/ FinishDispatch(c)
            \/ \E t \in Threads : \/ WakeUp(t)
                                  \/ TaskReturns(t)
                                  \/ LockAndMoveToFreeList(t)
            \/ \E k \in Killers : \/ \E wait \in BOOLEAN : KillPool(k, wait)
                                  \/ WakeFreeThreads(k)
                                  \/ CheckLive(k)

PoolSpec == PoolInit /\ [][PoolNext]_poolVars

\* All threads are scheduled, and blocking tasks return in the end.
PoolFairness == /\ \A c \in Schedulers : WF_poolVars(FinishDispatch(c))
                /\ \A t \in Threads : /\ WF_poolVars(WakeUp(t))
                                      /\ WF_poolVars(TaskReturns(t))
                                      /\ WF_poolVars(LockAndMoveToFreeList(t))
                /\ \A k \in Killers : WF_poolVars(WakeFreeThreads(k)) /\ WF_poolVars(CheckLive(k))

PoolFairSpec == PoolSpec /\ PoolFairness
----------------------------------------------------------------------------
(***************************************************************************)
(* Properties                                                              *)
(***************************************************************************)

\* A task that was accepted is in one place: with the thread it was handed to,
\* being run, or done.  None is overwritten in current_task by a second
\* Schedule on the same thread, dropped by a kill, or run twice.
TasksOnce ==
    \A i \in 1 .. accepted :
        Cardinality({t \in Threads : current_task[t] = i}
                      \cup {t \in Threads : exec_task[t] = i})
          = IF i \in finished THEN 0 ELSE 1

\* No thread sleeps for ever: one that waits and has not been signalled is on
\* the free list, where Schedule and Kill find it, or its caller is about to
\* signal it.  One that is on the free list has neither a task nor a caller.
NoThreadForgotten ==
    /\ \A t \in Threads :
          thread[t] = "suspended" \/ (thread[t] = "waiting" /\ ~signalled[t])
             => \/ t \in Range(free_threads)
                \/ \E c \in Schedulers : dispatch[c] = t
    /\ \A t \in Range(free_threads) :
          /\ thread[t] = "waiting" /\ ~signalled[t] /\ current_task[t] = 0
          /\ \A c \in Schedulers : dispatch[c] # t
    /\ IsInjective(free_threads)

\* When Kill(wait=true) has returned, which the destructor relies on, every
\* accepted task has run, no thread will touch the executor again, and none can
\* be started.
KilledIsQuiet ==
    (\E k \in Killers : killer[k] = "returned")
       => /\ inhibit /\ free_threads = << >>
          /\ finished = 1 .. accepted
          /\ \A t \in Threads : thread[t] \in {"none", "gone"}
          /\ \A c \in Schedulers : dispatch[c] = Nobody

\* Every accepted task is run, killed or not: a free thread is never shared and
\* a new one is made when there is none.
TasksRun == \A i \in 1 .. MaxTasks : accepted >= i ~> i \in finished

\* Kill(wait=true) returns once the tasks have, however it interleaves with
\* Schedule and with other kills.
KillReturns == \A k \in Killers : killer[k] = "wake" ~> killer[k] = "returned"

\* The executor comes through: accepted tasks are run and kills return.
EverybodyServed == TasksRun /\ KillReturns

\* blocking_executor.h:45-68: the hand-over of tasks to threads is sound, before,
\* during and after a kill: no task is lost, doubled or overwritten, no thread
\* sleeps where nobody finds it, and after Kill(wait=true) nothing is left.
PoolSound == TasksOnce /\ NoThreadForgotten /\ KilledIsQuiet
=============================================================================
