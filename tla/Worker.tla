------------------------------- MODULE Worker -------------------------------
(***************************************************************************)
(* The cooperative worker of shortfin (local/worker.h, local/worker.cc).   *)
(*                                                                         *)
(* Any thread hands thunks to the worker with CallThreadsafe: it appends   *)
(* to pending_thunks_ under mu_ and, after it has released mu_, sets the   *)
(* event signal_transact_.  The worker's loop waits on that event, and     *)
(* when it fires TransactLoop resets it, takes all pending thunks and runs *)
(* them.  Kill sets kill_ under mu_ and then the same event.               *)
(*                                                                         *)
(* The event loop itself is IREE's.  What the worker relies on: a drain    *)
(* runs the operations that are ready, one at a time, and returns when the *)
(* quantum has elapsed or nothing is registered; an operation that reports *)
(* an error makes the loop complete everything registered with a failing   *)
(* status, the wait on signal_transact_ included.                          *)
(*                                                                         *)
(* A thunk is the number of the CallThreadsafe call that appended it.      *)
(***************************************************************************)
EXTENDS Integers, Sequences

CONSTANTS Callers,        \* threads that call CallThreadsafe or Kill
          MaxThunks,      \* bound: CallThreadsafe calls
          MaxLowLevel     \* max_queue_depth of the loop, scaled down

ASSUME WorkerAssumption == MaxThunks \in Nat /\ MaxLowLevel \in Nat

VARIABLES owned_thread,   \* options_.owned_thread; never changes
          phase,          \* what the worker's thread is doing
          kill,           \* kill_
          signal,         \* signal_transact_ is set
          armed,          \* the loop waits on signal_transact_
          pending,        \* pending_thunks_
          next,           \* what is left of next_thunks_
          ran,            \* thunks that were run
          submitted,      \* number of CallThreadsafe calls
          pc,             \* per caller: "idle" or about to set the event
          low             \* operations in the loop's queue

thunks == <<pending, next, ran, submitted>>
vars == <<owned_thread, phase, kill, signal, armed, thunks, pc, low>>

\* "new" until a thread runs RunOnThread; "check" is the top of its loop;
\* "ended" is signal_ended_.
Phases == {"new", "check", "drain", "run", "ended"}

\* The fields of the worker keep their types, and its loop its queue depth.
TypeOK == /\ owned_thread \in BOOLEAN /\ phase \in Phases
          /\ kill \in BOOLEAN /\ signal \in BOOLEAN /\ armed \in BOOLEAN
          /\ submitted \in Nat
          /\ pending \in Seq(Nat) /\ next \in Seq(Nat) /\ ran \in Seq(Nat)
          /\ pc \in [Callers -> {"idle", "signal"}]
          /\ low \in 0 .. MaxLowLevel

Init == /\ owned_thread \in BOOLEAN /\ phase = "new"
        /\ kill = FALSE /\ signal = FALSE /\ armed = FALSE
        /\ pending = << >> /\ next = << >> /\ ran = << >> /\ submitted = 0
        /\ pc = [c \in Callers |-> "idle"]
        /\ low = 0

----------------------------------------------------------------------------
(***************************************************************************)
(* The callers.                                                            *)
(***************************************************************************)

\* Start, or RunOnCurrentThread, which throws when has_run_; RunOnThread up to
\* its loop.
Start == /\ phase = "new"
         /\ phase' = "check"
         /\ armed' = TRUE
         /\ UNCHANGED <<owned_thread, kill, signal, thunks, pc, low>>

CallThreadsafe(c) ==
    /\ pc[c] = "idle" /\ submitted < MaxThunks
    /\ submitted' = submitted + 1
    /\ pending' = Append(pending, submitted + 1)
    /\ pc' = [pc EXCEPT ![c] = "signal"]
    /\ UNCHANGED <<owned_thread, phase, kill, signal, armed, next, ran, low>>

\* Kill throws when the worker's own thread was not started.
Kill(c) == /\ pc[c] = "idle"
           /\ owned_thread => phase # "new"
           /\ kill' = TRUE
           /\ pc' = [pc EXCEPT ![c] = "signal"]
           /\ UNCHANGED <<owned_thread, phase, signal, armed, thunks, low>>

\* signal_transact_.set(), outside of the lock.
SetSignal(c) == /\ pc[c] = "signal"
                /\ signal' = TRUE
                /\ pc' = [pc EXCEPT ![c] = "idle"]
                /\ UNCHANGED <<owned_thread, phase, kill, armed, thunks, low>>

----------------------------------------------------------------------------
(***************************************************************************)
(* The worker's thread.                                                    *)
(***************************************************************************)

\* Mutant: the loop condition is forgotten.
CheckNothing == /\ phase = "check"
                /\ phase' = "drain"
                /\ UNCHANGED <<owned_thread, kill, signal, armed, thunks, pc, low>>

CheckKill == /\ phase = "check"
             /\ phase' = IF kill THEN "ended" ELSE "drain"
             /\ UNCHANGED <<owned_thread, kill, signal, armed, thunks, pc, low>>

\* iree_loop_drain returns.
DrainReturns == /\ phase = "drain"
                /\ phase' = "check"
                /\ UNCHANGED <<owned_thread, kill, signal, armed, thunks, pc, low>>

\* Mutant: the thunks are copied, not swapped.
TransactLoopCopies == /\ phase = "drain" /\ armed /\ signal /\ ~kill
                      /\ signal' = FALSE
                      /\ armed' = FALSE
                      /\ phase' = "run"
                      /\ next' = pending
                      /\ UNCHANGED <<owned_thread, kill, pending, ran, submitted, pc, low>>

\* The wait fires.  The event is reset and the thunks are taken in one critical
\* section; when killed, the wait is not armed again.
TransactLoop == /\ phase = "drain" /\ armed /\ signal
                /\ signal' = FALSE
                /\ armed' = FALSE
                /\ IF kill
                      THEN UNCHANGED <<phase, pending, next>>
                      ELSE /\ phase' = "run"
                           /\ next' = pending
                           /\ pending' = next
                /\ UNCHANGED <<owned_thread, kill, ran, submitted, pc, low>>

\* next_thunk(); a thunk may register operations with the loop.
RunThunk == /\ phase = "run" /\ next # << >>
            /\ ran' = Append(ran, Head(next))
            /\ next' = Tail(next)
            /\ low' \in {low} \cup ((low + 1) .. MaxLowLevel)
            /\ UNCHANGED <<owned_thread, phase, kill, signal, armed, pending,
                           submitted, pc>>

\* Mutant: the event is reset once the thunks have run.
ScheduleAndReset ==
    /\ phase = "run" /\ next = << >>
    /\ armed' = TRUE
    /\ signal' = FALSE
    /\ phase' = "drain"
    /\ UNCHANGED <<owned_thread, kill, thunks, pc, low>>

ScheduleExternalTransactEvent ==
    /\ phase = "run" /\ next = << >>
    /\ armed' = TRUE
    /\ phase' = "drain"
    /\ UNCHANGED <<owned_thread, kill, signal, thunks, pc, low>>

\* An operation of CallLowLevel, WaitUntilLowLevel or WaitOneLowLevel runs; it
\* may register itself again.
RunLowLevel == /\ phase = "drain" /\ low > 0
               /\ low' \in {low - 1, low}
               /\ UNCHANGED <<owned_thread, phase, kill, signal, armed, thunks, pc>>

\* It returns an error: OnError prints it, and the loop completes what is
\* registered with a failing status.  TransactLoop returns that status without
\* arming its wait again.
RunLowLevelFails ==
    /\ phase = "drain" /\ low > 0
    /\ low' = 0
    /\ armed' = FALSE
    /\ UNCHANGED <<owned_thread, phase, kill, signal, thunks, pc>>

WorkerStep == \/ CheckKill
              \/ DrainReturns
              \/ TransactLoop
              \/ RunThunk
              \/ ScheduleExternalTransactEvent
              \/ RunLowLevel
              \/ RunLowLevelFails

Next == \/ Start
        \/ \E c \in Callers : CallThreadsafe(c) \/ Kill(c) \/ SetSignal(c)
        \/ WorkerStep

Spec == Init /\ [][Next]_vars

\* Threads are scheduled, and the worker is started.  Every drain polls its
\* waits, so one that is ready again and again fires (strong fairness).  Of the
\* operations in the loop nothing is assumed: DrainReturns is the quantum.
Fairness == /\ WF_vars(Start)
            /\ WF_vars(CheckKill)
            /\ WF_vars(DrainReturns)
            /\ SF_vars(TransactLoop)
            /\ WF_vars(RunThunk)
            /\ WF_vars(ScheduleExternalTransactEvent)
            /\ \A c \in Callers : WF_vars(SetSignal(c))

FairSpec == Spec /\ Fairness
----------------------------------------------------------------------------
(***************************************************************************)
(* Properties                                                              *)
(***************************************************************************)

\* Thunks are run in the order in which they were appended, none twice and
\* none skipped, however the two lists are swapped while callers append.
ThunksInOrder == ran \o next \o pending = [i \in 1 .. submitted |-> i]

\* worker.cc:95 "it is not possible for it to be spurious reset": a thunk that
\* waits is announced by the event, or its caller is still about to set it.
\* Only a kill may leave a thunk behind.
NoLostWakeup == pending # << >> /\ ~kill
                   => signal \/ \E c \in Callers : pc[c] = "signal"

\* An error in the loop, or a kill, has taken the wait away.
Deaf == phase \in {"check", "drain"} /\ ~armed

\* Every thunk is run, or the worker is killed, or it has lost its wait.
ThunksRun == \A i \in 1 .. MaxThunks :
                 submitted >= i ~> (Len(ran) >= i \/ kill \/ Deaf)

\* A killed worker that was started ends, whatever its loop is busy with:
\* WaitForShutdown returns.
KillCompletes == kill ~> phase = "ended"

\* The worker comes through: thunks are run unless it is killed, and a kill ends it.
WorkerServes == ThunksRun /\ KillCompletes
=============================================================================
