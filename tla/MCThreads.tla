----------------------------- MODULE MCThreads ------------------------------
(***************************************************************************)
(* The parts of the runtime that own threads, for one run of TLC: a worker, *)
(* the blocking executor, and the system with its workers and processes.   *)
(* The behaviours of the run are those of one part, chosen at the start,   *)
(* while the others rest in an initial state.                              *)
(***************************************************************************)
EXTENDS Worker, BlockingExecutor, System

CONSTANT Parts  \* the parts to explore

VARIABLE part   \* the part that runs

ThreadsInit ==
    /\ part \in Parts
    /\ Init /\ (part # "worker" => owned_thread)
    /\ PoolInit
    /\ SystemInit

ThreadsNext ==
    \/ part = "worker" /\ Next /\ UNCHANGED <<part, poolVars, systemVars>>
    \/ part = "executor" /\ PoolNext /\ UNCHANGED <<part, vars, systemVars>>
    \/ part = "system" /\ SystemNext /\ UNCHANGED <<part, vars, poolVars>>

threadsVars == <<part, vars, poolVars, systemVars>>

\* A worker that rests is not started.
WorkerFairness ==
    /\ WF_vars(part = "worker" /\ Start)
    /\ WF_vars(CheckKill) /\ WF_vars(DrainReturns)
    /\ SF_vars(TransactLoop) /\ WF_vars(RunThunk)
    /\ WF_vars(ScheduleExternalTransactEvent)
    /\ \A c \in Callers : WF_vars(SetSignal(c))

ThreadsSpec == /\ ThreadsInit /\ [][ThreadsNext]_threadsVars
               /\ WorkerFairness /\ PoolFairness /\ SystemFairness
=============================================================================
