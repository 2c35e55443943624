------------------------------- MODULE System -------------------------------
(***************************************************************************)
(* The local system seen from Python: local/system.cc, local/process.cc,   *)
(* the worker's thread (local/worker.cc) as Python extends it              *)
(* (PyWorkerExtension, PyProcess and RunInForeground of python/lib_ext.cc), *)
(* and the event loop of _shortfin/asyncio_bridge.py.                      *)
(*                                                                         *)
(* Two locks meet here.  Every call from Python, and every callback of a   *)
(* worker into Python, holds the interpreter's lock (the GIL); the system's *)
(* tables are under lock_.  A call that waits for lock_ keeps the GIL, and *)
(* a worker's initializer, which is Python code, gives the GIL up and wants *)
(* it back: CreateWorker runs it without lock_, init_worker under it.      *)
(* A step that needs the GIL for its whole length and gives it back is one *)
(* action, taken when the GIL is free.                                     *)
(***************************************************************************)
EXTENDS Integers, Sequences, FiniteSets

CONSTANTS
    Clients,      \* Python threads that use the system
    Owned,        \* workers with a thread of their own
    Procs,        \* Process objects
    MaxFailures,  \* bound: processes whose coroutine raises
    InitFirst     \* __init__ exists before a second thread uses the system

VARIABLES
    gilHolder,    \* the thread that has the GIL
    lockHolder,   \* the thread that has System::lock_
    shutdown,     \* shutdown_
    workers,      \* workers_
    workerState,  \* where the thread of each worker is
    killed,       \* Worker::kill_
    deaf,         \* the wait for signal_transact_ was aborted by a failure
    pendingThunks,  \* Worker::pending_thunks_
    nextThunks,     \* Worker::next_thunks_
    nextPid,      \* next_pid_
    table,        \* processes_by_pid_
    pid,          \* BaseProcess::pid_
    leaving,      \* deallocate_pid of the process that is in Terminate, else 0
    terminated,   \* terminated_event_: "null", "unset" or "set"
    home,         \* the worker of the process's fiber
    place,        \* where the coroutine of a process, or of run(), is
    awaits,       \* the process it waits for
    failed,       \* processes whose coroutine raised
    call,         \* per client: the call it is in
    clean,        \* some Shutdown went through all its steps
    interrupted   \* a KeyboardInterrupt has reached run()

systemVars == <<gilHolder, lockHolder, shutdown, workers, workerState, killed, deaf,
                pendingThunks, nextThunks, nextPid, table, pid, leaving, terminated, home,
                place, awaits, failed, call, clean, interrupted>>

InitWorker == "__init__"
Root == "run"           \* the coroutine RunInForeground runs on __init__
NoOne == "nobody"
AllWorkers == Owned \union {InitWorker}
Coros == Procs \union {Root}
Idle == <<"idle">>
Threw == <<"threw">>    \* an exception ended what the client was doing

ASSUME SystemAssumption ==
    /\ Root \notin Procs /\ InitWorker \notin Owned /\ NoOne \notin AllWorkers
    /\ Clients \cap (AllWorkers \union {NoOne}) = {}

SystemInit ==
    /\ gilHolder = NoOne /\ lockHolder = NoOne
    /\ shutdown = FALSE
    /\ workers = <<>>
    /\ workerState = [w \in AllWorkers |-> "absent"]
    /\ killed = [w \in AllWorkers |-> FALSE]
    /\ deaf = [w \in AllWorkers |-> FALSE]
    /\ pendingThunks = [w \in AllWorkers |-> <<>>]
    /\ nextThunks = [w \in AllWorkers |-> <<>>]
    /\ nextPid = 1
    /\ table = {}
    /\ pid = [p \in Procs |-> 0]
    /\ leaving = [p \in Procs |-> 0]
    /\ terminated = [p \in Procs |-> "null"]
    /\ home = [i \in Coros |-> IF i = Root THEN InitWorker ELSE NoOne]
    /\ place = [i \in Coros |-> "new"]
    /\ awaits = [i \in Coros |-> NoOne]
    /\ failed = {}
    /\ call = [c \in Clients |-> Idle]
    /\ clean = FALSE
    /\ interrupted = FALSE

procVars == <<nextPid, table, pid, leaving, terminated, home, place, awaits, failed>>
threadVars == <<workerState, deaf, nextThunks>>

-----------------------------------------------------------------------------
(***************************************************************************)
(* Calls from Python.  A client takes the GIL and enters the call; inside, *)
(* it waits for lock_ with the GIL in its hand.                            *)
(***************************************************************************)

\* A worker object exists for Python once CreateWorker has returned it.
HasWorker(w) == workerState[w] \notin {"absent", "listed"} \/ w = InitWorker
Requests ==
    {<<"worker", w>> : w \in {v \in Owned : workerState[v] = "absent"}}
    \union {<<"fiber", p, w>> : p \in {q \in Procs : home[q] = NoOne},
                                w \in {v \in AllWorkers : HasWorker(v)}}
    \union {<<"launch", p>> : p \in {q \in Procs : home[q] # NoOne}}
    \union (IF place[Root] = "new" THEN {<<"run">>} ELSE {})
    \union (IF shutdown THEN {} ELSE {<<"shutdown">>})

UsesInit(k) == k[1] = "run" \/ (k[1] = "fiber" /\ k[3] = InitWorker)

Call(c, k) ==
    /\ gilHolder = NoOne /\ call[c] = Idle /\ k \in Requests
    /\ InitFirst /\ ~ UsesInit(k) => workerState[InitWorker] \notin {"absent", "listed"}
    /\ InitFirst => \A d \in Clients \ {c} : ~ (call[d] # Idle /\ UsesInit(call[d]))
    /\ gilHolder' = c
    /\ call' = [call EXCEPT ![c] = k]
    /\ UNCHANGED <<lockHolder, shutdown, workers, killed, pendingThunks, threadVars,
                   procVars, clean, interrupted>>

\* The client c is inside k, has the GIL, and lock_ is free.
Inside(c, op) == call[c][1] = op /\ gilHolder = c /\ lockHolder = NoOne
Return(c) == gilHolder' = NoOne /\ call' = [call EXCEPT ![c] = Idle]

Throw(c) == gilHolder' = NoOne /\ call' = [call EXCEPT ![c] = Threw]

\* AssertRunning, "Process can only be launched a single time".
Throws(c) ==
    /\ call[c][1] \in {"worker", "fiber", "launch", "run"} /\ Inside(c, call[c][1])
    /\ ~ shutdown => call[c][1] = "launch" /\ pid[call[c][2]] # 0
    /\ Throw(c)
    /\ UNCHANGED <<lockHolder, shutdown, workers, killed, pendingThunks, threadVars,
                   procVars, clean, interrupted>>

\* CreateWorker lists the worker under lock_; the initializer (which makes the
\* event loop, in Python, so the GIL may change hands) and Start come after.
CreateWorker(c) ==
    /\ Inside(c, "worker") /\ ~ shutdown
    /\ workers' = Append(workers, call[c][2])
    /\ workerState' = [workerState EXCEPT ![call[c][2]] = "listed"]
    /\ call' = [call EXCEPT ![c] = <<"initialize", call[c][2]>>]
    /\ gilHolder' = NoOne
    /\ UNCHANGED <<lockHolder, shutdown, killed, deaf, pendingThunks, nextThunks,
                   procVars, clean, interrupted>>
StartWorker(c) ==
    /\ call[c][1] = "initialize" /\ gilHolder = NoOne
    /\ workerState' = [workerState EXCEPT ![call[c][2]] = "starting"]
    /\ call' = [call EXCEPT ![c] = Idle]
    /\ UNCHANGED <<gilHolder, lockHolder, shutdown, workers, killed, deaf, pendingThunks,
                   nextThunks, procVars, clean, interrupted>>

\* init_worker, when __init__ does not exist: the initializer runs under lock_.
\* The call goes on afterwards with what needed the worker.
InitWorkerBegins(c) ==
    /\ UsesInit(call[c]) /\ Inside(c, call[c][1]) /\ ~ shutdown
    /\ workerState[InitWorker] = "absent"
    /\ workers' = Append(workers, InitWorker)
    /\ workerState' = [workerState EXCEPT ![InitWorker] = "listed"]
    /\ lockHolder' = c /\ gilHolder' = NoOne
    /\ UNCHANGED <<shutdown, killed, deaf, pendingThunks, nextThunks, procVars, call,
                   clean, interrupted>>
InitWorkerEnds(c) ==
    /\ lockHolder = c /\ gilHolder = NoOne
    /\ workerState' = [workerState EXCEPT ![InitWorker] = "ready"]
    /\ lockHolder' = NoOne /\ gilHolder' = c
    /\ UNCHANGED <<shutdown, workers, killed, deaf, pendingThunks, nextThunks, procVars,
                   call, clean, interrupted>>

\* CreateFiber, and the process that is made with the fiber.
CreateFiber(c) ==
    /\ Inside(c, "fiber") /\ ~ shutdown
    /\ call[c][3] = InitWorker => workerState[InitWorker] # "absent"
    /\ home' = [home EXCEPT ![call[c][2]] = IF @ = NoOne THEN call[c][3] ELSE @]
    /\ Return(c)
    /\ UNCHANGED <<lockHolder, shutdown, workers, killed, pendingThunks, threadVars,
                   nextPid, table, pid, leaving, terminated, place, awaits, failed, clean,
                   interrupted>>

\* Launch: AllocateProcess, then ScheduleOnWorker posts the process to its worker.
Launch(c) ==
    /\ Inside(c, "launch") /\ ~ shutdown
    /\ LET p == call[c][2]
       IN  /\ pid[p] = 0
           /\ pid' = [pid EXCEPT ![p] = nextPid]
           /\ table' = table \union {<<nextPid, p>>}
           /\ place' = [place EXCEPT ![p] = "posted"]
           /\ pendingThunks' = [pendingThunks EXCEPT ![home[p]] = Append(@, p)]
    /\ nextPid' = nextPid + 1
    /\ Return(c)
    /\ UNCHANGED <<lockHolder, shutdown, workers, killed, threadVars, leaving, terminated,
                   home, awaits, failed, clean, interrupted>>

\* RunInForeground: post the coroutine to __init__, give it a thread, join it.
RunInForeground(c) ==
    /\ Inside(c, "run") /\ ~ shutdown /\ workerState[InitWorker] # "absent"
    /\ IF place[Root] = "new"
       THEN /\ pendingThunks' = [pendingThunks EXCEPT ![InitWorker] = Append(@, Root)]
            /\ workerState' = [workerState EXCEPT ![InitWorker] = "starting"]
            /\ place' = [place EXCEPT ![Root] = "posted"]
            /\ call' = [call EXCEPT ![c] = <<"join">>]
       ELSE \* "Cannot RunOnCurrentThread if already finished"
            /\ call' = [call EXCEPT ![c] = Threw]
            /\ UNCHANGED <<pendingThunks, workerState, place>>
    /\ gilHolder' = NoOne
    /\ UNCHANGED <<lockHolder, shutdown, workers, killed, deaf, nextThunks, nextPid, table,
                   pid, leaving, terminated, home, awaits, failed, clean, interrupted>>
Joined(c) ==
    /\ call[c] = <<"join">> /\ workerState[InitWorker] = "ended" /\ gilHolder = NoOne
    /\ gilHolder' = c
    /\ call' = [call EXCEPT ![c] = <<"shutdown">>]
    /\ UNCHANGED <<lockHolder, shutdown, workers, killed, pendingThunks, threadVars,
                   procVars, clean, interrupted>>
Interrupt(c) ==
    /\ call[c] = <<"join">> /\ ~ interrupted /\ gilHolder = NoOne
    /\ interrupted' = TRUE
    /\ killed' = [killed EXCEPT ![InitWorker] = TRUE]
    /\ UNCHANGED <<gilHolder, lockHolder, shutdown, workers, pendingThunks, threadVars,
                   procVars, call, clean>>

\* Mutant: the GIL is kept.
WaitGuardHoldsGil(c, s) ==
    /\ call' = [call EXCEPT ![c] = IF s = {} THEN Idle ELSE <<"wait", s>>]
    /\ gilHolder' = IF s = {} THEN NoOne ELSE c
    /\ clean' = (clean \/ s = {})

\* WaitForShutdown of the workers at the indices s, in their order: the guard
\* releases the GIL for each wait.  blocking_executor_.Kill() follows (module
\* BlockingExecutor).
WaitForShutdown(c, s) ==
    /\ call' = [call EXCEPT ![c] = IF s = {} THEN Idle ELSE <<"wait", s>>]
    /\ gilHolder' = NoOne
    /\ clean' = (clean \/ s = {})

\* Shutdown: the workers are copied under lock_ and killed in order.  Kill throws
\* for a worker CreateWorker has listed and not started.
Shutdown(c) ==
    /\ Inside(c, "shutdown")
    /\ shutdown' = TRUE
    /\ LET unstarted == {i \in DOMAIN workers : workerState[workers[i]] = "listed"}
           reached == {i \in DOMAIN workers : \A j \in unstarted : i < j}
       IN  /\ killed' = [w \in AllWorkers |->
                            killed[w] \/ (~ shutdown /\ \E i \in reached : workers[i] = w)]
           /\ IF shutdown THEN Return(c) /\ UNCHANGED clean
              ELSE IF unstarted # {} THEN Throw(c) /\ UNCHANGED clean
              ELSE WaitForShutdown(c, {i \in DOMAIN workers : workers[i] \in Owned})
    /\ UNCHANGED <<lockHolder, workers, pendingThunks, threadVars, procVars, interrupted>>
WorkerAwaited(c) ==
    /\ call[c][1] = "wait" /\ gilHolder \in {NoOne, c}
    /\ \E i \in call[c][2] :
          /\ \A j \in call[c][2] : i <= j
          /\ workerState[workers[i]] = "ended"
          /\ WaitForShutdown(c, call[c][2] \ {i})
    /\ UNCHANGED <<lockHolder, shutdown, workers, killed, pendingThunks, threadVars,
                   procVars, interrupted>>

-----------------------------------------------------------------------------
(***************************************************************************)
(* The thread of a worker: RunOnThread, with the Python extension.         *)
(***************************************************************************)

workerUnchanged == <<lockHolder, shutdown, workers, killed, call, clean, interrupted>>

\* OnThreadStart and OnThreadStop set and reset the event loop under the GIL.
ThreadStarts(w) ==
    /\ workerState[w] = "starting" /\ gilHolder = NoOne
    /\ workerState' = [workerState EXCEPT ![w] = "running"]
    /\ UNCHANGED <<gilHolder, workerUnchanged, deaf, pendingThunks, nextThunks, procVars>>
ThreadStops(w) ==
    /\ workerState[w] = "stopping" /\ gilHolder = NoOne
    /\ workerState' = [workerState EXCEPT ![w] = "ended"]
    /\ UNCHANGED <<gilHolder, workerUnchanged, deaf, pendingThunks, nextThunks, procVars>>

\* The loop sees kill_ between two drains.
LoopExits(w) ==
    /\ workerState[w] = "running" /\ killed[w]
    /\ nextThunks[w] = <<>> /\ gilHolder # w
    /\ workerState' = [workerState EXCEPT ![w] = "stopping"]
    /\ UNCHANGED <<gilHolder, workerUnchanged, deaf, pendingThunks, nextThunks, procVars>>

\* TransactLoop takes the posted thunks; ended by kill_ or a failure, it is deaf.
TakeThunks(w) ==
    /\ workerState[w] = "running" /\ ~ killed[w] /\ ~ deaf[w]
    /\ nextThunks[w] = <<>> /\ pendingThunks[w] # <<>> /\ gilHolder # w
    /\ nextThunks' = [nextThunks EXCEPT ![w] = pendingThunks[w]]
    /\ pendingThunks' = [pendingThunks EXCEPT ![w] = <<>>]
    /\ UNCHANGED <<gilHolder, workerUnchanged, workerState, deaf, procVars>>

\* Mutant: the event is not set.
TerminatingQuietly(w, p) ==
    /\ pid' = [pid EXCEPT ![p] = -1]
    /\ leaving' = [leaving EXCEPT ![p] = pid[p]]
    /\ place' = [place EXCEPT ![p] = "terminating"]
    /\ gilHolder' = w
    /\ UNCHANGED terminated

\* The first half of Terminate, under the process's lock; the worker keeps the
\* GIL until it has taken the process out of the table.
Terminating(w, p) ==
    /\ pid' = [pid EXCEPT ![p] = -1]
    /\ terminated' = [terminated EXCEPT ![p] = IF @ = "null" THEN @ ELSE "set"]
    /\ leaving' = [leaving EXCEPT ![p] = pid[p]]
    /\ place' = [place EXCEPT ![p] = "terminating"]
    /\ gilHolder' = w

\* RunOnWorker: run() returns a coroutine, which becomes a task, or it is a
\* plain function and the process terminates.
RunOnWorker(w) ==
    /\ workerState[w] = "running" /\ nextThunks[w] # <<>> /\ gilHolder = NoOne
    /\ nextThunks' = [nextThunks EXCEPT ![w] = Tail(@)]
    /\ \/ /\ place' = [place EXCEPT ![Head(nextThunks[w])] = "task"]
          /\ UNCHANGED <<gilHolder, pid, leaving, terminated>>
       \/ /\ Head(nextThunks[w]) \in Procs
          /\ Terminating(w, Head(nextThunks[w]))
    /\ UNCHANGED <<workerUnchanged, workerState, deaf, pendingThunks, nextPid, table, home,
                   awaits, failed>>

\* i has an operation in its worker's loop that may run now.
Steps(i) ==
    /\ home[i] # NoOne /\ workerState[home[i]] = "running"
    /\ nextThunks[home[i]] = <<>> /\ gilHolder = NoOne

\* A coroutine finishes, by returning or by raising; its done callback is queued.
Finishes(i) ==
    /\ place[i] = "task" /\ Steps(i)
    /\ place' = [place EXCEPT ![i] = "finished"]
    /\ failed' = failed
    /\ UNCHANGED <<gilHolder, workerUnchanged, threadVars, pendingThunks, nextPid, table,
                   pid, leaving, terminated, home, awaits>>
Raises(i) ==
    /\ place[i] = "task" /\ Steps(i) /\ Cardinality(failed) < MaxFailures
    /\ place' = [place EXCEPT ![i] = "finished"]
    /\ failed' = failed \union {i}
    /\ UNCHANGED <<gilHolder, workerUnchanged, threadVars, pendingThunks, nextPid, table,
                   pid, leaving, terminated, home, awaits>>

\* Mutant: the event is always made unset.
NewUnset(q) == IF terminated[q] = "null" THEN "unset" ELSE terminated[q]

\* Process.__await__ on q: OnTermination makes the event when there is none.
OnTermination(q) ==
    IF terminated[q] # "null" THEN terminated[q]
    ELSE IF pid[q] < 0 THEN "set" ELSE "unset"
Awaits(i, q) ==
    /\ place[i] = "task" /\ Steps(i) /\ q # i /\ home[q] # NoOne
    /\ terminated' = [terminated EXCEPT ![q] = OnTermination(q)]
    /\ place' = [place EXCEPT ![i] = "waiting"]
    /\ awaits' = [awaits EXCEPT ![i] = q]
    /\ UNCHANGED <<gilHolder, workerUnchanged, threadVars, pendingThunks, nextPid, table,
                   pid, leaving, home, failed>>
Resumes(i) ==
    /\ place[i] = "waiting" /\ terminated[awaits[i]] = "set" /\ Steps(i)
    /\ place' = [place EXCEPT ![i] = "task"]
    /\ awaits' = [awaits EXCEPT ![i] = NoOne]
    /\ UNCHANGED <<gilHolder, workerUnchanged, threadVars, pendingThunks, nextPid, table,
                   pid, leaving, terminated, home, failed>>

\* The done callback of a process terminates it; that of run() kills __init__.
DoneCallback(p) ==
    /\ p \in Procs /\ place[p] = "finished" /\ Steps(p)
    /\ Terminating(home[p], p)
    /\ UNCHANGED <<workerUnchanged, threadVars, pendingThunks, nextPid, table, home, awaits,
                   failed>>
RootDone ==
    /\ place[Root] = "finished" /\ Steps(Root)
    /\ killed' = [killed EXCEPT ![InitWorker] = TRUE]
    /\ place' = [place EXCEPT ![Root] = "ended"]
    /\ UNCHANGED <<gilHolder, lockHolder, shutdown, workers, threadVars, pendingThunks,
                   nextPid, table, pid, leaving, terminated, home, awaits, failed, call, clean,
                   interrupted>>

\* DeallocateProcess, the second half of Terminate.  Then result() raises what
\* the coroutine raised, the event loop's exception handler raises again, and
\* the failed status aborts every operation of the worker's loop: its wait for
\* new thunks, the queued callbacks, and the waits, whose futures are given an
\* exception (the waiters in hit run once more, unless that is dropped too).
DeallocateProcess(p) ==
    /\ place[p] = "terminating" /\ gilHolder = home[p] /\ lockHolder = NoOne
    /\ table' = {e \in table : e[1] # leaving[p]}
    /\ leaving' = [leaving EXCEPT ![p] = 0]
    /\ gilHolder' = NoOne
    /\ \/ /\ p \notin failed
          /\ place' = [place EXCEPT ![p] = "ended"]
          /\ UNCHANGED <<deaf, awaits>>
       \/ /\ p \in failed
          /\ deaf' = [deaf EXCEPT ![home[p]] = TRUE]
          /\ \E hit \in SUBSET {i \in Coros : home[i] = home[p] /\ place[i] = "waiting"} :
                /\ place' = [i \in Coros |->
                      IF i = p THEN "ended"
                      ELSE IF i \in hit THEN "task"
                      ELSE IF home[i] = home[p] /\ place[i] \in {"task", "waiting", "finished"}
                      THEN "lost" ELSE place[i]]
                /\ awaits' = [i \in Coros |-> IF i \in hit THEN NoOne ELSE awaits[i]]
    /\ UNCHANGED <<workerUnchanged, workerState, pendingThunks, nextThunks, nextPid, pid,
                   terminated, home, failed>>

SystemNext ==
    \/ \E c \in Clients :
          \/ \E k \in Requests : Call(c, k)
          \/ Throws(c)
          \/ CreateWorker(c) \/ StartWorker(c)
          \/ InitWorkerBegins(c) \/ InitWorkerEnds(c)
          \/ CreateFiber(c) \/ Launch(c)
          \/ RunInForeground(c) \/ Joined(c) \/ Interrupt(c)
          \/ Shutdown(c) \/ WorkerAwaited(c)
    \/ \E w \in AllWorkers :
          \/ ThreadStarts(w) \/ LoopExits(w) \/ ThreadStops(w)
          \/ TakeThunks(w) \/ RunOnWorker(w)
    \/ \E i \in Coros :
          \/ Finishes(i) \/ Raises(i) \/ Resumes(i)
          \/ \E q \in Procs : Awaits(i, q)
    \/ \E p \in Procs : DoneCallback(p) \/ DeallocateProcess(p)
    \/ RootDone

SystemSpec == SystemInit /\ [][SystemNext]_systemVars

\* Threads are scheduled, a thread that waits for the GIL gets it in the end (the
\* interpreter makes its holder give it up), and queued callbacks run.  Coroutines
\* need not finish, and nobody has to call anything.
SystemFairness ==
    /\ \A c \in Clients :
          /\ WF_systemVars(Throws(c) \/ CreateWorker(c) \/ CreateFiber(c) \/ Launch(c)
                           \/ InitWorkerBegins(c) \/ RunInForeground(c) \/ Shutdown(c))
          /\ WF_systemVars(StartWorker(c)) /\ WF_systemVars(InitWorkerEnds(c))
          /\ WF_systemVars(Joined(c)) /\ WF_systemVars(WorkerAwaited(c))
    /\ \A w \in AllWorkers :
          /\ WF_systemVars(ThreadStarts(w)) /\ WF_systemVars(ThreadStops(w))
          /\ WF_systemVars(RunOnWorker(w))
          /\ WF_systemVars(LoopExits(w))
          /\ WF_systemVars(TakeThunks(w))
    /\ \A i \in Coros : WF_systemVars(Resumes(i))
    /\ \A p \in Procs : WF_systemVars(DoneCallback(p)) /\ WF_systemVars(DeallocateProcess(p))
    /\ WF_systemVars(RootDone)

-----------------------------------------------------------------------------
\* A process is in the table exactly while it has a pid, or is between the two
\* halves of Terminate; pids are never shared; and whoever asks for the
\* termination event, before, while or after the process ends, is given one that
\* is set exactly if it has terminated (process.cc, system.cc).
ProcessesTracked ==
    /\ \A p \in Procs :
          /\ {e[1] : e \in {f \in table : f[2] = p}}
                = {n \in {pid[p], leaving[p]} : n > 0}
          /\ terminated[p] = "set" => pid[p] = -1
          /\ pid[p] = -1 => terminated[p] # "unset"
    /\ \A e, f \in table : e[1] = f[1] => e = f

\* When Shutdown has gone through all its steps, no worker with a thread of its
\* own is left: none is running, and none will be started (system.cc:66-89; the
\* destructor frees the workers after that).
ShutdownIsFinal ==
    clean => \A w \in Owned : workerState[w] \in {"absent", "ended"}

\* The tables of the system are right at every moment, and nothing of it is left
\* running after a Shutdown.
SystemSound == ProcessesTracked /\ ShutdownIsFinal

\* Every call into the system returns, whatever the others do at the same time,
\* run() once __init__ is killed, and Shutdown while the workers it waits for
\* still need the GIL to stop (lib_ext.cc:213-215: "we must make arrangements to
\* release it. Otherwise shutdown can deadlock with processing").
Pending(c) == call[c] \notin {Idle, Threw} /\ (call[c] = <<"join">> => killed[InitWorker])
CallsReturn == \A c \in Clients : Pending(c) ~> ~ Pending(c)

\* A process that awaits one that has terminated goes on, unless its worker
\* stops or loses its loop to a failure.
AwaitersResume ==
    \A i \in Coros : \A p \in Procs :
        (place[i] = "waiting" /\ awaits[i] = p /\ pid[p] = -1)
            ~> (place[i] # "waiting" \/ killed[home[i]] \/ deaf[home[i]])
=============================================================================
