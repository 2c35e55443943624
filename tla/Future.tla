------------------------------- MODULE Future -------------------------------
(***************************************************************************)
(* The shared state of a shortfin Future (local/async.h, local/async.cc).  *)
(*                                                                         *)
(* A future belongs to one worker.  Any thread may set it or add callbacks *)
(* to it under its lock; the callbacks themselves are run by closures that *)
(* are posted to the worker: with CallLowLevel ("low") when the poster is  *)
(* on that worker, with CallThreadsafe ("ts") when it is not.  A closure   *)
(* owns one reference to the state.  The worker runs one closure at a      *)
(* time; the callbacks it runs may themselves use the future, and so may   *)
(* other threads while it runs them.                                       *)
(*                                                                         *)
(* A callback is the number of the AddCallback call that added it.  The    *)
(* lock is held from the first to the last access of every operation, so   *)
(* each is one step.                                                       *)
(***************************************************************************)
EXTENDS Integers, Sequences, Functions

CONSTANTS MaxCallbacks,     \* bound: number of AddCallback calls
          MaxHandles,       \* bound: Future objects that share the state
          MaxRefs           \* bound: ref_count_

ASSUME FutureAssumption == /\ MaxCallbacks \in Nat
                           /\ MaxHandles \in Nat \ {0}
                           /\ MaxRefs \in Nat \ {0}

VARIABLES typed,        \* TypedFuture or VoidFuture; never changes
          done,         \* done_
          failing,      \* failure_status_ is not OK
          result,       \* result_: "unset" or what set_result stored
          callbacks,    \* callbacks_
          added,        \* number of AddCallback calls so far
          posted,       \* closures on their way to the worker, by kind
          handling,     \* kind of the closure the worker is in, or "no"
          running,      \* the rest of HandleWorkerCallback's local vector
          ran,          \* callbacks that were called, in order
          ref_count,    \* ref_count_
          handles,      \* Future objects outside of the closures
          leaked,       \* references that no one will release
          lost,         \* the loop refused or aborted a closure
          threw,        \* a callback threw
          crashed       \* an exception escaped into the worker's C loop

state == <<done, failing, result>>
delivery == <<callbacks, added, handling, running, ran>>
refs == <<ref_count, handles>>
faults == <<lost, threw, crashed>>
futureVars == <<typed, state, delivery, posted, refs, leaked, faults>>

Posting == {"low", "ts"}
Results == {"unset", "r1", "r2"}

\* The fields of the shared state keep their types, and the counts of
\* references and closures never fall below zero.
FutureTypeOK == /\ typed \in BOOLEAN /\ done \in BOOLEAN /\ failing \in BOOLEAN
                /\ result \in Results
                /\ added \in Nat
                /\ callbacks \in Seq(1 .. added)
                /\ running \in Seq(1 .. added)
                /\ ran \in Seq(1 .. added)
                /\ posted \in [Posting -> Nat]
                /\ handling \in Posting \cup {"no"}
                /\ ref_count \in Nat /\ handles \in Nat /\ leaked \in Nat
                /\ lost \in BOOLEAN /\ threw \in BOOLEAN /\ crashed \in BOOLEAN

FutureInit == /\ typed \in BOOLEAN
              /\ done = FALSE /\ failing = FALSE /\ result = "unset"
              /\ callbacks = << >> /\ running = << >> /\ ran = << >> /\ added = 0
              /\ posted = [k \in Posting |-> 0]
              /\ handling = "no"
              /\ ref_count = 1 /\ handles = 1 /\ leaked = 0
              /\ lost = FALSE /\ threw = FALSE /\ crashed = FALSE

\* Somebody can call a method: a Future object exists, or a callback runs
\* and was given one.
Reachable == ~crashed /\ (handles > 0 \/ handling # "no")

\* The worker is in its loop, or in one of the future's closures.
InLoop == ~crashed /\ handling = "no"
InClosure == ~crashed /\ handling # "no"

----------------------------------------------------------------------------
\* IssueCallbacksWithLockHeld, when callbacks_ is cbs.  `here`: the calling
\* thread runs the worker that owns the future.  The reference is taken before
\* the closure is posted; when the loop's queue is full, CallLowLevel fails and
\* the exception leaves the reference behind.
Issue(cbs, here) ==
    \/ /\ cbs = << >>
       /\ UNCHANGED <<posted, ref_count, leaked, lost>>
    \/ /\ cbs # << >> /\ ref_count < MaxRefs
       /\ ref_count' = ref_count + 1
       /\ posted' = [posted EXCEPT ![IF here THEN "low" ELSE "ts"] = @ + 1]
       /\ UNCHANGED <<leaked, lost>>
    \/ /\ cbs # << >> /\ ref_count < MaxRefs
       /\ here
       /\ ref_count' = ref_count + 1
       /\ leaked' = leaked + 1
       /\ lost' = TRUE
       /\ UNCHANGED posted

\* VoidFuture::set_success does not look at done_.
set_success(here) == /\ Reachable /\ ~typed
                     /\ done' = TRUE
                     /\ Issue(callbacks, here)
                     /\ UNCHANGED <<typed, failing, result, delivery, handles,
                                    threw, crashed>>

\* The other two throw when the future is done.
set_failure(here) == /\ Reachable /\ ~done
                     /\ failing' = TRUE
                     /\ done' = TRUE
                     /\ Issue(callbacks, here)
                     /\ UNCHANGED <<typed, result, delivery, handles, threw,
                                    crashed>>

set_result(here, r) == /\ Reachable /\ typed /\ ~done
                       /\ result' = r
                       /\ done' = TRUE
                       /\ Issue(callbacks, here)
                       /\ UNCHANGED <<typed, failing, delivery, handles, threw,
                                      crashed>>

SetAgainThrows == /\ Reachable /\ done
                  /\ UNCHANGED futureVars

\* is_done, is_failure, ThrowFailure and result: ConsumeStatus hands the status
\* to the caller and leaves a clone of it behind.
ThrowFailure == Reachable /\ UNCHANGED futureVars

\* What AddCallback does but for issuing.
Added == /\ Reachable /\ added < MaxCallbacks
         /\ added' = added + 1
         /\ callbacks' = Append(callbacks, added + 1)
         /\ UNCHANGED <<typed, state, handling, running, ran, handles, threw, crashed>>

AddCallback(here) ==
    /\ Added
    /\ IF done /\ callbacks = << >>
          THEN Issue(callbacks', here)
          ELSE UNCHANGED <<posted, ref_count, leaked, lost>>

\* Mutant: a closure is run only as long as there is a Future object.
HandlerWantsOwner(kind) ==
    /\ InLoop /\ posted[kind] > 0 /\ handles > 0
    /\ posted' = [posted EXCEPT ![kind] = @ - 1]
    /\ handling' = kind
    /\ running' = callbacks
    /\ callbacks' = << >>
    /\ UNCHANGED <<typed, state, added, ran, refs, leaked, faults>>

\* The worker starts a closure, which steals its reference, and takes the
\* callbacks under the lock.
HandleWorkerCallback(kind) ==
    /\ InLoop /\ posted[kind] > 0
    /\ posted' = [posted EXCEPT ![kind] = @ - 1]
    /\ handling' = kind
    /\ running' = callbacks
    /\ callbacks' = << >>
    /\ UNCHANGED <<typed, state, added, ran, refs, leaked, faults>>

\* One callback is called, without the lock.
RunCallback == /\ InClosure /\ running # << >>
               /\ ran' = Append(ran, Head(running))
               /\ running' = Tail(running)
               /\ UNCHANGED <<typed, state, callbacks, added, handling, posted,
                              refs, leaked, faults>>

\* Mutant: the others go back, and nobody is told.
RunCallbackThrowsQuietly ==
    /\ InClosure /\ running # << >>
    /\ ran' = Append(ran, Head(running))
    /\ callbacks' = callbacks \o Tail(running)
    /\ running' = << >>
    /\ threw' = TRUE
    /\ crashed' = (handling = "ts")
    /\ UNCHANGED <<typed, state, added, handling, posted, refs, leaked, lost>>

\* It throws: the others go back behind whatever was added meanwhile, and the
\* exception leaves HandleWorkerCallback.  Out of a low-level closure it
\* becomes a status for the loop; out of a CallThreadsafe thunk nothing
\* catches it.
RunCallbackThrows ==
    /\ InClosure /\ running # << >>
    /\ ran' = Append(ran, Head(running))
    /\ callbacks' = callbacks \o Tail(running)
    /\ running' = << >>
    /\ Issue(callbacks', TRUE)
    /\ threw' = TRUE
    /\ crashed' = (handling = "ts")
    /\ UNCHANGED <<typed, state, added, handling, handles>>

\* Release, of a Future object or of the closure's reference.
Release == ref_count' = ref_count - 1

\* Mutant: the closure does not adopt the reference.
HandlerLeaks == /\ InClosure /\ running = << >>
                /\ handling' = "no"
                /\ UNCHANGED <<typed, state, callbacks, added, running, ran,
                               posted, refs, leaked, faults>>

HandlerReturns == /\ InClosure /\ running = << >>
                  /\ Release
                  /\ handling' = "no"
                  /\ UNCHANGED <<typed, state, callbacks, added, running, ran,
                                 posted, handles, leaked, faults>>

\* The loop calls a closure with a failing status, as it does with what is
\* pending when an error has reached it: RawHandleWorkerCallback returns
\* before it adopts the reference.
RawHandleWorkerCallbackAborted ==
    /\ InLoop /\ threw /\ posted["low"] > 0
    /\ posted' = [posted EXCEPT !["low"] = @ - 1]
    /\ leaked' = leaked + 1
    /\ lost' = TRUE
    /\ UNCHANGED <<typed, state, delivery, refs, threw, crashed>>

\* The copy constructors, and Retain.
Copy == /\ Reachable /\ handles < MaxHandles /\ ref_count < MaxRefs
        /\ handles' = handles + 1
        /\ ref_count' = ref_count + 1
        /\ UNCHANGED <<typed, state, delivery, posted, leaked, faults>>

\* ~Future
Destroy == /\ ~crashed /\ handles > 0
           /\ handles' = handles - 1
           /\ Release
           /\ UNCHANGED <<typed, state, delivery, posted, leaked, faults>>

Client == \/ \E here \in BOOLEAN : \/ set_success(here)
                                   \/ set_failure(here)
                                   \/ \E r \in Results \ {"unset"} : set_result(here, r)
                                   \/ AddCallback(here)
          \/ SetAgainThrows
          \/ ThrowFailure
          \/ Copy
          \/ Destroy

WorkerStep == \/ \E kind \in Posting : HandleWorkerCallback(kind)
              \/ RunCallback
              \/ RunCallbackThrows
              \/ HandlerReturns
              \/ RawHandleWorkerCallbackAborted

FutureNext == Client \/ WorkerStep

\* The worker's loop runs whatever is posted to it until it is killed.
FutureFairness == /\ \A kind \in Posting : WF_futureVars(HandleWorkerCallback(kind))
                  /\ WF_futureVars(RunCallback)
                  /\ WF_futureVars(HandlerReturns)

FutureSpec == FutureInit /\ [][FutureNext]_futureVars

FutureFairSpec == FutureSpec /\ FutureFairness
----------------------------------------------------------------------------
(***************************************************************************)
(* Properties                                                              *)
(***************************************************************************)

\* A done future with callbacks left has a closure on its way that will run
\* them, whatever the order in which threads set it, add to it and run it, and
\* also when a callback throws: AddCallback posts only into an empty list and
\* relies on the closure of whoever filled it.  The loop refusing or aborting
\* a closure is the exception.
CallbacksScheduled ==
    done /\ callbacks # << >> /\ ~lost => posted["low"] + posted["ts"] > 0

\* Every callback is in exactly one place, still listed, about to run or
\* already called, so that none is dropped or called twice; none is taken up
\* before the future is done; and as long as none throws they are called in the
\* order in which they were added.
Callbacks == ran \o running \o callbacks

EachCallbackOnce ==
    /\ IsInjective(Callbacks)
    /\ Range(Callbacks) = 1 .. added
    /\ ran \o running # << >> => done
    /\ ~threw => Callbacks = [i \in 1 .. added |-> i]

\* The count is the number of references: the state is not deleted under a
\* Future object, a closure in flight or the handler, and is deleted after
\* the last of them unless the loop lost a closure.
References == handles + posted["low"] + posted["ts"]
                 + (IF handling = "no" THEN 0 ELSE 1)

RefCountExact == /\ ref_count = References + leaked
                 /\ leaked > 0 => lost

\* The callbacks of a done future are eventually called.
CallbacksRun ==
    (done /\ callbacks # << >>)
        ~> (callbacks \o running = << >> \/ lost \/ crashed)

\* Every callback is called exactly once, whatever order the future is set and
\* added to in, also when one of them throws; only a loop that lost a closure,
\* or an exception in it, may keep it from being called.
CallbacksDelivered == []EachCallbackOnce /\ CallbacksRun

\* "If the future is already satisfied, they will be queued for delivery on a
\* future cycle of the event loop": an AddCallback on a done future that returns
\* without an exception leaves a closure that will deliver its callback.
QueuedForDelivery ==
    [][done /\ added' # added /\ leaked' = leaked /\ ~threw
          => posted'["low"] + posted'["ts"] > 0]_futureVars
=============================================================================
