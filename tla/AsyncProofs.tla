---------------------------- MODULE AsyncProofs ----------------------------
(***************************************************************************)
(* Proofs about what coroutines exchange: Future, for any number of        *)
(* callbacks, handles and closures; Queue, for any number of readers,      *)
(* messages and reads, with and without the interpreter lock; Message, for *)
(* any finite set of threads and any number of references; and the shapes  *)
(* of InlinedDims, for any number of objects, any ranks and any elements.  *)
(***************************************************************************)
EXTENDS Future, Queue, Message, InlinedDims, ProofLemmas, SequenceTheorems

----------------------------------------------------------------------------
(***************************************************************************)
(* Future                                                                  *)
(***************************************************************************)
\* The three outcomes of IssueCallbacksWithLockHeld, in the terms that the
\* invariants use.
LEMMA IssueOutcomes ==
    ASSUME FutureTypeOK, NEW cbs, NEW here \in BOOLEAN, Issue(cbs, here)
    PROVE  /\ posted' \in [Posting -> Nat]
           /\ ref_count' \in Nat /\ leaked' \in Nat /\ lost' \in BOOLEAN
           /\ ref_count' - ref_count = (posted'["low"] - posted["low"])
                                         + (posted'["ts"] - posted["ts"])
                                         + (leaked' - leaked)
           /\ posted'["low"] >= posted["low"] /\ posted'["ts"] >= posted["ts"]
           /\ lost => lost'
           /\ leaked' # leaked => lost'
           /\ cbs # << >> /\ ~lost' => posted'["low"] + posted'["ts"] > 0
<1> USE DEF FutureTypeOK, Posting
<1>1. CASE cbs = << >> /\ UNCHANGED <<posted, ref_count, leaked, lost>>
  BY <1>1
<1>2. CASE /\ ref_count' = ref_count + 1
           /\ posted' = [posted EXCEPT ![IF here THEN "low" ELSE "ts"] = @ + 1]
           /\ UNCHANGED <<leaked, lost>>
  <2>1. CASE here
    <3>1. posted' = [posted EXCEPT !["low"] = @ + 1]
      BY <1>2, <2>1
    <3>2. posted'["low"] = posted["low"] + 1 /\ posted'["ts"] = posted["ts"]
      BY <3>1
    <3>3. QED
      BY <1>2, <3>1, <3>2
  <2>2. CASE ~here
    <3>1. posted' = [posted EXCEPT !["ts"] = @ + 1]
      BY <1>2, <2>2
    <3>2. posted'["ts"] = posted["ts"] + 1 /\ posted'["low"] = posted["low"]
      BY <3>1
    <3>3. QED
      BY <1>2, <3>1, <3>2
  <2>3. QED
    BY <2>1, <2>2
<1>3. CASE /\ ref_count' = ref_count + 1 /\ leaked' = leaked + 1
           /\ lost' = TRUE /\ UNCHANGED posted
  BY <1>3
<1>4. QED
  BY <1>1, <1>2, <1>3 DEF Issue

\* A closure leaves the worker's queue.
LEMMA TakeClosure ==
    ASSUME posted \in [Posting -> Nat], NEW kind \in Posting, posted[kind] > 0,
           posted' = [posted EXCEPT ![kind] = @ - 1]
    PROVE  /\ posted' \in [Posting -> Nat]
           /\ posted'["low"] + posted'["ts"] = posted["low"] + posted["ts"] - 1
<1>1. CASE kind = "low"
  BY <1>1 DEF Posting
<1>2. CASE kind = "ts"
  BY <1>2 DEF Posting
<1>3. QED
  BY <1>1, <1>2 DEF Posting

----------------------------------------------------------------------------
(***************************************************************************)
(* Type correctness and the reference count.  FutureTypeOK alone is not          *)
(* inductive: that ref_count stays a natural number when a reference is    *)
(* released rests on the count being exact.                                *)
(***************************************************************************)
IInv == FutureTypeOK /\ RefCountExact

\* Issuing callbacks keeps the count exact.
LEMMA IssueCounts ==
    ASSUME FutureTypeOK, RefCountExact, NEW cbs, NEW here \in BOOLEAN, Issue(cbs, here),
           handles' = handles, handling' = handling
    PROVE  /\ posted' \in [Posting -> Nat]
           /\ ref_count' \in Nat /\ leaked' \in Nat /\ lost' \in BOOLEAN
           /\ RefCountExact'
<1>1. /\ posted' \in [Posting -> Nat]
      /\ ref_count' \in Nat /\ leaked' \in Nat /\ lost' \in BOOLEAN
      /\ ref_count' - ref_count = (posted'["low"] - posted["low"])
                                    + (posted'["ts"] - posted["ts"])
                                    + (leaked' - leaked)
      /\ lost => lost'
      /\ leaked' # leaked => lost'
  BY IssueOutcomes
<1>2. posted \in [Posting -> Nat] /\ handles \in Nat /\ ref_count \in Nat /\ leaked \in Nat
  BY DEF FutureTypeOK
<1>3. ref_count' = References' + leaked'
  BY <1>1, <1>2 DEF RefCountExact, References, Posting
<1>4. leaked' > 0 => lost'
  BY <1>1, <1>2 DEF RefCountExact
<1>5. QED
  BY <1>1, <1>3, <1>4 DEF RefCountExact

\* Every step keeps the types and the count.
LEMMA CountStep == IInv /\ [FutureNext]_futureVars => IInv'
<1> SUFFICES ASSUME IInv, [FutureNext]_futureVars PROVE IInv'
  OBVIOUS
<1>1. FutureTypeOK /\ RefCountExact
  BY DEF IInv
<1>0. /\ handles \in Nat /\ ref_count \in Nat /\ leaked \in Nat
      /\ posted["low"] \in Nat /\ posted["ts"] \in Nat
  BY <1>1 DEF FutureTypeOK, Posting
<1>2. ASSUME NEW here \in BOOLEAN, set_success(here) PROVE IInv'
  <2>1. Issue(callbacks, here) BY <1>2 DEF set_success
  <2>2. /\ posted' \in [Posting -> Nat]
        /\ ref_count' \in Nat /\ leaked' \in Nat /\ lost' \in BOOLEAN
        /\ RefCountExact'
    BY <1>2, <1>1, <2>1, IssueCounts DEF set_success, delivery
  <2>3. FutureTypeOK'
    BY <1>2, <1>1, <2>2 DEF set_success, FutureTypeOK, delivery
  <2>4. QED BY <2>2, <2>3 DEF IInv
<1>3. ASSUME NEW here \in BOOLEAN, set_failure(here) PROVE IInv'
  <2>1. Issue(callbacks, here) BY <1>3 DEF set_failure
  <2>2. /\ posted' \in [Posting -> Nat]
        /\ ref_count' \in Nat /\ leaked' \in Nat /\ lost' \in BOOLEAN
        /\ RefCountExact'
    BY <1>3, <1>1, <2>1, IssueCounts DEF set_failure, delivery
  <2>3. FutureTypeOK'
    BY <1>3, <1>1, <2>2 DEF set_failure, FutureTypeOK, delivery
  <2>4. QED BY <2>2, <2>3 DEF IInv
<1>4. ASSUME NEW here \in BOOLEAN, NEW r \in Results \ {"unset"}, set_result(here, r)
      PROVE IInv'
  <2>1. Issue(callbacks, here) BY <1>4 DEF set_result
  <2>2. /\ posted' \in [Posting -> Nat]
        /\ ref_count' \in Nat /\ leaked' \in Nat /\ lost' \in BOOLEAN
        /\ RefCountExact'
    BY <1>4, <1>1, <2>1, IssueCounts DEF set_result, delivery
  <2>3. FutureTypeOK'
    BY <1>4, <1>1, <2>2 DEF set_result, FutureTypeOK, delivery
  <2>4. QED BY <2>2, <2>3 DEF IInv
<1>5. ASSUME NEW here \in BOOLEAN, AddCallback(here) PROVE IInv'
  <2>1. /\ added' \in Nat /\ callbacks' \in Seq(1 .. added')
        /\ running' \in Seq(1 .. added') /\ ran' \in Seq(1 .. added')
    <3>1. added' = added + 1 /\ callbacks' = Append(callbacks, added + 1)
          /\ running' = running /\ ran' = ran
      BY <1>5 DEF Added, AddCallback
    <3>2. /\ added \in Nat /\ callbacks \in Seq(1 .. added)
          /\ running \in Seq(1 .. added) /\ ran \in Seq(1 .. added)
      BY <1>1 DEF FutureTypeOK
    <3>3. ASSUME NEW s \in Seq(1 .. added) PROVE s \in Seq(1 .. added + 1)
      BY <3>2, <3>3
    <3>4. QED BY <3>1, <3>2, <3>3
  <2>2. CASE Issue(callbacks', here)
    <3>1. /\ posted' \in [Posting -> Nat]
          /\ ref_count' \in Nat /\ leaked' \in Nat /\ lost' \in BOOLEAN
          /\ RefCountExact'
      BY <1>5, <1>1, <2>2, IssueCounts DEF Added, AddCallback
    <3>2. FutureTypeOK'
      BY <1>5, <1>1, <2>1, <3>1 DEF Added, AddCallback, FutureTypeOK, state
    <3>3. QED BY <3>1, <3>2 DEF IInv
  <2>3. CASE UNCHANGED <<posted, ref_count, leaked, lost>>
    BY <1>1, <1>5, <2>1, <2>3 DEF IInv, RefCountExact, References, Added, AddCallback, FutureTypeOK, state
  <2>4. QED BY <1>5, <2>2, <2>3 DEF Added, AddCallback
<1>6. CASE SetAgainThrows \/ ThrowFailure \/ UNCHANGED futureVars
  BY <1>1, <1>6 DEF IInv, RefCountExact, References, SetAgainThrows, ThrowFailure, futureVars, FutureTypeOK, state, delivery, refs, faults
<1>7. CASE Copy
  <2>1. /\ handles' = handles + 1 /\ ref_count' = ref_count + 1
        /\ UNCHANGED <<posted, handling, leaked, lost>>
    BY <1>7 DEF Copy, delivery, faults
  <2>2. handles' \in Nat /\ ref_count' \in Nat
    BY <1>1, <2>1 DEF FutureTypeOK
  <2>3. FutureTypeOK'
    BY <1>1, <1>7, <2>2 DEF Copy, FutureTypeOK, state, delivery, faults
  <2>4. RefCountExact'
    BY <1>1, <1>0, <2>1 DEF RefCountExact, References
  <2>5. QED BY <2>3, <2>4 DEF IInv
<1>8. CASE Destroy
  <2>1. /\ handles > 0 /\ handles' = handles - 1 /\ ref_count' = ref_count - 1
        /\ UNCHANGED <<posted, handling, leaked, lost>>
    BY <1>8 DEF Destroy, Release, delivery, faults
  <2>2. handles' \in Nat /\ ref_count' \in Nat
    BY <1>1, <1>0, <2>1 DEF RefCountExact, References
  <2>3. FutureTypeOK'
    BY <1>1, <1>8, <2>2 DEF Destroy, FutureTypeOK, state, delivery, faults
  <2>4. RefCountExact'
    BY <1>1, <1>0, <2>1 DEF RefCountExact, References
  <2>5. QED BY <2>3, <2>4 DEF IInv
<1>9. ASSUME NEW kind \in Posting, HandleWorkerCallback(kind) PROVE IInv'
  <2>1. /\ posted' \in [Posting -> Nat]
        /\ posted'["low"] + posted'["ts"] = posted["low"] + posted["ts"] - 1
    BY <1>1, <1>9, TakeClosure DEF HandleWorkerCallback, FutureTypeOK
  <2>2. FutureTypeOK'
    BY <1>1, <1>9, <2>1 DEF HandleWorkerCallback, FutureTypeOK, state, refs, faults
  <2>3. /\ handling = "no" /\ handling' # "no"
        /\ UNCHANGED <<handles, ref_count, leaked, lost>>
    BY <1>9 DEF HandleWorkerCallback, InLoop, Posting, refs, faults
  <2>4. posted'["low"] \in Nat /\ posted'["ts"] \in Nat
    BY <2>1 DEF Posting
  <2>5. RefCountExact'
    BY <1>1, <1>0, <2>1, <2>3, <2>4 DEF RefCountExact, References
  <2>6. QED BY <2>2, <2>5 DEF IInv
<1>10. CASE RunCallback
  <2>1. ran' \in Seq(1 .. added) /\ running' \in Seq(1 .. added)
    BY <1>1, <1>10 DEF RunCallback, FutureTypeOK
  <2>2. QED
    BY <1>1, <1>10, <2>1 DEF IInv, RefCountExact, References, RunCallback, FutureTypeOK, state, refs, faults
<1>11. CASE RunCallbackThrows
  <2>1. /\ ran' \in Seq(1 .. added) /\ running' \in Seq(1 .. added)
        /\ callbacks' \in Seq(1 .. added)
    BY <1>1, <1>11 DEF RunCallbackThrows, FutureTypeOK
  <2>2. Issue(callbacks', TRUE) BY <1>11 DEF RunCallbackThrows
  <2>3. threw' \in BOOLEAN /\ crashed' \in BOOLEAN
    BY <1>11 DEF RunCallbackThrows
  <2>4. /\ posted' \in [Posting -> Nat]
        /\ ref_count' \in Nat /\ leaked' \in Nat /\ lost' \in BOOLEAN
        /\ RefCountExact'
    BY <1>11, <1>1, <2>2, IssueCounts DEF RunCallbackThrows
  <2>5. FutureTypeOK'
    BY <1>11, <1>1, <2>1, <2>3, <2>4 DEF RunCallbackThrows, FutureTypeOK, state
  <2>6. QED BY <2>4, <2>5 DEF IInv
<1>12. CASE HandlerReturns
  <2>1. ref_count' = ref_count - 1 /\ handling # "no" /\ handling' = "no"
        /\ UNCHANGED <<posted, handles, leaked, lost>>
    BY <1>12 DEF HandlerReturns, Release, InClosure, faults
  <2>2. ref_count' \in Nat
    BY <1>1, <2>1 DEF FutureTypeOK, Posting, RefCountExact, References
  <2>3. QED
    BY <1>1, <1>12, <2>1, <2>2 DEF IInv, RefCountExact, References, HandlerReturns, FutureTypeOK, state, faults, Posting
<1>13. CASE RawHandleWorkerCallbackAborted
  <2>1. /\ posted' \in [Posting -> Nat]
        /\ posted'["low"] + posted'["ts"] = posted["low"] + posted["ts"] - 1
    BY <1>1, <1>13, TakeClosure DEF RawHandleWorkerCallbackAborted, FutureTypeOK, Posting
  <2>2. /\ leaked' = leaked + 1 /\ lost' = TRUE
        /\ UNCHANGED <<handles, ref_count, handling>>
    BY <1>13 DEF RawHandleWorkerCallbackAborted, refs, delivery
  <2>3. posted'["low"] \in Nat /\ posted'["ts"] \in Nat /\ leaked' \in Nat
    BY <1>0, <2>1, <2>2 DEF Posting
  <2>4. RefCountExact'
    BY <1>1, <1>0, <2>1, <2>2, <2>3 DEF RefCountExact, References
  <2>5. FutureTypeOK'
    BY <1>1, <1>13, <2>1, <2>2, <2>3
       DEF RawHandleWorkerCallbackAborted, FutureTypeOK, state, delivery, refs
  <2>6. QED BY <2>4, <2>5 DEF IInv
<1>14. QED
  BY <1>2, <1>3, <1>4, <1>5, <1>6, <1>7, <1>8, <1>9, <1>10, <1>11, <1>12, <1>13
     DEF FutureNext, Client, WorkerStep

\* A new future has one reference, its first Future object.
LEMMA CountInit == FutureInit => IInv
<1> SUFFICES ASSUME FutureInit PROVE IInv
  OBVIOUS
<1>1. /\ added = 0 /\ callbacks = << >> /\ running = << >> /\ ran = << >>
      /\ posted = [k \in Posting |-> 0]
      /\ ref_count = 1 /\ handles = 1 /\ leaked = 0 /\ handling = "no"
  BY DEF FutureInit
<1>2. << >> \in Seq(1 .. 0) /\ [k \in Posting |-> 0] \in [Posting -> Nat]
  OBVIOUS
<1>3. FutureTypeOK
  <2>1. /\ typed \in BOOLEAN /\ done \in BOOLEAN /\ failing \in BOOLEAN
        /\ lost \in BOOLEAN /\ threw \in BOOLEAN /\ crashed \in BOOLEAN
        /\ result \in Results
    BY Zenon DEF FutureInit, Results
  <2>2. /\ added \in Nat /\ callbacks \in Seq(1 .. added)
        /\ running \in Seq(1 .. added) /\ ran \in Seq(1 .. added)
    BY <1>1, <1>2
  <2>3. /\ ref_count \in Nat /\ handles \in Nat /\ leaked \in Nat
        /\ handling \in Posting \cup {"no"} /\ posted \in [Posting -> Nat]
    BY <1>1, <1>2
  <2>4. QED
    BY <2>1, <2>2, <2>3 DEF FutureTypeOK
<1>4. RefCountExact
  BY <1>1 DEF RefCountExact, References, Posting
<1>5. QED
  BY <1>3, <1>4 DEF IInv

\* async.h/async.cc: the reference count of the shared state is exact in every
\* reachable state, for any number of Future objects and closures: the state is
\* deleted neither early nor, unless the loop loses a closure, never.
THEOREM CountCorrect == FutureSpec => [](FutureTypeOK /\ RefCountExact)
<1>1. IInv => FutureTypeOK /\ RefCountExact
  BY DEF IInv
<1>2. QED
  BY <1>1, CountInit, CountStep, PTL DEF FutureSpec
----------------------------------------------------------------------------
(***************************************************************************)
(* No callback is left behind.                                             *)
(***************************************************************************)

\* Every step leaves a closure behind for the callbacks that are left.
LEMMA ScheduledStep == FutureTypeOK /\ CallbacksScheduled /\ [FutureNext]_futureVars
                          => CallbacksScheduled'
<1> SUFFICES ASSUME FutureTypeOK, CallbacksScheduled, [FutureNext]_futureVars
             PROVE  CallbacksScheduled'
  OBVIOUS
<1>1. ASSUME NEW here \in BOOLEAN, NEW cbs, Issue(cbs, here), callbacks' = cbs
      PROVE  CallbacksScheduled'
  BY <1>1, IssueOutcomes DEF CallbacksScheduled
<1>2. ASSUME NEW here \in BOOLEAN, set_success(here) PROVE CallbacksScheduled'
  BY <1>1, <1>2 DEF set_success, delivery
<1>3. ASSUME NEW here \in BOOLEAN, set_failure(here) PROVE CallbacksScheduled'
  BY <1>1, <1>3 DEF set_failure, delivery
<1>4. ASSUME NEW here \in BOOLEAN, NEW r \in Results \ {"unset"}, set_result(here, r)
      PROVE CallbacksScheduled'
  BY <1>1, <1>4 DEF set_result, delivery
<1>5. ASSUME NEW here \in BOOLEAN, AddCallback(here) PROVE CallbacksScheduled'
  <2>1. CASE Issue(callbacks', here)
    BY <1>1, <2>1
  <2>2. CASE /\ ~(done /\ callbacks = << >>)
             /\ UNCHANGED <<posted, ref_count, leaked, lost>>
    BY <1>5, <2>2 DEF Added, AddCallback, CallbacksScheduled, state
  <2>3. QED BY <1>5, <2>1, <2>2 DEF Added, AddCallback
<1>6. CASE SetAgainThrows \/ ThrowFailure \/ UNCHANGED futureVars
  BY <1>6 DEF SetAgainThrows, ThrowFailure, futureVars, CallbacksScheduled, state, delivery,
              faults
<1>7. CASE Copy \/ Destroy
  BY <1>7 DEF Copy, Destroy, CallbacksScheduled, state, delivery, faults
<1>8. ASSUME NEW kind \in Posting, HandleWorkerCallback(kind)
      PROVE  CallbacksScheduled'
  BY <1>8 DEF HandleWorkerCallback, CallbacksScheduled
<1>9. CASE RunCallback \/ HandlerReturns
  BY <1>9 DEF RunCallback, HandlerReturns, CallbacksScheduled, state, faults
<1>10. CASE RunCallbackThrows
  BY <1>1, <1>10 DEF RunCallbackThrows
<1>11. CASE RawHandleWorkerCallbackAborted
  BY <1>11 DEF RawHandleWorkerCallbackAborted, CallbacksScheduled
<1>12. QED
  BY <1>2, <1>3, <1>4, <1>5, <1>6, <1>7, <1>8, <1>9, <1>10, <1>11
     DEF FutureNext, Client, WorkerStep

\* async.cc 85-170: whatever the interleaving of setters, adders and the worker,
\* and whichever callbacks throw, the callbacks of a done future have a closure
\* on its way, unless the loop refused or aborted one.
THEOREM Scheduled == FutureSpec => []CallbacksScheduled
<1>1. FutureInit => CallbacksScheduled
  BY DEF FutureInit, CallbacksScheduled
<1>2. QED
  BY <1>1, CountCorrect, ScheduledStep, PTL DEF FutureSpec

----------------------------------------------------------------------------
(***************************************************************************)
(* The inductive invariant of the queue's promises.  The readers that wait *)
(* do so in the order of their reads, later than every read that has been  *)
(* given a message; the backlog is later than every message given.         *)
(***************************************************************************)
Listed(r) == \/ \E i \in DOMAIN pending_readers : pending_readers[i] = r
             \/ \E i \in DOMAIN closing : closing[i] = r

\* pending_readers_: each waits for a future of its own that is not set.
PendingSound ==
    /\ \A i \in DOMAIN pending_readers :
          /\ alive[pending_readers[i]] /\ worker[pending_readers[i]]
          /\ Unset(read_future[pending_readers[i]])
          /\ \A d \in Given : d[1] < read_future[pending_readers[i]]
    /\ \A i, j \in DOMAIN pending_readers :
          i < j => read_future[pending_readers[i]] < read_future[pending_readers[j]]

\* async_close_readers: the same, except that the future of the first one may
\* have been set, and that a reader may be gone if the caller has no GIL.
ClosingSound ==
    /\ \A i \in DOMAIN closing :
          /\ worker[closing[i]] /\ (gil => alive[closing[i]])
          /\ read_future[closing[i]] \in DOMAIN futures
          /\ (i = 1 /\ reset_due) \/ Unset(read_future[closing[i]])
          /\ \A d \in delivering : d[1] # read_future[closing[i]]
    /\ \A i, j \in DOMAIN closing :
          i < j => read_future[closing[i]] < read_future[closing[j]]
    /\ closing # << >> => closed
    /\ reset_due => closing # << >>

\* What was written is in the backlog, in order, or given to a read, in order.
WrittenSound ==
    /\ \A i \in DOMAIN backlog : backlog[i] \in 1 .. written
    /\ \A i, j \in DOMAIN backlog : i < j => backlog[i] < backlog[j]
    /\ \A d \in Given : /\ d[1] \in DOMAIN futures /\ d[2] \in 1 .. written
                        /\ \A i \in DOMAIN backlog : d[2] < backlog[i]
    /\ \A d, e \in Given : (d[1] < e[1] => d[2] < e[2]) /\ (d[1] = e[1] => d = e)
    /\ \A m \in 1 .. written : \/ \E i \in DOMAIN backlog : backlog[i] = m
                               \/ \E d \in Given : d[2] = m
    /\ \A d \in delivering : Unset(d[1])

QueueInv == /\ QueueTypeOK /\ NoReaderWaitsInVain /\ PendingSound /\ ClosingSound
            /\ WrittenSound
            /\ \A r \in Readers : alive[r] /\ worker[r] => Listed(r)
\* A list from which something can be erased is not empty.
LEMMA NothingToErase == \A r : r \notin Range(<< >>)
  BY DEF Range

\* Every step keeps waiting readers and waiting messages apart, and waiting
\* readers and the closed queue.
LEMMA WaitStep == NoReaderWaitsInVain /\ [QueueNext]_queueVars => NoReaderWaitsInVain'
<1> SUFFICES ASSUME NoReaderWaitsInVain, [QueueNext]_queueVars PROVE NoReaderWaitsInVain'
  OBVIOUS
<1> USE DEF NoReaderWaitsInVain
<1>1. CASE WriteToBacklog
  BY <1>1 DEF WriteToBacklog
<1>2. CASE WriteToReader
  BY <1>2 DEF WriteToReader
<1>3. ASSUME NEW d \in delivering, SignalFuture(d) PROVE NoReaderWaitsInVain'
  BY <1>3 DEF SignalFuture
<1>4. CASE Close
  BY <1>4 DEF Close
<1>5. CASE CloseSignalsReader \/ CloseResetsReader
  BY <1>5 DEF CloseSignalsReader, CloseResetsReader
<1>6. ASSUME NEW r \in Readers, Read(r) PROVE NoReaderWaitsInVain'
  BY <1>6 DEF Read, ReadFromBacklog, ReadClosed, ReadWaits, ReadThrows, queueVars
<1>7. ASSUME NEW r \in Readers, DestroyReader(r) PROVE NoReaderWaitsInVain'
  <2>1. pending_readers = << >> => pending_readers' = << >>
    BY <1>7, NothingToErase DEF DestroyReader
  <2>2. QED
    BY <1>7, <2>1 DEF DestroyReader
<1>8. CASE CloseAgain \/ UNCHANGED queueVars
  BY <1>8 DEF CloseAgain, queueVars
<1>9. QED
  BY <1>1, <1>2, <1>3, <1>4, <1>5, <1>6, <1>7, <1>8 DEF QueueNext, WriteNoDelay

\* messaging.cc 44-96, 111-161: no message waits while a reader waits and no
\* reader waits on a closed queue, whatever the threads that write, read,
\* close and destroy readers do between the steps of each other's calls.
THEOREM NoVainWait == QueueSpec => []NoReaderWaitsInVain
<1>1. QueueInit => NoReaderWaitsInVain
  BY DEF QueueInit, NoReaderWaitsInVain
<1>2. QED
  BY <1>1, WaitStep, PTL DEF QueueSpec

----------------------------------------------------------------------------
\* What Given stands for, and its type.
LEMMA GivenMembers ==
  /\ \A d : d \in Given <=> \/ d \in delivering
                            \/ \E f \in DOMAIN futures : /\ futures[f] > 0
                                                         /\ d = <<f, futures[f]>>
  /\ QueueTypeOK => Given \subseteq (1 .. Len(futures)) \X Message
<1>1. \A d : d \in Given <=> \/ d \in delivering
                            \/ \E f \in DOMAIN futures : /\ futures[f] > 0
                                                         /\ d = <<f, futures[f]>>
  BY DEF Given
<1>2. ASSUME QueueTypeOK, NEW d \in Given PROVE d \in (1 .. Len(futures)) \X Message
  <2>1. DOMAIN futures = 1 .. Len(futures) /\ \A f \in DOMAIN futures : futures[f] \in Nat \cup {Waiting}
    BY <1>2 DEF QueueTypeOK
  <2>2. QED BY <1>1, <1>2, <2>1 DEF QueueTypeOK, Message, Waiting
<1>3. QED BY <1>1, <1>2

\* The queue starts in order.
LEMMA QueueInitKeeps == QueueInit => QueueInv
<1> SUFFICES ASSUME QueueInit PROVE QueueInv
  OBVIOUS
<1>0. DOMAIN << >> = {} /\ \A S : << >> \in Seq(S)
  OBVIOUS
<1>1. QueueTypeOK
  <2>1. Len(<< >>) = 0 /\ 0 .. 0 = {0}
    OBVIOUS
  <2>2. QED BY <1>0, <2>1 DEF QueueInit, QueueTypeOK
<1>2. Given = {}
  BY <1>0 DEF QueueInit, Given
<1>3. 1 .. written = {}
  BY DEF QueueInit
<1>4. QED
  BY <1>0, <1>1, <1>2, <1>3, Zenon
     DEF QueueInit, QueueInv, NoReaderWaitsInVain, PendingSound, ClosingSound, WrittenSound

\* A message written while no reader waits is the last of the backlog.
LEMMA WriteToBacklogKeeps == QueueInv /\ WriteToBacklog => QueueInv'
<1> SUFFICES ASSUME QueueInv, WriteToBacklog PROVE QueueInv'
  OBVIOUS
<1> USE DEF QueueInv
<1>0. /\ pending_readers = << >> /\ pending_readers' = << >> /\ written' = written + 1
      /\ backlog' = Append(backlog, written + 1)
      /\ UNCHANGED <<gil, closed, worker, read_future, alive, futures, delivering, closing, reset_due>>
  BY DEF WriteToBacklog, readers
<1>1. written + 1 \in Message /\ written \in Nat
  BY DEF QueueTypeOK, Message
<1>2. QueueTypeOK'
  BY <1>0, <1>1, AppendItems DEF QueueTypeOK
<1>3. NoReaderWaitsInVain'
  BY WaitStep DEF QueueNext, WriteNoDelay
<1>4. Given' = Given
  BY <1>0 DEF Given
<1>5. PendingSound'
  BY <1>0 DEF PendingSound
<1>6. ClosingSound'
  BY <1>0, Zenon DEF ClosingSound, Unset
<1>7. WrittenSound'
  <2>0. backlog \in Seq(Message)
    BY DEF QueueTypeOK
  <2>1. /\ Len(backlog) \in Nat /\ DOMAIN backlog = 1 .. Len(backlog)
        /\ DOMAIN backlog' = 1 .. (Len(backlog) + 1)
        /\ \A i \in DOMAIN backlog : backlog'[i] = backlog[i]
        /\ backlog'[Len(backlog) + 1] = written + 1
    BY <1>0, <1>1, <2>0, AppendItems
  <2>2. \A i \in DOMAIN backlog : backlog[i] \in 1 .. written
    BY DEF WrittenSound
  <2>3. \A i \in DOMAIN backlog' : backlog'[i] \in 1 .. written'
    BY <1>0, <1>1, <2>1, <2>2
  <2>4. \A i, j \in DOMAIN backlog' : i < j => backlog'[i] < backlog'[j]
    BY <1>1, <2>1, <2>2 DEF WrittenSound
  <2>5. \A d \in Given : /\ d[1] \in DOMAIN futures /\ d[2] \in 1 .. written'
                         /\ \A i \in DOMAIN backlog' : d[2] < backlog'[i]
    BY <1>0, <1>1, <2>1 DEF WrittenSound
  <2>6. \A m \in 1 .. written' : \/ \E i \in DOMAIN backlog' : backlog'[i] = m
                                 \/ \E d \in Given : d[2] = m
    <3> TAKE m \in 1 .. written'
    <3>1. CASE m = written + 1
      BY <1>1, <2>1, <3>1
    <3>2. CASE m \in 1 .. written
      BY <2>1, <3>2 DEF WrittenSound
    <3>3. QED BY <1>0, <1>1, <3>1, <3>2
  <2>7. \A d, e \in Given : (d[1] < e[1] => d[2] < e[2]) /\ (d[1] = e[1] => d = e)
    BY DEF WrittenSound
  <2>8. \A d \in delivering' : Unset(d[1])'
    BY <1>0 DEF WrittenSound, Unset
  <2>9. QED BY <1>0, <1>4, <2>3, <2>4, <2>5, <2>6, <2>7, <2>8, Zenon DEF WrittenSound
<1>8. \A r \in Readers : alive'[r] /\ worker'[r] => Listed(r)'
  BY <1>0 DEF Listed
<1>9. QED BY <1>2, <1>3, <1>5, <1>6, <1>7, <1>8

\* The first reader that waits gets the message: its future is later than those
\* of all reads that have got one, and the message too.
LEMMA WriteToReaderKeeps == QueueInv /\ WriteToReader => QueueInv'
<1> SUFFICES ASSUME QueueInv, WriteToReader PROVE QueueInv'
  OBVIOUS
<1> USE DEF QueueInv
<1> DEFINE h == Head(pending_readers)
           new == <<read_future[h], written + 1>>
<1>0. /\ pending_readers # << >> /\ pending_readers' = Tail(pending_readers) /\ written' = written + 1
      /\ delivering' = delivering \cup {new}
      /\ worker' = [worker EXCEPT ![h] = FALSE]
      /\ read_future' = [read_future EXCEPT ![h] = 0]
      /\ UNCHANGED <<gil, backlog, closed, alive, futures, closing, reset_due>>
  BY DEF WriteToReader
<1>1. written + 1 \in Message /\ written \in Nat
  BY DEF QueueTypeOK, Message
<1>2. /\ pending_readers \in Seq(Readers) /\ h = pending_readers[1] /\ h \in Readers
      /\ 1 \in DOMAIN pending_readers
      /\ Tail(pending_readers) \in Seq(Readers)
      /\ \A i \in DOMAIN pending_readers' :
            /\ i + 1 \in DOMAIN pending_readers /\ pending_readers'[i] = pending_readers[i + 1]
            /\ i \in Int /\ i > 0
      /\ \A i \in DOMAIN pending_readers :
            i = 1 \/ (i - 1 \in DOMAIN pending_readers' /\ pending_readers'[i - 1] = pending_readers[i])
  BY <1>0, TailItems DEF QueueTypeOK
<1> HIDE DEF h
<1>3. Unset(read_future[h]) /\ \A d \in Given : d[1] < read_future[h]
  BY <1>2 DEF PendingSound
<1>4. backlog = << >> /\ ~closed /\ closing = << >> /\ DOMAIN backlog = {} /\ DOMAIN closing = {}
  <2>1. backlog = << >> /\ ~closed /\ closing = << >>
    BY <1>0 DEF NoReaderWaitsInVain, ClosingSound
  <2>2. DOMAIN << >> = {}
    OBVIOUS
  <2>3. QED BY <2>1, <2>2, Zenon
<1>5. /\ DOMAIN futures = 1 .. Len(futures) /\ Len(futures) \in Nat
      /\ read_future[h] \in 1 .. Len(futures)
      /\ \A r \in Readers : read_future[r] \in 0 .. Len(futures)
  BY <1>2, <1>3 DEF QueueTypeOK, Unset
<1>6. QueueTypeOK'
  <2>1. worker' \in [Readers -> BOOLEAN] /\ read_future' \in [Readers -> 0 .. Len(futures)]
    BY <1>0, <1>2, <1>5 DEF QueueTypeOK
  <2>2. delivering' \in SUBSET ((1 .. Len(futures)) \X Message)
    BY <1>0, <1>1, <1>5 DEF QueueTypeOK
  <2>3. pending_readers' \in Seq(Readers) /\ written' \in Nat
    BY <1>0, <1>1, <1>2
  <2>4. QED BY <1>0, <2>1, <2>2, <2>3 DEF QueueTypeOK
<1>7. NoReaderWaitsInVain'
  BY WaitStep DEF QueueNext, WriteNoDelay
<1>8. Given' = Given \cup {new}
  BY <1>0 DEF Given
<1>9. \A i \in DOMAIN pending_readers' :
         /\ pending_readers'[i] \in Readers /\ pending_readers'[i] # h
         /\ read_future[h] < read_future[pending_readers'[i]]
         /\ read_future'[pending_readers'[i]] = read_future[pending_readers'[i]]
         /\ worker'[pending_readers'[i]] = worker[pending_readers'[i]]
  <2> TAKE i \in DOMAIN pending_readers'
  <2>1. pending_readers'[i] \in Readers /\ 1 < i + 1
    BY <1>2
  <2>2. read_future[pending_readers[1]] < read_future[pending_readers[i + 1]]
    BY <1>2, <2>1 DEF PendingSound
  <2>3. read_future[h] < read_future[pending_readers'[i]]
    BY <1>2, <2>2
  <2>4. pending_readers'[i] # h
    BY <1>5, <2>3
  <2>5. QED BY <1>0, <2>1, <2>3, <2>4 DEF QueueTypeOK
<1>10. PendingSound'
  <2>1. ASSUME NEW i \in DOMAIN pending_readers'
        PROVE  /\ alive'[pending_readers'[i]] /\ worker'[pending_readers'[i]]
               /\ Unset(read_future[pending_readers[i]])'
               /\ \A d \in Given' : d[1] < read_future'[pending_readers'[i]]
    <3>1. /\ alive[pending_readers'[i]] /\ worker[pending_readers'[i]]
          /\ Unset(read_future[pending_readers'[i]])
          /\ \A d \in Given : d[1] < read_future[pending_readers'[i]]
      BY <1>2 DEF PendingSound
    <3>2. Unset(read_future[pending_readers[i]])'
      BY <1>0, <1>9, <3>1 DEF Unset
    <3>3. \A d \in Given' : d[1] < read_future'[pending_readers'[i]]
      BY <1>8, <1>9, <3>1
    <3>4. QED BY <1>0, <1>9, <3>1, <3>2, <3>3
  <2>2. ASSUME NEW i \in DOMAIN pending_readers', NEW j \in DOMAIN pending_readers', i < j
        PROVE  read_future'[pending_readers'[i]] < read_future'[pending_readers'[j]]
    <3>1. i + 1 < j + 1
      BY <1>2, <2>2
    <3>2. read_future[pending_readers[i + 1]] < read_future[pending_readers[j + 1]]
      BY <1>2, <3>1 DEF PendingSound
    <3>3. QED BY <1>2, <1>9, <3>2
  <2>3. QED BY <2>1, <2>2 DEF PendingSound
<1>11. ClosingSound'
  BY <1>0, <1>4 DEF ClosingSound
<1>12. WrittenSound'
  <2>1. \A i \in DOMAIN backlog' : FALSE
    BY <1>0, <1>4
  <2>2. \A d \in Given : d[1] \in DOMAIN futures /\ d[2] \in 1 .. written
    BY DEF WrittenSound
  <2>3. \A d \in Given' : d[1] \in DOMAIN futures' /\ d[2] \in 1 .. written'
    BY <1>0, <1>1, <1>5, <1>8, <2>2
  <2>4. \A d, e \in Given' : (d[1] < e[1] => d[2] < e[2]) /\ (d[1] = e[1] => d = e)
    <3> TAKE d, e \in Given'
    <3>1. CASE d \in Given /\ e \in Given
      BY <3>1 DEF WrittenSound
    <3>2. CASE d = new /\ e = new
      BY <1>5, <3>2
    <3>3. CASE d = new /\ e \in Given
      BY <1>3, <1>5, <2>2, <3>3
    <3>4. CASE d \in Given /\ e = new
      BY <1>1, <1>3, <1>5, <2>2, <3>4
    <3>5. QED BY <1>8, <3>1, <3>2, <3>3, <3>4
  <2>5. \A m \in 1 .. written' : \E d \in Given' : d[2] = m
    <3> TAKE m \in 1 .. written'
    <3>1. CASE m = written + 1
      <4>1. new \in Given' /\ new[2] = m
        BY <1>8, <3>1
      <4>2. QED BY <4>1, Zenon
    <3>2. CASE m \in 1 .. written
      BY <1>4, <1>8, <3>2 DEF WrittenSound
    <3>3. QED BY <1>0, <1>1, <3>1, <3>2
  <2>6. \A d \in delivering' : Unset(d[1])'
    BY <1>0, <1>3 DEF WrittenSound, Unset
  <2>7. QED BY <2>1, <2>3, <2>4, <2>5, <2>6 DEF WrittenSound
<1>13. ASSUME NEW r \in Readers, alive'[r], worker'[r] PROVE Listed(r)'
  <2>1. r # h /\ worker[r] /\ alive[r]
    BY <1>0, <1>13 DEF QueueTypeOK
  <2>2. PICK i \in DOMAIN pending_readers : pending_readers[i] = r
    BY <1>4, <2>1 DEF Listed
  <2>3. i # 1
    BY <1>2, <2>1, <2>2
  <2>4. QED BY <1>2, <2>2, <2>3 DEF Listed
<1>14. QED BY <1>6, <1>7, <1>10, <1>11, <1>12, <1>13


\* Setting the future outside of the lock gives nothing that was not given.
LEMMA SignalFutureKeeps == \A d \in delivering : QueueInv /\ SignalFuture(d) => QueueInv'
<1> SUFFICES ASSUME NEW x \in delivering, QueueInv, SignalFuture(x) PROVE QueueInv'
  OBVIOUS
<1> USE DEF QueueInv
<1>0. /\ futures' = [futures EXCEPT ![x[1]] = x[2]]
      /\ delivering' = delivering \ {x}
      /\ UNCHANGED <<gil, backlog, pending_readers, closed, written, worker, read_future, alive,
                     closing, reset_due>>
  BY DEF SignalFuture, readers
<1>1. /\ x \in (1 .. Len(futures)) \X Message /\ x = <<x[1], x[2]>> /\ x[1] \in DOMAIN futures
      /\ x[2] \in Nat /\ x[2] > 0
  BY DEF QueueTypeOK, Message
<1>2. x \in Given /\ Unset(x[1])
  BY GivenMembers DEF WrittenSound
<1>3. /\ Len(futures') = Len(futures) /\ DOMAIN futures' = DOMAIN futures
      /\ futures'[x[1]] = x[2] /\ \A f \in DOMAIN futures : f # x[1] => futures'[f] = futures[f]
      /\ futures' \in Seq(Nat \cup {Waiting})
  BY <1>0, <1>1 DEF QueueTypeOK
<1>4. QueueTypeOK'
  BY <1>0, <1>3 DEF QueueTypeOK
<1>5. NoReaderWaitsInVain'
  BY WaitStep DEF QueueNext
<1>6. Given' = Given
  <2>1. \A d : d \in Given' <=> \/ d \in delivering'
                               \/ \E f \in DOMAIN futures' : futures'[f] > 0 /\ d = <<f, futures'[f]>>
    BY DEF Given
  <2>2. ASSUME NEW d \in Given PROVE d \in Given'
    <3>1. CASE d = x
      BY <1>1, <1>3, <2>1, <3>1
    <3>2. CASE d # x /\ d \in delivering
      BY <1>0, <2>1, <3>2
    <3>3. ASSUME NEW f \in DOMAIN futures, futures[f] > 0, d = <<f, futures[f]>> PROVE d \in Given'
      <4>1. f # x[1]
        BY <1>2, <3>3 DEF Unset, Waiting
      <4>2. QED BY <1>3, <2>1, <3>3, <4>1
    <3>4. QED BY <3>1, <3>2, <3>3, GivenMembers
  <2>3. ASSUME NEW d \in Given' PROVE d \in Given
    <3>1. CASE d \in delivering'
      BY <1>0, <3>1, GivenMembers
    <3>2. ASSUME NEW f \in DOMAIN futures', futures'[f] > 0, d = <<f, futures'[f]>> PROVE d \in Given
      <4>1. CASE f = x[1]
        BY <1>1, <1>2, <1>3, <3>2, <4>1
      <4>2. CASE f # x[1]
        BY <1>3, <3>2, <4>2, GivenMembers
      <4>3. QED BY <4>1, <4>2
    <3>3. QED BY <2>1, <3>1, <3>2
  <2>4. QED BY <2>2, <2>3
<1>7. \A f : f # x[1] /\ Unset(f) => f \in DOMAIN futures' /\ futures'[f] = Waiting
  BY <1>3 DEF Unset
<1>8. PendingSound'
  <2>1. ASSUME NEW i \in DOMAIN pending_readers
        PROVE  /\ read_future[pending_readers[i]] \in DOMAIN futures'
               /\ futures'[read_future[pending_readers[i]]] = Waiting
    <3>1. /\ Unset(read_future[pending_readers[i]])
          /\ x[1] < read_future[pending_readers[i]]
      BY <1>2 DEF PendingSound
    <3>2. x[1] # read_future[pending_readers[i]]
      BY <1>1, <3>1
    <3>3. QED BY <1>7, <3>1, <3>2
  <2>2. QED BY <1>0, <1>6, <2>1, Zenon DEF PendingSound, Unset
<1>9. ClosingSound'
  <2>1. ASSUME NEW i \in DOMAIN closing
        PROVE  /\ read_future[closing[i]] \in DOMAIN futures'
               /\ \/ i = 1 /\ reset_due
                  \/ /\ read_future[closing[i]] \in DOMAIN futures'
                     /\ futures'[read_future[closing[i]]] = Waiting
               /\ \A d \in delivering' : d[1] # read_future[closing[i]]
    <3>1. /\ x[1] # read_future[closing[i]] /\ read_future[closing[i]] \in DOMAIN futures
          /\ (i = 1 /\ reset_due) \/ Unset(read_future[closing[i]])
          /\ \A d \in delivering : d[1] # read_future[closing[i]]
      BY DEF ClosingSound
    <3>2. QED BY <1>0, <1>3, <1>7, <3>1
  <2>2. QED BY <1>0, <2>1, Zenon DEF ClosingSound, Unset
<1>10. WrittenSound'
  <2>1. ASSUME NEW d \in delivering' PROVE d[1] \in DOMAIN futures' /\ futures'[d[1]] = Waiting
    <3>1. d \in delivering /\ d # x /\ d \in Given
      BY <1>0, <2>1, GivenMembers
    <3>2. d[1] # x[1] /\ Unset(d[1])
      BY <1>2, <3>1 DEF WrittenSound
    <3>3. QED BY <1>7, <3>2
  <2>2. QED BY <1>0, <1>3, <1>6, <2>1, Zenon DEF WrittenSound, Unset
<1>11. \A r \in Readers : alive'[r] /\ worker'[r] => Listed(r)'
  BY <1>0 DEF Listed
<1>12. QED BY <1>4, <1>5, <1>8, <1>9, <1>10, <1>11

\* Close takes over the readers that wait; nobody is being closed yet.
LEMMA CloseKeeps == QueueInv /\ Close => QueueInv'
<1> SUFFICES ASSUME QueueInv, Close PROVE QueueInv'
  OBVIOUS
<1> USE DEF QueueInv
<1>0. /\ ~closed /\ closed' = TRUE
      /\ \/ backlog # << >> /\ UNCHANGED <<pending_readers, closing>>
         \/ closing' = pending_readers /\ pending_readers' = << >>
      /\ UNCHANGED <<gil, backlog, written, worker, read_future, alive, futures, delivering,
                     reset_due>>
  BY DEF Close, readers
<1>1. closing = << >> /\ ~reset_due /\ DOMAIN closing = {} /\ DOMAIN << >> = {}
  BY <1>0 DEF ClosingSound
<1>2. /\ closing' \in {<< >>, pending_readers}
      /\ pending_readers' = << >>
      /\ closing' = pending_readers
  BY <1>0, <1>1 DEF NoReaderWaitsInVain
<1>3. QueueTypeOK'
  <2>1. << >> \in Seq(Readers)
    OBVIOUS
  <2>2. QED BY <1>0, <1>2, <2>1 DEF QueueTypeOK
<1>4. NoReaderWaitsInVain'
  BY WaitStep DEF QueueNext
<1>5. Given' = Given
  BY <1>0 DEF Given
<1>6. PendingSound'
  BY <1>1, <1>2 DEF PendingSound
<1>7. ClosingSound'
  <2>1. ASSUME NEW i \in DOMAIN pending_readers
        PROVE  /\ worker[pending_readers[i]] /\ alive[pending_readers[i]]
               /\ read_future[pending_readers[i]] \in DOMAIN futures
               /\ Unset(read_future[pending_readers[i]])
               /\ \A d \in delivering : d[1] # read_future[pending_readers[i]]
    <3>1. /\ worker[pending_readers[i]] /\ alive[pending_readers[i]]
          /\ Unset(read_future[pending_readers[i]])
          /\ \A d \in Given : d[1] < read_future[pending_readers[i]]
      BY DEF PendingSound
    <3>2. \A d \in delivering : d[1] \in Int /\ d \in Given
      BY GivenMembers DEF QueueTypeOK
    <3>3. read_future[pending_readers[i]] \in Int
      BY <3>1 DEF Unset, QueueTypeOK
    <3>4. QED BY <3>1, <3>2, <3>3 DEF Unset
  <2>2. closing' # << >> => closed'
    BY <1>0
  <2>3. reset_due' => closing' # << >>
    BY <1>0, <1>1
  <2>4. \A i, j \in DOMAIN pending_readers :
           i < j => read_future[pending_readers[i]] < read_future[pending_readers[j]]
    BY DEF PendingSound
  <2>5. QED BY <1>0, <1>2, <2>1, <2>2, <2>3, <2>4, Zenon DEF ClosingSound, Unset
<1>8. WrittenSound'
  BY <1>0, <1>5, Zenon DEF WrittenSound, Unset
<1>9. \A r \in Readers : alive'[r] /\ worker'[r] => Listed(r)'
  BY <1>0, <1>1, <1>2 DEF Listed
<1>10. QED BY <1>3, <1>4, <1>6, <1>7, <1>8, <1>9

\* The future of a reader being closed is its own, and not set yet.
LEMMA CloseSignalsReaderKeeps == QueueInv /\ CloseSignalsReader => QueueInv'
<1> SUFFICES ASSUME QueueInv, CloseSignalsReader PROVE QueueInv'
  OBVIOUS
<1> USE DEF QueueInv
<1> DEFINE h == Head(closing)
           x == read_future[h]
<1>0. /\ closing # << >> /\ ~reset_due /\ reset_due' = TRUE
      /\ futures' = IF alive[h] THEN [futures EXCEPT ![x] = 0] ELSE futures
      /\ UNCHANGED <<gil, backlog, pending_readers, closed, written, worker, read_future, alive,
                     delivering, closing>>
  BY DEF CloseSignalsReader, readers
<1>1. h = closing[1] /\ 1 \in DOMAIN closing /\ DOMAIN closing \subseteq Nat \ {0}
  BY <1>0, TailItems DEF QueueTypeOK
<1>2. Unset(x) /\ \A d \in delivering : d[1] # x
  BY <1>0, <1>1 DEF ClosingSound
<1>3. \A i \in DOMAIN closing : i # 1 => read_future[closing[i]] # x
  <2> TAKE i \in DOMAIN closing
  <2> HAVE i # 1
  <2>1. 1 < i
    BY <1>1
  <2>2. x < read_future[closing[i]]
    BY <1>1, <2>1 DEF ClosingSound
  <2>3. x \in Int /\ read_future[closing[i]] \in Int
    BY <1>2 DEF QueueTypeOK, ClosingSound, Unset
  <2>4. QED BY <2>2, <2>3
<1> HIDE DEF x, h
<1>4. /\ Len(futures') = Len(futures) /\ DOMAIN futures' = DOMAIN futures
      /\ futures'[x] \in {0, Waiting}
      /\ \A f \in DOMAIN futures : f # x => futures'[f] = futures[f]
      /\ futures' \in Seq(Nat \cup {Waiting})
  <2>1. futures \in Seq(Nat \cup {Waiting}) /\ x \in DOMAIN futures /\ futures[x] = Waiting
    BY <1>2 DEF QueueTypeOK, Unset
  <2>2. CASE alive[h]
    <3>1. futures' = [futures EXCEPT ![x] = 0]
      BY <1>0, <2>2
    <3>2. 0 \in Nat \cup {Waiting}
      OBVIOUS
    <3>3. QED BY <2>1, <3>1, <3>2
  <2>3. CASE ~alive[h]
    BY <1>0, <2>1, <2>3
  <2>4. QED BY <2>2, <2>3
<1>5. QueueTypeOK'
  BY <1>0, <1>4 DEF QueueTypeOK
<1>6. NoReaderWaitsInVain'
  BY WaitStep DEF QueueNext
<1>7. Given' = Given
  <2>1. \A f \in DOMAIN futures : \/ futures'[f] = futures[f]
                                  \/ ~(futures'[f] > 0) /\ ~(futures[f] > 0)
    <3>1. ~(0 > 0) /\ ~(Waiting > 0)
      BY DEF Waiting
    <3>2. futures[x] = Waiting
      BY <1>2 DEF Unset
    <3> TAKE f \in DOMAIN futures
    <3>3. CASE f = x
      <4>1. futures'[x] = 0 \/ futures'[x] = Waiting
        BY <1>4
      <4>2. ~(futures'[x] > 0) /\ ~(futures[x] > 0)
        BY <3>1, <3>2, <4>1, Zenon
      <4>3. QED BY <3>3, <4>2, Zenon
    <3>4. CASE f # x
      <4>1. futures'[f] = futures[f]
        BY <1>4, <3>4
      <4>2. QED BY <4>1, Zenon
    <3>5. QED BY <3>3, <3>4
  <2>2. QED BY <1>0, <1>4, <2>1 DEF Given
<1>8. pending_readers' = << >> /\ DOMAIN pending_readers' = {}
  <2>1. pending_readers' = << >>
    BY <1>0 DEF ClosingSound, NoReaderWaitsInVain
  <2>2. QED BY <2>1
<1>9. PendingSound'
  BY <1>8 DEF PendingSound
<1>10. \A f : f # x /\ Unset(f) => f \in DOMAIN futures' /\ futures'[f] = Waiting
  BY <1>4 DEF Unset
<1>11. ClosingSound'
  <2>1. ASSUME NEW i \in DOMAIN closing
        PROVE  /\ read_future[closing[i]] \in DOMAIN futures'
               /\ \/ i = 1
                  \/ /\ read_future[closing[i]] \in DOMAIN futures'
                     /\ futures'[read_future[closing[i]]] = Waiting
    BY <1>0, <1>3, <1>4, <1>10 DEF ClosingSound
  <2>2. QED BY <1>0, <2>1, Zenon DEF ClosingSound, Unset
<1>12. WrittenSound'
  <2>1. ASSUME NEW d \in delivering' PROVE d[1] \in DOMAIN futures' /\ futures'[d[1]] = Waiting
    BY <1>0, <1>2, <1>10, <2>1 DEF WrittenSound
  <2>2. QED BY <1>0, <1>4, <1>7, <2>1, Zenon DEF WrittenSound, Unset
<1>13. \A r \in Readers : alive'[r] /\ worker'[r] => Listed(r)'
  BY <1>0 DEF Listed
<1>14. QED BY <1>5, <1>6, <1>9, <1>11, <1>12, <1>13

\* The reader that is reset is in no list any more.
LEMMA CloseResetsReaderKeeps == QueueInv /\ CloseResetsReader => QueueInv'
<1> SUFFICES ASSUME QueueInv, CloseResetsReader PROVE QueueInv'
  OBVIOUS
<1> USE DEF QueueInv
<1> DEFINE h == Head(closing)
<1>0. /\ closing # << >> /\ reset_due /\ reset_due' = FALSE
      /\ worker' = [worker EXCEPT ![h] = FALSE]
      /\ read_future' = [read_future EXCEPT ![h] = 0]
      /\ closing' = Tail(closing)
      /\ UNCHANGED <<gil, backlog, pending_readers, closed, written, alive, futures, delivering>>
  BY DEF CloseResetsReader
<1>1. /\ h = closing[1] /\ h \in Readers /\ 1 \in DOMAIN closing
      /\ Tail(closing) \in Seq(Readers)
      /\ \A i \in DOMAIN closing' : /\ i + 1 \in DOMAIN closing /\ closing'[i] = closing[i + 1]
                                    /\ i \in Int /\ i > 0
      /\ \A i \in DOMAIN closing : i = 1 \/ (i - 1 \in DOMAIN closing' /\ closing'[i - 1] = closing[i])
  BY <1>0, TailItems DEF QueueTypeOK
<1> HIDE DEF h
<1>2. /\ read_future[h] \in DOMAIN futures
      /\ \A f \in DOMAIN futures : f \in Int
      /\ \A r \in Readers : read_future[r] \in 0 .. Len(futures)
  BY <1>1 DEF ClosingSound, QueueTypeOK
<1>3. QueueTypeOK'
  <2>1. worker' \in [Readers -> BOOLEAN] /\ read_future' \in [Readers -> 0 .. Len(futures)]
    BY <1>0, <1>1, <1>2 DEF QueueTypeOK
  <2>2. QED BY <1>0, <1>1, <2>1 DEF QueueTypeOK
<1>4. NoReaderWaitsInVain'
  BY WaitStep DEF QueueNext
<1>5. Given' = Given
  BY <1>0 DEF Given
<1>6. pending_readers' = << >> /\ DOMAIN pending_readers' = {} /\ DOMAIN pending_readers = {} /\ closed
  <2>1. pending_readers' = << >> /\ pending_readers = << >> /\ closed
    BY <1>0 DEF ClosingSound, NoReaderWaitsInVain
  <2>2. QED BY <2>1
<1>7. PendingSound'
  BY <1>6 DEF PendingSound
<1>8. \A i \in DOMAIN closing' :
         /\ closing'[i] # h /\ closing'[i] \in Readers /\ i + 1 # 1
         /\ read_future'[closing'[i]] = read_future[closing'[i]]
         /\ worker'[closing'[i]] = worker[closing'[i]]
  <2> TAKE i \in DOMAIN closing'
  <2>1. closing'[i] \in Readers /\ 1 < i + 1
    BY <1>1
  <2>2. read_future[closing[1]] < read_future[closing[i + 1]]
    BY <1>1, <2>1 DEF ClosingSound
  <2>3. closing'[i] # h
    BY <1>1, <1>2, <2>2
  <2>4. QED BY <1>0, <2>1, <2>3 DEF QueueTypeOK
<1>9. ClosingSound'
  <2>1. ASSUME NEW i \in DOMAIN closing'
        PROVE  /\ worker'[closing'[i]] /\ (gil => alive[closing'[i]])
               /\ read_future'[closing'[i]] \in DOMAIN futures
               /\ Unset(read_future[closing'[i]])
               /\ \A d \in delivering : d[1] # read_future'[closing'[i]]
    BY <1>1, <1>8 DEF ClosingSound
  <2>2. ASSUME NEW i \in DOMAIN closing', NEW j \in DOMAIN closing', i < j
        PROVE  read_future'[closing'[i]] < read_future'[closing'[j]]
    <3>1. i + 1 < j + 1
      BY <1>1, <2>2
    <3>2. read_future[closing[i + 1]] < read_future[closing[j + 1]]
      BY <1>1, <3>1 DEF ClosingSound
    <3>3. QED BY <1>1, <1>8, <3>2
  <2>3. ASSUME NEW i \in DOMAIN closing'
        PROVE  read_future'[closing'[i]] \in DOMAIN futures' /\ futures'[read_future'[closing'[i]]] = Waiting
    BY <1>0, <1>8, <2>1 DEF Unset
  <2>4. closing' # << >> => closed'
    BY <1>0, <1>6
  <2>5. QED BY <1>0, <2>1, <2>2, <2>3, <2>4, Zenon DEF ClosingSound, Unset
<1>10. WrittenSound'
  BY <1>0, <1>5, Zenon DEF WrittenSound, Unset
<1>11. ASSUME NEW r \in Readers, alive'[r], worker'[r] PROVE Listed(r)'
  <2>1. r # h /\ worker[r] /\ alive[r]
    BY <1>0, <1>11 DEF QueueTypeOK
  <2>2. PICK i \in DOMAIN closing : closing[i] = r
    BY <1>6, <2>1 DEF Listed
  <2>3. i # 1
    BY <1>1, <2>1, <2>2
  <2>4. QED BY <1>1, <2>2, <2>3 DEF Listed
<1>12. QED BY <1>3, <1>4, <1>7, <1>9, <1>10, <1>11


\* A read that is answered at once: f is its future, m what it gets, and the
\* backlog loses its first message if that is what it gets.
LEMMA AnsweredRead ==
  ASSUME QueueInv, NEW m \in Nat, futures' = Append(futures, m),
         \/ m = 0 /\ backlog' = backlog
         \/ backlog # << >> /\ m = Head(backlog) /\ backlog' = Tail(backlog),
         NoReaderWaitsInVain',
         UNCHANGED <<gil, pending_readers, closed, written, worker, read_future, alive, delivering,
                     closing, reset_due>>
  PROVE  QueueInv'
<1> USE DEF QueueInv
<1> DEFINE n == Len(futures) + 1
           new == <<n, m>>
<1>1. /\ futures' \in Seq(Nat \cup {Waiting}) /\ Len(futures) \in Nat
      /\ Len(futures') = n /\ DOMAIN futures = 1 .. Len(futures) /\ DOMAIN futures' = 1 .. n
      /\ \A f \in DOMAIN futures : futures'[f] = futures[f]
      /\ futures'[n] = m
  BY AppendItems DEF QueueTypeOK
<1>2. \A f : Unset(f) => f \in DOMAIN futures' /\ futures'[f] = Waiting
  BY <1>1 DEF Unset
<1>3. backlog' \in Seq(Message) /\ (m > 0 => backlog # << >>)
  <2>1. backlog \in Seq(Message)
    BY DEF QueueTypeOK
  <2>2. backlog # << >> => Tail(backlog) \in Seq(Message)
    BY <2>1, TailItems
  <2>3. m = 0 => ~(m > 0)
    OBVIOUS
  <2>4. QED BY <2>1, <2>2, <2>3, Zenon
<1>4. QueueTypeOK'
  <2>1. read_future' \in [Readers -> 0 .. Len(futures')]
    BY <1>1 DEF QueueTypeOK
  <2>2. delivering' \in SUBSET ((1 .. Len(futures')) \X Message)
    BY <1>1 DEF QueueTypeOK
  <2>3. QED BY <1>1, <1>3, <2>1, <2>2 DEF QueueTypeOK
<1>5. \A d : d \in Given' <=> d \in Given \/ (m > 0 /\ d = new)
  <2>1. \A d : d \in Given' <=> \/ d \in delivering
                               \/ \E f \in DOMAIN futures' : futures'[f] > 0 /\ d = <<f, futures'[f]>>
    BY DEF Given
  <2>2. \A d : (\E f \in DOMAIN futures' : futures'[f] > 0 /\ d = <<f, futures'[f]>>)
               <=> \/ \E f \in DOMAIN futures : futures[f] > 0 /\ d = <<f, futures[f]>>
                   \/ m > 0 /\ d = new
    BY <1>1
  <2>3. QED BY <2>1, <2>2, GivenMembers
<1>6. PendingSound'
  <2>1. ASSUME NEW i \in DOMAIN pending_readers
        PROVE  \A d \in Given' : d[1] < read_future[pending_readers[i]]
    <3>1. pending_readers # << >> /\ backlog = << >>
      BY <2>1 DEF NoReaderWaitsInVain
    <3>2. Given' = Given
      BY <1>3, <1>5, <3>1
    <3>3. QED BY <3>2 DEF PendingSound
  <2>2. QED BY <1>2, <2>1, Zenon DEF PendingSound, Unset
<1>7. ClosingSound'
  <2>1. \A f \in DOMAIN futures : f \in DOMAIN futures'
    BY <1>1
  <2>2. QED BY <1>2, <2>1, Zenon DEF ClosingSound, Unset
<1>8. WrittenSound'
  <2>1. \A d \in Given : /\ d[1] \in 1 .. Len(futures) /\ d[2] \in 1 .. written
                         /\ \A i \in DOMAIN backlog : d[2] < backlog[i]
    BY <1>1 DEF WrittenSound
  <2>2. \A i \in DOMAIN backlog' : /\ backlog'[i] \in 1 .. written
                                   /\ \A d \in Given : d[2] < backlog'[i]
                                   /\ m < backlog'[i]
    <3>1. CASE m = 0 /\ backlog' = backlog
      BY <2>1, <3>1 DEF WrittenSound
    <3>2. CASE backlog # << >> /\ m = Head(backlog) /\ backlog' = Tail(backlog)
      <4>1. /\ m = backlog[1] /\ 1 \in DOMAIN backlog
            /\ \A i \in DOMAIN backlog' :
                  i + 1 \in DOMAIN backlog /\ backlog'[i] = backlog[i + 1] /\ i \in Int /\ i > 0
        BY <3>2, TailItems DEF QueueTypeOK
      <4>2. ASSUME NEW i \in DOMAIN backlog'
            PROVE  backlog[1] < backlog[i + 1]
        <5>1. 1 < i + 1
          BY <4>1
        <5>2. QED BY <4>1, <5>1 DEF WrittenSound
      <4>3. QED BY <2>1, <4>1, <4>2 DEF WrittenSound
    <3>3. QED BY <3>1, <3>2
  <2>3. \A i, j \in DOMAIN backlog' : i < j => backlog'[i] < backlog'[j]
    <3>1. CASE backlog' = backlog
      BY <3>1 DEF WrittenSound
    <3>2. CASE backlog # << >> /\ backlog' = Tail(backlog)
      <4> TAKE i, j \in DOMAIN backlog'
      <4>1. /\ i + 1 \in DOMAIN backlog /\ backlog'[i] = backlog[i + 1] /\ i \in Int
            /\ j + 1 \in DOMAIN backlog /\ backlog'[j] = backlog[j + 1] /\ j \in Int
        BY <3>2, TailItems DEF QueueTypeOK
      <4>2. i < j => i + 1 < j + 1
        BY <4>1
      <4>3. QED BY <4>1, <4>2 DEF WrittenSound
    <3>3. QED BY <3>1, <3>2
  <2>4. m > 0 => m \in 1 .. written /\ \A d \in Given : d[2] < m
    BY <2>1, TailItems DEF QueueTypeOK, WrittenSound
  <2>5. \A d \in Given' : /\ d[1] \in DOMAIN futures' /\ d[2] \in 1 .. written
                          /\ \A i \in DOMAIN backlog' : d[2] < backlog'[i]
    <3> TAKE d \in Given'
    <3>1. CASE d \in Given
      BY <1>1, <2>1, <2>2, <3>1
    <3>2. CASE m > 0 /\ d = new
      BY <1>1, <2>2, <2>4, <3>2
    <3>3. QED BY <1>5, <3>1, <3>2
  <2>6. \A d, e \in Given' : (d[1] < e[1] => d[2] < e[2]) /\ (d[1] = e[1] => d = e)
    <3> TAKE d, e \in Given'
    <3>1. CASE d \in Given /\ e \in Given
      BY <3>1 DEF WrittenSound
    <3>2. CASE d = new /\ e = new
      BY <1>1, <3>2
    <3>3. CASE d = new /\ e \in Given
      BY <1>1, <2>1, <3>3
    <3>4. CASE d \in Given /\ m > 0 /\ e = new
      BY <1>1, <2>1, <2>4, <3>4
    <3>5. QED BY <1>5, <3>1, <3>2, <3>3, <3>4
  <2>7. \A k \in 1 .. written : \/ \E i \in DOMAIN backlog' : backlog'[i] = k
                                \/ \E d \in Given' : d[2] = k
    <3> TAKE k \in 1 .. written
    <3>1. ASSUME NEW d \in Given, d[2] = k PROVE \E e \in Given' : e[2] = k
      BY <1>5, <3>1
    <3>2. ASSUME NEW i \in DOMAIN backlog, backlog[i] = k
          PROVE  \/ \E j \in DOMAIN backlog' : backlog'[j] = k
                 \/ \E d \in Given' : d[2] = k
      <4>1. CASE backlog' = backlog
        BY <3>2, <4>1
      <4>2. CASE backlog # << >> /\ m = Head(backlog) /\ backlog' = Tail(backlog)
        <5>1. /\ m = backlog[1]
              /\ i = 1 \/ (i - 1 \in DOMAIN backlog' /\ backlog'[i - 1] = backlog[i])
          BY <4>2, TailItems DEF QueueTypeOK
        <5>2. CASE i = 1
          <6>1. m = k /\ m > 0
            BY <3>2, <5>1, <5>2
          <6>2. new \in Given' /\ new[2] = k
            BY <1>5, <6>1
          <6>3. QED BY <6>2, Zenon
        <5>3. QED BY <3>2, <5>1, <5>2
      <4>3. QED BY <4>1, <4>2
    <3>3. QED BY <3>1, <3>2 DEF WrittenSound
  <2>8. \A d \in delivering' : Unset(d[1])'
    BY <1>2 DEF WrittenSound, Unset
  <2>9. QED BY <2>2, <2>3, <2>5, <2>6, <2>7, <2>8 DEF WrittenSound
<1>9. \A r \in Readers : alive'[r] /\ worker'[r] => Listed(r)'
  BY DEF Listed
<1>10. QED BY <1>4, <1>6, <1>7, <1>8, <1>9

\* A read of a message, or of a closed queue.
LEMMA ReadAnsweredKeeps ==
  \A r \in Readers : QueueInv /\ (ReadFromBacklog(r) \/ ReadClosed(r)) => QueueInv'
<1> SUFFICES ASSUME NEW r \in Readers, QueueInv, ReadFromBacklog(r) \/ ReadClosed(r)
             PROVE  QueueInv'
  OBVIOUS
<1>1. NoReaderWaitsInVain'
  BY WaitStep DEF QueueInv, QueueNext, Read
<1>2. CASE ReadFromBacklog(r)
  <2>1. Head(backlog) \in Nat
    BY <1>2, TailItems DEF ReadFromBacklog, QueueInv, QueueTypeOK, Message
  <2>2. QED
    BY <1>1, <1>2, <2>1, AnsweredRead DEF ReadFromBacklog, readers
<1>3. CASE ReadClosed(r)
  BY <1>1, <1>3, AnsweredRead DEF ReadClosed, readers
<1>4. QED BY <1>2, <1>3

\* A read that waits is the last one: its future is later than all others.
LEMMA ReadWaitsKeeps == \A r \in Readers : QueueInv /\ ReadWaits(r) => QueueInv'
<1> SUFFICES ASSUME NEW q \in Readers, QueueInv, ReadWaits(q) PROVE QueueInv'
  OBVIOUS
<1> USE DEF QueueInv
<1> DEFINE n == Len(futures) + 1
           k == Len(pending_readers) + 1
<1>0. /\ alive[q] /\ ~worker[q] /\ backlog = << >> /\ ~closed
      /\ pending_readers' = Append(pending_readers, q)
      /\ futures' = Append(futures, Waiting)
      /\ worker' = [worker EXCEPT ![q] = TRUE]
      /\ read_future' = [read_future EXCEPT ![q] = n]
      /\ UNCHANGED <<gil, backlog, closed, written, alive, delivering, closing, reset_due>>
  BY DEF ReadWaits, CanRead
<1>1. /\ futures' \in Seq(Nat \cup {Waiting}) /\ Len(futures) \in Nat
      /\ Len(futures') = n /\ DOMAIN futures = 1 .. Len(futures) /\ DOMAIN futures' = 1 .. n
      /\ \A f \in DOMAIN futures : futures'[f] = futures[f]
      /\ futures'[n] = Waiting
  BY <1>0, AppendItems DEF QueueTypeOK
<1>2. \A f : Unset(f) => f \in DOMAIN futures' /\ futures'[f] = Waiting /\ f < n
  BY <1>1 DEF Unset
<1>3. /\ pending_readers' \in Seq(Readers) /\ Len(pending_readers) \in Nat
      /\ DOMAIN pending_readers = 1 .. Len(pending_readers) /\ DOMAIN pending_readers' = 1 .. k
      /\ \A i \in DOMAIN pending_readers : pending_readers'[i] = pending_readers[i]
      /\ pending_readers'[k] = q
  BY <1>0, AppendItems DEF QueueTypeOK
<1>4. closing = << >> /\ DOMAIN closing = {} /\ closing' = << >> /\ DOMAIN closing' = {}
  BY <1>0 DEF ClosingSound
<1>5. QueueTypeOK'
  <2>1. worker' \in [Readers -> BOOLEAN] /\ read_future' \in [Readers -> 0 .. Len(futures')]
    BY <1>0, <1>1 DEF QueueTypeOK
  <2>2. delivering' \in SUBSET ((1 .. Len(futures')) \X Message)
    BY <1>0, <1>1 DEF QueueTypeOK
  <2>3. QED BY <1>0, <1>1, <1>3, <2>1, <2>2 DEF QueueTypeOK
<1>6. NoReaderWaitsInVain'
  BY WaitStep DEF QueueNext, Read
<1>7. Given' = Given
  <2>1. \A d : d \in Given' <=> \/ d \in delivering'
                               \/ \E f \in DOMAIN futures' : futures'[f] > 0 /\ d = <<f, futures'[f]>>
    BY DEF Given
  <2>2. ~(Waiting > 0)
    BY DEF Waiting
  <2>3. \A f \in DOMAIN futures' : futures'[f] > 0 => f \in DOMAIN futures
    BY <1>1, <2>2
  <2>4. \A f \in DOMAIN futures : f \in DOMAIN futures' /\ futures'[f] = futures[f]
    BY <1>1
  <2>5. delivering' = delivering
    BY <1>0
  <2>6. \A d : d \in Given' <=> d \in Given
    BY <2>1, <2>3, <2>4, <2>5, GivenMembers, Zenon
  <2>7. QED BY <2>6
<1>8. \A d \in Given : d[1] < n
  BY <1>1 DEF WrittenSound
<1>9. \A i \in DOMAIN pending_readers :
         /\ pending_readers[i] \in Readers /\ pending_readers[i] # q
         /\ read_future'[pending_readers[i]] = read_future[pending_readers[i]]
         /\ worker'[pending_readers[i]] = worker[pending_readers[i]]
         /\ Unset(read_future[pending_readers[i]])
         /\ alive[pending_readers[i]] /\ worker[pending_readers[i]]
  <2> TAKE i \in DOMAIN pending_readers
  <2>1. /\ alive[pending_readers[i]] /\ worker[pending_readers[i]]
        /\ Unset(read_future[pending_readers[i]])
    BY DEF PendingSound
  <2>2. pending_readers[i] \in Readers
    BY DEF QueueTypeOK
  <2>3. pending_readers[i] # q
    BY <1>0, <2>1
  <2>4. QED BY <1>0, <2>1, <2>2, <2>3 DEF QueueTypeOK
<1>10. PendingSound'
  <2>1. ASSUME NEW i \in DOMAIN pending_readers'
        PROVE  /\ alive'[pending_readers'[i]] /\ worker'[pending_readers'[i]]
               /\ read_future'[pending_readers'[i]] \in DOMAIN futures'
               /\ futures'[read_future'[pending_readers'[i]]] = Waiting
               /\ \A d \in Given : d[1] < read_future'[pending_readers'[i]]
    <3>1. CASE i = k
      BY <1>0, <1>1, <1>3, <1>8, <3>1 DEF QueueTypeOK
    <3>2. CASE i \in DOMAIN pending_readers
      BY <1>0, <1>2, <1>3, <1>9, <3>2 DEF PendingSound
    <3>3. QED BY <1>3, <3>1, <3>2
  <2>2. ASSUME NEW i \in DOMAIN pending_readers', NEW j \in DOMAIN pending_readers', i < j
        PROVE  read_future'[pending_readers'[i]] < read_future'[pending_readers'[j]]
    <3>1. i \in DOMAIN pending_readers
      BY <1>3, <2>2
    <3>2. CASE j = k
      <4>1. read_future'[pending_readers'[j]] = n
        BY <1>0, <1>3, <3>2 DEF QueueTypeOK
      <4>2. QED BY <1>2, <1>3, <1>9, <3>1, <4>1
    <3>3. CASE j \in DOMAIN pending_readers
      BY <1>3, <1>9, <2>2, <3>1, <3>3 DEF PendingSound
    <3>4. QED BY <1>3, <3>2, <3>3
  <2>3. QED BY <1>7, <2>1, <2>2, Zenon DEF PendingSound, Unset
<1>11. ClosingSound'
  BY <1>0, <1>4 DEF ClosingSound
<1>12. WrittenSound'
  <2>1. \A d \in Given : d[1] \in DOMAIN futures'
    BY <1>1 DEF WrittenSound
  <2>2. \A d \in delivering : d[1] \in DOMAIN futures' /\ futures'[d[1]] = Waiting
    BY <1>2 DEF WrittenSound
  <2>3. QED BY <1>0, <1>7, <2>1, <2>2, Zenon DEF WrittenSound, Unset
<1>13. ASSUME NEW r \in Readers, alive'[r], worker'[r] PROVE Listed(r)'
  <2>1. CASE r = q
    <3>1. k \in DOMAIN pending_readers' /\ pending_readers'[k] = r
      BY <1>3, <2>1
    <3>2. QED BY <3>1, Zenon DEF Listed
  <2>2. CASE r # q
    <3>1. worker[r] /\ alive[r]
      BY <1>0, <1>13, <2>2 DEF QueueTypeOK
    <3>2. PICK i \in DOMAIN pending_readers : pending_readers[i] = r
      BY <1>4, <3>1 DEF Listed
    <3>3. i \in DOMAIN pending_readers' /\ pending_readers'[i] = r
      BY <1>3, <3>2
    <3>4. QED BY <3>3, Zenon DEF Listed
  <2>3. QED BY <2>1, <2>2
<1>14. QED BY <1>5, <1>6, <1>10, <1>11, <1>12, <1>13


\* The list s without the item at j, and what is left of it item by item.
Without(s, j) == SubSeq(s, 1, j - 1) \o SubSeq(s, j + 1, Len(s))

Left(t, s, j) ==
  /\ DOMAIN t \subseteq Int
  /\ \A i \in DOMAIN t : i < j => i \in DOMAIN s /\ t[i] = s[i]
  /\ \A i \in DOMAIN t : i >= j => i + 1 \in DOMAIN s /\ t[i] = s[i + 1]
  /\ \A i \in DOMAIN s : \/ i = j
                         \/ i < j /\ i \in DOMAIN t /\ t[i] = s[i]
                         \/ i > j /\ i - 1 \in DOMAIN t /\ t[i - 1] = s[i]

\* What erase leaves.
LEMMA WithoutItem ==
  ASSUME NEW S, NEW s \in Seq(S), NEW j \in DOMAIN s
  PROVE  Without(s, j) \in Seq(S) /\ Left(Without(s, j), s, j)
<1> DEFINE t == Without(s, j)
<1> DEFINE a == SubSeq(s, 1, j - 1)
           b == SubSeq(s, j + 1, Len(s))
<1>0. Len(s) \in Nat /\ DOMAIN s = 1 .. Len(s) /\ j \in 1 .. Len(s)
  OBVIOUS
<1>1. /\ a \in Seq(S) /\ Len(a) = j - 1 /\ \A i \in 1 .. (j - 1) : a[i] = s[i]
  <2>1. \A i \in 1 .. (j - 1) : s[i] \in S
    BY <1>0
  <2>2. /\ a \in Seq(S) /\ Len(a) = IF 1 <= j - 1 THEN (j - 1) - 1 + 1 ELSE 0
        /\ \A i \in 1 .. ((j - 1) - 1 + 1) : a[i] = s[1 + i - 1]
    BY <1>0, <2>1, SubSeqProperties
  <2> HIDE DEF a
  <2>3. QED BY <1>0, <2>2
<1>2. /\ b \in Seq(S) /\ Len(b) = Len(s) - j /\ \A i \in 1 .. (Len(s) - j) : b[i] = s[j + i]
  <2>1. \A i \in (j + 1) .. Len(s) : s[i] \in S
    BY <1>0
  <2>2. /\ b \in Seq(S) /\ Len(b) = IF j + 1 <= Len(s) THEN Len(s) - (j + 1) + 1 ELSE 0
        /\ \A i \in 1 .. (Len(s) - (j + 1) + 1) : b[i] = s[(j + 1) + i - 1]
    BY <1>0, <2>1, SubSeqProperties
  <2> HIDE DEF b
  <2> DEFINE n == Len(s)
  <2>3. n \in Nat /\ j \in 1 .. n
    BY <1>0
  <2>4. /\ b \in Seq(S) /\ Len(b) = IF j + 1 <= n THEN n - (j + 1) + 1 ELSE 0
        /\ \A i \in 1 .. (n - (j + 1) + 1) : b[i] = s[(j + 1) + i - 1]
    BY <2>2
  <2> HIDE DEF n
  <2>5. Len(b) = n - j
    BY <2>3, <2>4
  <2>6. \A i \in 1 .. (n - j) : b[i] = s[j + i]
    <3> TAKE i \in 1 .. (n - j)
    <3>1. j \in Int /\ i \in Int /\ n \in Int /\ 1 <= i /\ i <= n - j
      BY <2>3
    <3>2. i \in 1 .. (n - (j + 1) + 1)
      BY <3>1
    <3>3. (j + 1) + i - 1 = j + i
      BY <3>1
    <3>4. QED BY <2>4, <3>2, <3>3
  <2>7. QED BY <2>4, <2>5, <2>6 DEF n
<1> HIDE DEF a, b
<1>3. /\ a \o b \in Seq(S) /\ Len(a \o b) = Len(s) - 1
      /\ DOMAIN (a \o b) = 1 .. (Len(s) - 1)
      /\ \A i \in 1 .. (Len(s) - 1) : (a \o b)[i] = IF i <= j - 1 THEN a[i] ELSE b[i - (j - 1)]
  <2>1. /\ a \o b \in Seq(S) /\ Len(a \o b) = Len(a) + Len(b)
        /\ \A i \in 1 .. (Len(a) + Len(b)) :
              (a \o b)[i] = IF i <= Len(a) THEN a[i] ELSE b[i - Len(a)]
    BY <1>1, <1>2, ConcatProperties
  <2>2. Len(a) + Len(b) = Len(s) - 1
    BY <1>0, <1>1, <1>2
  <2>3. DOMAIN (a \o b) = 1 .. Len(a \o b)
    BY <2>1
  <2>4. QED BY <1>1, <2>1, <2>2, <2>3
<1>4. t = a \o b
  BY DEF a, b, Without
<1> HIDE DEF t
<1>5. /\ t \in Seq(S) /\ DOMAIN t = 1 .. (Len(s) - 1)
      /\ \A i \in 1 .. (Len(s) - 1) : /\ i < j => t[i] = s[i]
                                      /\ i >= j => t[i] = s[i + 1]
  <2>1. t \in Seq(S) /\ DOMAIN t = 1 .. (Len(s) - 1)
    BY <1>3, <1>4
  <2>2. ASSUME NEW i \in 1 .. (Len(s) - 1), i < j PROVE t[i] = s[i]
    <3>1. i \in 1 .. (j - 1) /\ i <= j - 1
      BY <1>0, <2>2
    <3>2. t[i] = a[i]
      BY <1>3, <1>4, <3>1
    <3>3. QED BY <1>1, <3>1, <3>2
  <2>3. ASSUME NEW i \in 1 .. (Len(s) - 1), i >= j PROVE t[i] = s[i + 1]
    <3>0. ~(i <= j - 1)
      BY <1>0, <2>3
    <3>1. t[i] = b[i - (j - 1)] /\ i - (j - 1) \in 1 .. (Len(s) - j)
      <4>1. t[i] = b[i - (j - 1)]
        BY <1>3, <1>4, <3>0
      <4>2. i - (j - 1) \in 1 .. (Len(s) - j)
        BY <1>0, <2>3
      <4>3. QED BY <4>1, <4>2
    <3>2. j + (i - (j - 1)) = i + 1
      BY <1>0
    <3>3. QED BY <1>2, <3>1, <3>2
  <2>4. QED BY <2>1, <2>2, <2>3
<1>6. \A i \in DOMAIN s : \/ i = j
                          \/ i < j /\ i \in DOMAIN t /\ t[i] = s[i]
                          \/ i > j /\ i - 1 \in DOMAIN t /\ t[i - 1] = s[i]
  <2> TAKE i \in DOMAIN s
  <2>1. CASE i < j
    BY <1>0, <1>5, <2>1
  <2>2. CASE i > j
    <3>1. i - 1 \in 1 .. (Len(s) - 1) /\ i - 1 >= j /\ (i - 1) + 1 = i
      BY <1>0, <2>2
    <3>2. QED BY <1>5, <2>2, <3>1
  <2>3. i < j \/ i > j \/ i = j
    BY <1>0
  <2>4. QED BY <2>1, <2>2, <2>3
<1>7. ASSUME NEW i \in DOMAIN t
      PROVE  /\ i < j => i \in DOMAIN s /\ t[i] = s[i]
             /\ i >= j => i + 1 \in DOMAIN s /\ t[i] = s[i + 1]
  <2>1. i \in 1 .. (Len(s) - 1)
    BY <1>5, <1>7
  <2>2. i \in 1 .. Len(s) /\ i + 1 \in 1 .. Len(s)
    BY <1>0, <2>1
  <2>3. QED BY <1>0, <1>5, <2>1, <2>2
<1>8. DOMAIN t \subseteq Int
  BY <1>5
<1>9. t \in Seq(S) /\ Left(t, s, j)
  BY <1>5, <1>6, <1>7, <1>8 DEF Left
<1>10. QED BY <1>9 DEF t

\* A reader that is destroyed leaves the list, if it is in it, and no other does.
LEMMA DestroyReaderKeeps == \A r \in Readers : QueueInv /\ DestroyReader(r) => QueueInv'
<1> SUFFICES ASSUME NEW q \in Readers, QueueInv, DestroyReader(q) PROVE QueueInv'
  OBVIOUS
<1> USE DEF QueueInv
<1>0. /\ MayCall /\ alive[q] /\ alive' = [alive EXCEPT ![q] = FALSE]
      /\ pending_readers' = IF read_future[q] # 0 /\ q \in Range(pending_readers)
                               THEN Erase(pending_readers, q) ELSE pending_readers
      /\ UNCHANGED <<gil, backlog, closed, written, worker, read_future, futures, delivering,
                     closing, reset_due>>
  BY DEF DestroyReader
<1>1. pending_readers \in Seq(Readers) /\ DOMAIN pending_readers \subseteq Int
  BY DEF QueueTypeOK
<1>2. \A i, j \in DOMAIN pending_readers : pending_readers[i] = pending_readers[j] => i = j
  <2> SUFFICES ASSUME NEW i \in DOMAIN pending_readers, NEW j \in DOMAIN pending_readers,
                      pending_readers[i] = pending_readers[j], i < j
               PROVE  FALSE
    BY <1>1
  <2>1. read_future[pending_readers[i]] < read_future[pending_readers[j]]
    BY DEF PendingSound
  <2>2. read_future[pending_readers[i]] \in Int
    BY DEF PendingSound, Unset, QueueTypeOK
  <2>3. QED BY <2>1, <2>2
\* What is left of the list.
<1>3. /\ pending_readers' \in Seq(Readers) /\ DOMAIN pending_readers' \subseteq Int
      /\ \A i \in DOMAIN pending_readers' :
            /\ pending_readers'[i] # q
            /\ \E k \in DOMAIN pending_readers : pending_readers'[i] = pending_readers[k]
      /\ \A i, j \in DOMAIN pending_readers' : i < j =>
            \E k, l \in DOMAIN pending_readers : /\ k < l
                                                 /\ pending_readers'[i] = pending_readers[k]
                                                 /\ pending_readers'[j] = pending_readers[l]
      /\ \A k \in DOMAIN pending_readers : pending_readers[k] # q =>
            \E i \in DOMAIN pending_readers' : pending_readers'[i] = pending_readers[k]
  <2>1. CASE q \in Range(pending_readers)
    <3>1. PICK j \in DOMAIN pending_readers : pending_readers[j] = q
      BY <2>1 DEF Range
    <3>2. read_future[q] # 0
      BY <1>1, <3>1 DEF PendingSound, Unset, QueueTypeOK
    <3>3. j = CHOOSE k \in DOMAIN pending_readers : pending_readers[k] = q
      BY <1>2, <3>1
    <3>4. pending_readers' = Without(pending_readers, j)
      BY <1>0, <2>1, <3>2, <3>3 DEF Erase, Without
    <3> DEFINE s == pending_readers
               t == pending_readers'
    <3>5. /\ t \in Seq(Readers) /\ DOMAIN t \subseteq Int
          /\ \A i \in DOMAIN t : i < j => i \in DOMAIN s /\ t[i] = s[i]
          /\ \A i \in DOMAIN t : i >= j => i + 1 \in DOMAIN s /\ t[i] = s[i + 1]
          /\ \A i \in DOMAIN s : \/ i = j
                                 \/ i < j /\ i \in DOMAIN t /\ t[i] = s[i]
                                 \/ i > j /\ i - 1 \in DOMAIN t /\ t[i - 1] = s[i]
      <4>1. t \in Seq(Readers) /\ Left(t, s, j)
        BY <1>1, <3>1, <3>4, WithoutItem
      <4>2. QED BY <4>1 DEF Left
    <3>6. j \in Int
      BY <1>1, <3>1
    <3> DEFINE old(i) == IF i < j THEN i ELSE i + 1
    <3>7. \A i \in DOMAIN pending_readers' : /\ old(i) \in DOMAIN pending_readers /\ old(i) # j
                                             /\ pending_readers'[i] = pending_readers[old(i)]
      BY <3>5, <3>6
    <3>8. \A i, k \in DOMAIN pending_readers' : i < k => old(i) < old(k)
      BY <3>5, <3>6
    <3> HIDE DEF old
    <3>9. \A i \in DOMAIN pending_readers' : pending_readers'[i] # q
      BY <1>2, <3>1, <3>7
    <3>10. \A k \in DOMAIN pending_readers : pending_readers[k] # q =>
             \E i \in DOMAIN pending_readers' : pending_readers'[i] = pending_readers[k]
      BY <3>1, <3>5
    <3>11. QED BY <3>5, <3>7, <3>8, <3>9, <3>10
  <2>2. CASE q \notin Range(pending_readers)
    <3>1. pending_readers' = pending_readers
      BY <1>0, <2>2
    <3>2. \A i \in DOMAIN pending_readers : pending_readers[i] # q
      BY <2>2 DEF Range
    <3>3. QED BY <1>1, <3>1, <3>2
  <2>3. QED BY <2>1, <2>2
<1>4. QueueTypeOK'
  BY <1>0, <1>3 DEF QueueTypeOK
<1>5. NoReaderWaitsInVain'
  BY WaitStep DEF QueueNext
<1>6. Given' = Given
  BY <1>0 DEF Given
<1>7. PendingSound'
  <2>1. ASSUME NEW i \in DOMAIN pending_readers'
        PROVE  /\ alive'[pending_readers'[i]] /\ worker[pending_readers'[i]]
               /\ Unset(read_future[pending_readers'[i]])
               /\ \A d \in Given : d[1] < read_future[pending_readers'[i]]
    <3>1. PICK k \in DOMAIN pending_readers : pending_readers'[i] = pending_readers[k]
      BY <1>3
    <3>2. pending_readers[k] \in Readers /\ pending_readers[k] # q
      BY <1>1, <1>3, <3>1
    <3>3. /\ alive[pending_readers[k]] /\ worker[pending_readers[k]]
          /\ Unset(read_future[pending_readers[k]])
          /\ \A d \in Given : d[1] < read_future[pending_readers[k]]
      BY DEF PendingSound
    <3>4. alive'[pending_readers[k]]
      BY <1>0, <3>2, <3>3 DEF QueueTypeOK
    <3>5. QED BY <3>1, <3>3, <3>4
  <2>2. ASSUME NEW i \in DOMAIN pending_readers', NEW j \in DOMAIN pending_readers', i < j
        PROVE  read_future[pending_readers'[i]] < read_future[pending_readers'[j]]
    <3>1. PICK k, l \in DOMAIN pending_readers : /\ k < l
                                                 /\ pending_readers'[i] = pending_readers[k]
                                                 /\ pending_readers'[j] = pending_readers[l]
      BY <1>3, <2>2
    <3>2. QED BY <3>1 DEF PendingSound
  <2>3. QED BY <1>0, <1>6, <2>1, <2>2, Zenon DEF PendingSound, Unset
<1>8. ClosingSound'
  <2>1. gil => closing = << >> /\ DOMAIN closing = {}
    BY <1>0 DEF MayCall
  <2>2. QED BY <1>0, <2>1, Zenon DEF ClosingSound, Unset
<1>9. WrittenSound'
  BY <1>0, <1>6, Zenon DEF WrittenSound, Unset
<1>10. ASSUME NEW r \in Readers, alive'[r], worker'[r] PROVE Listed(r)'
  <2>1. r # q /\ worker[r] /\ alive[r]
    BY <1>0, <1>10 DEF QueueTypeOK
  <2>2. Listed(r)
    BY <2>1
  <2>3. ASSUME NEW k \in DOMAIN pending_readers, pending_readers[k] = r PROVE Listed(r)'
    <3>1. \E i \in DOMAIN pending_readers' : pending_readers'[i] = r
      BY <1>3, <2>1, <2>3
    <3>2. QED BY <3>1, Zenon DEF Listed
  <2>4. ASSUME NEW i \in DOMAIN closing, closing[i] = r PROVE Listed(r)'
    <3>1. \E l \in DOMAIN closing' : closing'[l] = r
      BY <1>0, <2>4
    <3>2. QED BY <3>1, Zenon DEF Listed
  <2>5. QED BY <2>2, <2>3, <2>4 DEF Listed
<1>11. QED BY <1>4, <1>5, <1>7, <1>8, <1>9, <1>10

\* The queue stays in order, step by step.
LEMMA QueueStepKeeps == QueueInv /\ [QueueNext]_queueVars => QueueInv'
<1> SUFFICES ASSUME QueueInv, [QueueNext]_queueVars PROVE QueueInv'
  OBVIOUS
<1>1. CASE WriteNoDelay
  BY <1>1, WriteToBacklogKeeps, WriteToReaderKeeps DEF WriteNoDelay
<1>2. ASSUME NEW d \in delivering, SignalFuture(d) PROVE QueueInv'
  BY <1>2, SignalFutureKeeps
<1>3. CASE Close
  BY <1>3, CloseKeeps
<1>4. CASE CloseSignalsReader
  BY <1>4, CloseSignalsReaderKeeps
<1>5. CASE CloseResetsReader
  BY <1>5, CloseResetsReaderKeeps
<1>6. CASE UNCHANGED queueVars
  <2>1. UNCHANGED <<gil, backlog, pending_readers, closed, written, worker, read_future, alive,
                    futures, delivering, closing, reset_due>>
    BY <1>6 DEF queueVars, readers
  <2>2. Given' = Given
    BY <2>1 DEF Given
  <2>3. QueueTypeOK' /\ NoReaderWaitsInVain'
    BY <2>1 DEF QueueInv, QueueTypeOK, NoReaderWaitsInVain
  <2>4. PendingSound' /\ ClosingSound' /\ WrittenSound'
    BY <2>1, <2>2, Zenon DEF QueueInv, PendingSound, ClosingSound, WrittenSound, Unset
  <2>5. \A r \in Readers : alive'[r] /\ worker'[r] => Listed(r)'
    BY <2>1 DEF QueueInv, Listed
  <2>6. QED BY <2>3, <2>4, <2>5 DEF QueueInv
<1>7. ASSUME NEW r \in Readers, Read(r) \/ DestroyReader(r) PROVE QueueInv'
  <2>1. CASE ReadThrows(r)
    BY <1>6, <2>1 DEF ReadThrows
  <2>2. QED
    BY <1>7, <2>1, ReadAnsweredKeeps, ReadWaitsKeeps, DestroyReaderKeeps DEF Read
<1>8. CASE CloseAgain
  BY <1>6, <1>8 DEF CloseAgain
<1>9. QED
  BY <1>1, <1>2, <1>3, <1>4, <1>5, <1>6, <1>7, <1>8 DEF QueueNext

\* The invariant holds.
LEMMA OrderedQueue == QueueSpec => []QueueInv
<1>1. QED BY QueueInitKeeps, QueueStepKeeps, PTL DEF QueueSpec

\* A message that is in order is in one place.
LEMMA OnePlaceEach == QueueInv => MessagesOnce
<1> SUFFICES ASSUME QueueInv, NEW m \in 1 .. written PROVE Cardinality(Places(m)) = 1
  BY DEF MessagesOnce
<1> USE DEF QueueInv
<1>0. /\ DOMAIN backlog \subseteq Int
      /\ \A i \in DOMAIN backlog : backlog[i] \in Int
      /\ m \in Int /\ m > 0
      /\ \A d \in Given : d[1] \in Int /\ d[2] \in Int
  BY GivenMembers DEF QueueTypeOK, Message
<1>1. \A i \in DOMAIN backlog : \A d \in Given : backlog[i] = m => d[2] # m
  BY <1>0 DEF WrittenSound
<1>2. \A i, j \in DOMAIN backlog : backlog[i] = m /\ backlog[j] = m => i = j
  <2> TAKE i, j \in DOMAIN backlog
  <2>1. i < j => backlog[i] < backlog[j]
    BY DEF WrittenSound
  <2>2. j < i => backlog[j] < backlog[i]
    BY DEF WrittenSound
  <2>3. QED BY <1>0, <2>1, <2>2
<1>3. \A d, e \in Given : d[2] = m /\ e[2] = m => d = e
  <2> TAKE d, e \in Given
  <2>1. /\ d[1] < e[1] => d[2] < e[2]
        /\ e[1] < d[1] => e[2] < d[2]
        /\ d[1] = e[1] => d = e
    BY DEF WrittenSound
  <2>2. QED BY <1>0, <2>1
<1>4. \A f \in DOMAIN futures : futures[f] = m => <<f, m>> \in Given
  BY <1>0, GivenMembers
<1>5. \A d \in delivering : /\ d \in Given /\ d = <<d[1], d[2]>>
                            /\ \A f \in DOMAIN futures : futures[f] = m /\ d[2] = m => FALSE
  <2> TAKE d \in delivering
  <2>1. d \in Given /\ d = <<d[1], d[2]>> /\ futures[d[1]] = Waiting
    BY GivenMembers DEF QueueTypeOK, WrittenSound, Unset
  <2>2. ASSUME NEW f \in DOMAIN futures, futures[f] = m, d[2] = m PROVE FALSE
    <3>1. d = <<f, m>>
      BY <1>3, <1>4, <2>1, <2>2
    <3>2. d[1] = f
      BY <3>1
    <3>3. QED BY <1>0, <2>1, <2>2, <3>2 DEF Waiting
  <2>3. QED BY <2>1, <2>2
<1>6. \E p : Places(m) = {p}
  <2>1. CASE \E i \in DOMAIN backlog : backlog[i] = m
    <3>1. PICK i \in DOMAIN backlog : backlog[i] = m
      BY <2>1
    <3>2. {j \in DOMAIN backlog : backlog[j] = m} = {i}
      BY <1>2, <3>1
    <3>3. {e \in delivering : e[2] = m} = {}
      BY <1>1, <1>5, <3>1
    <3>4. {g \in DOMAIN futures : futures[g] = m} = {}
      BY <1>0, <1>1, <1>4, <3>1
    <3>5. Places(m) = {<<"backlog", i>>}
      BY <3>2, <3>3, <3>4 DEF Places
    <3>6. QED BY <3>5
  <2>2. CASE ~\E i \in DOMAIN backlog : backlog[i] = m
    <3>1. PICK d \in Given : d[2] = m
      BY <2>2 DEF WrittenSound
    <3>2. {j \in DOMAIN backlog : backlog[j] = m} = {}
      BY <2>2
    <3>3. CASE d \in delivering
      <4>1. {e \in delivering : e[2] = m} = {d}
        BY <1>3, <1>5, <3>1, <3>3
      <4>2. {g \in DOMAIN futures : futures[g] = m} = {}
        BY <1>5, <3>1, <3>3
      <4>3. Places(m) = {<<"write", d[1]>>}
        BY <3>2, <4>1, <4>2 DEF Places
      <4>4. QED BY <4>3
    <3>4. ASSUME NEW f \in DOMAIN futures, futures[f] > 0, d = <<f, futures[f]>>
          PROVE  \E p : Places(m) = {p}
      <4>1. futures[f] = m
        BY <3>1, <3>4
      <4>2. {e \in delivering : e[2] = m} = {}
        BY <1>5, <4>1
      <4>3. {g \in DOMAIN futures : futures[g] = m} = {f}
        <5>1. \A g \in DOMAIN futures : futures[g] = m => <<g, m>> = <<f, m>>
          BY <1>3, <1>4, <4>1
        <5>2. QED BY <4>1, <5>1
      <4>4. Places(m) = {<<"read", f>>}
        BY <3>2, <4>2, <4>3 DEF Places
      <4>5. QED BY <4>4
    <3>5. QED BY <3>3, <3>4, GivenMembers
  <2>3. QED BY <2>1, <2>2
<1>7. QED BY <1>6, FS_Singleton

\* The invariant says what the queue promises.
LEMMA OrderIsSound == QueueInv => DeliverySound
<1> SUFFICES ASSUME QueueInv PROVE DeliverySound
  OBVIOUS
<1> USE DEF QueueInv
<1>1. MessagesOnce
  BY OnePlaceEach
<1>2. FifoDelivery
  BY DEF FifoDelivery, WrittenSound
<1>3. FuturesSetOnce
  <2>1. delivering \subseteq Given
    BY GivenMembers
  <2>2. QED BY <2>1 DEF FuturesSetOnce, WrittenSound, ClosingSound
<1>4. NoDanglingReader
  BY DEF NoDanglingReader, PendingSound, ClosingSound
<1>5. ReaderStateMachine
  <2> SUFFICES ASSUME gil, MayCall, NEW r \in Readers, alive[r], worker[r]
               PROVE  read_future[r] # 0 /\ futures[read_future[r]] = Waiting
    BY DEF ReaderStateMachine
  <2>1. DOMAIN closing = {}
    BY DEF MayCall
  <2>2. PICK i \in DOMAIN pending_readers : pending_readers[i] = r
    BY <2>1 DEF Listed
  <2>3. Unset(read_future[r])
    BY <2>2 DEF PendingSound
  <2>4. QED BY <2>3 DEF Unset, QueueTypeOK
<1>6. QED BY <1>1, <1>2, <1>3, <1>4, <1>5 DEF DeliverySound

\* messaging.cc 44-161, messaging.h 201-255: whatever the callers do between the
\* steps of each other's calls, with and without the interpreter lock, every
\* message is in one place, reads get messages in order, no future is set twice,
\* and no reader is touched that is gone or left unable to read.
THEOREM Delivery == QueueSpec => []DeliverySound
<1>1. QED BY OrderedQueue, OrderIsSound, PTL
-----------------------------------------------------------------------------
(***************************************************************************)
(* The lifetime of a message.                                              *)
(***************************************************************************)
MsgTypeOK ==
    /\ {controlled, destroyed} \subseteq BOOLEAN
    /\ {refData, pyCount, pyHeld, toTransfer} \subseteq Nat
    /\ natives \in [MsgThreads -> Nat]
    /\ {msgLock, msgGil} \subseteq MsgThreads \cup {Nobody}
    /\ msgPc \in [MsgThreads -> {"idle", "retain", "release", "transfer"}]

\* What a call relies on between its steps: the lock or the GIL, and a reference
\* of its own or Python's.
CallsSound ==
    \A t \in MsgThreads :
        /\ msgLock = t <=> msgPc[t] = "retain"
        /\ msgPc[t] = "retain" => \/ natives[t] > 0
                                  \/ controlled /\ pyHeld > 0 /\ msgGil = t
        /\ msgPc[t] = "release" => natives[t] > 0 /\ controlled
        /\ msgPc[t] = "transfer" => natives[t] > 0 /\ controlled /\ msgGil = t
        /\ msgPc[t] = "retain" /\ RetainsHoldGil => msgGil = t

\* A count for every reference; those still to be transferred are the business
\* of a thread that holds the GIL.
CountsSound ==
    /\ toTransfer > 0 => \E t \in MsgThreads : msgPc[t] = "transfer"
    /\ destroyed => /\ controlled /\ pyHeld = 0 /\ NativeRefs = 0
                    /\ \A t \in MsgThreads : msgPc[t] = "idle"
    /\ ~destroyed /\ controlled => pyCount + toTransfer = pyHeld + NativeRefs /\ pyCount > 0
    /\ ~controlled => refData = NativeRefs + 1 /\ pyHeld = 0 /\ toTransfer = 0

MessageInv == MsgTypeOK /\ CallsSound /\ CountsSound

----------------------------------------------------------------------------
\* One reference more, one less, and one that moves.
LEMMA OneMore ==
  ASSUME NEW S, IsFiniteSet(S), NEW m \in [S -> Nat], NEW t \in S
  PROVE  Cardinality(Units([m EXCEPT ![t] = @ + 1], S)) = Cardinality(Units(m, S)) + 1
<1> DEFINE H == Units(m, S)
           p == <<t, m[t] + 1>>
<1>1. Units([m EXCEPT ![t] = @ + 1], S) = H \cup {p} /\ p \notin H
  BY DEF Units
<1>2. IsFiniteSet(H)
  BY UnitsFinite
<1> HIDE DEF H, p
<1>3. Cardinality(H \cup {p}) = Cardinality(H) + 1
  BY <1>1, <1>2, FS_AddElement
<1>4. QED BY <1>1, <1>3 DEF H

\* One reference less.
LEMMA OneLess ==
  ASSUME NEW S, IsFiniteSet(S), NEW m \in [S -> Nat], NEW t \in S, m[t] > 0
  PROVE  /\ Cardinality(Units(m, S)) > 0
         /\ Cardinality(Units([m EXCEPT ![t] = @ - 1], S)) = Cardinality(Units(m, S)) - 1
<1> DEFINE n == [m EXCEPT ![t] = @ - 1]
<1>1. n \in [S -> Nat] /\ [n EXCEPT ![t] = @ + 1] = m
  <2>1. n \in [S -> Nat]
    OBVIOUS
  <2>2. \A u \in S : [n EXCEPT ![t] = @ + 1][u] = m[u]
    OBVIOUS
  <2>3. [n EXCEPT ![t] = @ + 1] \in [S -> Nat]
    BY <2>1
  <2> HIDE DEF n
  <2>4. [n EXCEPT ![t] = @ + 1] = m
    BY <2>2, <2>3
  <2>5. QED BY <2>1, <2>4
<1>2. Cardinality(Units(n, S)) \in Nat
  BY <1>1, UnitsFinite, FS_CardinalityType
<1> HIDE DEF n
<1>3. Cardinality(Units(m, S)) = Cardinality(Units(n, S)) + 1
  BY <1>1, OneMore
<1>4. QED BY <1>2, <1>3 DEF n

\* Without references nobody has one.
LEMMA NoneLeft ==
  ASSUME NEW S, IsFiniteSet(S), NEW m \in [S -> Nat]
  PROVE  Cardinality(Units(m, S)) = 0 <=> \A t \in S : m[t] = 0
<1>1. Cardinality(Units(m, S)) = 0 <=> Units(m, S) = {}
  BY UnitsFinite, FS_EmptySet
<1>2. ASSUME Units(m, S) = {}, NEW t \in S PROVE m[t] = 0
  <2>1. <<t, 1>> \notin Units(m, S)
    BY <1>2
  <2>2. QED BY <2>1 DEF Units
<1>3. ASSUME \A t \in S : m[t] = 0 PROVE Units(m, S) = {}
  BY <1>3 DEF Units
<1>4. QED BY <1>1, <1>2, <1>3

\* NativeRefs, in this state and in the next.
Counted == /\ NativeRefs = Cardinality(Units(natives, MsgThreads)) /\ NativeRefs \in Nat
           /\ NativeRefs = 0 <=> \A t \in MsgThreads : natives[t] = 0

\* NativeRefs is the number of references that the threads hold.
LEMMA RefsCounted == natives \in [MsgThreads -> Nat] => Counted
<1> SUFFICES ASSUME natives \in [MsgThreads -> Nat] PROVE Counted
  OBVIOUS
<1>1. IsFiniteSet(MsgThreads)
  BY MessageAssumption
<1>2. NativeRefs = Cardinality(Units(natives, MsgThreads))
  BY <1>1, SumCounts DEF NativeRefs
<1>3. Cardinality(Units(natives, MsgThreads)) \in Nat
  BY <1>1, UnitsFinite, FS_CardinalityType
<1>4. QED BY <1>1, <1>2, <1>3, NoneLeft DEF Counted

\* The same of the next state.
LEMMA RefsCountedNext == (natives \in [MsgThreads -> Nat] => Counted)'
BY RefsCounted, PTL

\* How NativeRefs changes with the references of the threads.
LEMMA RefsChange ==
  ASSUME MsgTypeOK, NEW t \in MsgThreads
  PROVE  /\ natives' = natives => NativeRefs' = NativeRefs
         /\ natives' = [natives EXCEPT ![t] = @ + 1] => NativeRefs' = NativeRefs + 1
         /\ natives[t] > 0 /\ natives' = [natives EXCEPT ![t] = @ - 1]
               => NativeRefs' = NativeRefs - 1
         /\ \A u \in MsgThreads :
               natives[t] > 0 /\ t # u /\ natives' = [natives EXCEPT ![t] = @ - 1, ![u] = @ + 1]
                  => NativeRefs' = NativeRefs
<1>1. natives \in [MsgThreads -> Nat] /\ IsFiniteSet(MsgThreads)
  BY MessageAssumption DEF MsgTypeOK
<1>2. ASSUME natives' = [natives EXCEPT ![t] = @ + 1] PROVE NativeRefs' = NativeRefs + 1
  <2>1. natives' \in [MsgThreads -> Nat]
    BY <1>1, <1>2
  <2>2. Cardinality(Units(natives', MsgThreads)) = Cardinality(Units(natives, MsgThreads)) + 1
    BY <1>1, <1>2, OneMore
  <2>3. QED BY <1>1, <2>1, <2>2, RefsCounted, RefsCountedNext DEF Counted, Units
<1>3. ASSUME natives[t] > 0, natives' = [natives EXCEPT ![t] = @ - 1]
      PROVE  NativeRefs' = NativeRefs - 1
  <2>1. natives' \in [MsgThreads -> Nat]
    BY <1>1, <1>3
  <2>2. Cardinality(Units(natives', MsgThreads)) = Cardinality(Units(natives, MsgThreads)) - 1
    BY <1>1, <1>3, OneLess
  <2>3. QED BY <1>1, <2>1, <2>2, RefsCounted, RefsCountedNext DEF Counted, Units
<1>4. ASSUME NEW u \in MsgThreads, natives[t] > 0, t # u,
             natives' = [natives EXCEPT ![t] = @ - 1, ![u] = @ + 1]
      PROVE  NativeRefs' = NativeRefs
  <2> DEFINE m == [natives EXCEPT ![t] = @ - 1]
  <2>1. m \in [MsgThreads -> Nat] /\ natives' = [m EXCEPT ![u] = @ + 1]
    <3>1. m \in [MsgThreads -> Nat]
      BY <1>1, <1>4
    <3>2. m[u] = natives[u]
      BY <1>1, <1>4
    <3>3. QED BY <1>1, <1>4, <3>1, <3>2
  <2>2. natives' \in [MsgThreads -> Nat]
    BY <2>1
  <2>3. Cardinality(Units(m, MsgThreads)) = Cardinality(Units(natives, MsgThreads)) - 1
    BY <1>1, <1>4, OneLess
  <2> HIDE DEF m
  <2>4. Cardinality(Units(natives', MsgThreads)) = Cardinality(Units(m, MsgThreads)) + 1
    BY <1>1, <2>1, OneMore
  <2>5. Cardinality(Units(natives', MsgThreads)) = Cardinality(Units(natives, MsgThreads))
    <3>1. Cardinality(Units(natives, MsgThreads)) \in Nat
      BY <1>1, UnitsFinite, FS_CardinalityType
    <3>2. QED BY <2>3, <2>4, <3>1
  <2>6. QED BY <1>1, <2>2, <2>5, RefsCounted, RefsCountedNext DEF Counted, Units
<1>5. natives' = natives => NativeRefs' = NativeRefs
  BY <1>1, RefsCounted, RefsCountedNext DEF Counted, Units
<1>6. QED BY <1>2, <1>3, <1>4, <1>5

\* A thread with a reference keeps the sum above zero.
LEMMA SomeRefs ==
  ASSUME MsgTypeOK, NEW t \in MsgThreads, natives[t] > 0
  PROVE  NativeRefs \in Nat /\ NativeRefs > 0
<1>1. NativeRefs \in Nat /\ (NativeRefs = 0 <=> \A u \in MsgThreads : natives[u] = 0)
  BY RefsCounted DEF MsgTypeOK, Counted
<1>2. natives[t] # 0
  BY DEF MsgTypeOK
<1>3. QED BY <1>1, <1>2

----------------------------------------------------------------------------
(***************************************************************************)
(* The steps.                                                              *)
(***************************************************************************)
\* A thread takes or drops the GIL.
LEMMA GilKeeps ==
  ASSUME MessageInv, NEW t \in MsgThreads, TakeGil(t) \/ DropGil(t) PROVE MessageInv'
<1>1. /\ msgPc[t] = "idle" /\ msgGil \in {t, Nobody} /\ msgGil' \in {t, Nobody}
      /\ UNCHANGED <<controlled, refData, pyCount, msgLock, natives, pyHeld, toTransfer,
                     msgPc, destroyed>>
  BY DEF TakeGil, DropGil, Idles
<1>2. MsgTypeOK'
  BY <1>1 DEF MessageInv, MsgTypeOK
<1>3. CallsSound'
  BY <1>1, MessageAssumption DEF MessageInv, CallsSound
<1>4. CountsSound'
  BY <1>1, RefsChange DEF MessageInv, CountsSound
<1>5. QED BY <1>2, <1>3, <1>4 DEF MessageInv

\* Retain takes the lock of the message.
LEMMA RetainLocksKeeps ==
  ASSUME MessageInv, NEW t \in MsgThreads, RetainLocks(t) PROVE MessageInv'
<1> USE DEF RetainLocks, Idles
<1>1. MsgTypeOK'
  BY DEF MessageInv, MsgTypeOK
<1>2. CallsSound'
  BY MessageAssumption DEF MessageInv, MsgTypeOK, CallsSound
<1>3. CountsSound'
  <2>1. \A u \in MsgThreads : msgPc[u] = "transfer" => msgPc'[u] = "transfer"
    BY DEF MessageInv, MsgTypeOK
  <2>2. QED BY <2>1, RefsChange DEF MessageInv, CountsSound
<1>4. QED BY <1>1, <1>2, <1>3 DEF MessageInv

\* Retain counts the reference, where the owner says, and unlocks.
LEMMA RetainCountsKeeps ==
  ASSUME MessageInv, NEW t \in MsgThreads, RetainCounts(t) PROVE MessageInv'
<1>1. /\ msgPc[t] = "retain" /\ natives' = [natives EXCEPT ![t] = @ + 1]
      /\ msgLock' = Nobody /\ msgPc' = [msgPc EXCEPT ![t] = "idle"]
      /\ UNCHANGED <<controlled, msgGil, pyHeld, toTransfer, destroyed>>
      /\ \/ ~controlled /\ refData' = refData + 1 /\ pyCount' = pyCount
         \/ controlled /\ pyCount' = pyCount + 1 /\ refData' = refData
  BY DEF RetainCounts
<1>2. ~destroyed /\ msgLock = t
  BY <1>1 DEF MessageInv, CallsSound, CountsSound
<1>3. MsgTypeOK'
  BY <1>1 DEF MessageInv, MsgTypeOK
<1>4. CallsSound'
  BY <1>1, <1>2, MessageAssumption DEF MessageInv, MsgTypeOK, CallsSound
<1>5. CountsSound'
  <2>1. NativeRefs' = NativeRefs + 1 /\ NativeRefs \in Nat
    BY <1>1, RefsChange, RefsCounted DEF MessageInv, MsgTypeOK, Counted
  <2>2. \A u \in MsgThreads : msgPc[u] = "transfer" => msgPc'[u] = "transfer"
    BY <1>1 DEF MessageInv, MsgTypeOK
  <2>3. {refData, pyCount, pyHeld, toTransfer} \subseteq Nat
    BY DEF MessageInv, MsgTypeOK
  <2>4. QED BY <1>1, <1>2, <2>1, <2>2, <2>3 DEF MessageInv, CountsSound
<1>6. QED BY <1>3, <1>4, <1>5 DEF MessageInv

\* Release of a reference that the message counts itself.
LEMMA ReleaseNativeKeeps ==
  ASSUME MessageInv, NEW t \in MsgThreads, ReleaseNative(t) PROVE MessageInv'
<1>1. /\ msgPc[t] = "idle" /\ ~destroyed /\ msgLock = Nobody /\ natives[t] > 0 /\ ~controlled
      /\ refData' = refData - 1 /\ natives' = [natives EXCEPT ![t] = @ - 1]
      /\ destroyed' = (refData = 1)
      /\ UNCHANGED <<controlled, pyCount, msgLock, msgGil, pyHeld, toTransfer, msgPc>>
  BY DEF ReleaseNative, Idles
<1>2. /\ NativeRefs' = NativeRefs - 1 /\ NativeRefs \in Nat /\ NativeRefs > 0
      /\ refData = NativeRefs + 1
  <2>1. NativeRefs' = NativeRefs - 1
    BY <1>1, RefsChange DEF MessageInv
  <2>2. NativeRefs \in Nat /\ NativeRefs > 0
    BY <1>1, SomeRefs DEF MessageInv
  <2>3. QED BY <1>1, <2>1, <2>2 DEF MessageInv, CountsSound
<1>3. destroyed' = FALSE
  <2>1. refData # 1
    BY <1>2
  <2>2. QED BY <1>1, <2>1, Zenon
<1>4. MsgTypeOK'
  BY <1>1, <1>2, <1>3 DEF MessageInv, MsgTypeOK
<1>5. CallsSound'
  BY <1>1, MessageAssumption DEF MessageInv, MsgTypeOK, CallsSound
<1>6. CountsSound'
  BY <1>1, <1>2, <1>3 DEF MessageInv, CountsSound
<1>7. QED BY <1>4, <1>5, <1>6 DEF MessageInv

\* Release unlocks a message that Python owns, with its reference still counted.
LEMMA ReleaseUnlocksKeeps ==
  ASSUME MessageInv, NEW t \in MsgThreads, ReleaseUnlocks(t) PROVE MessageInv'
<1> USE DEF ReleaseUnlocks, Idles
<1>1. MsgTypeOK'
  BY DEF MessageInv, MsgTypeOK
<1>2. CallsSound'
  BY MessageAssumption DEF MessageInv, MsgTypeOK, CallsSound
<1>3. CountsSound'
  <2>1. \A u \in MsgThreads : msgPc[u] = "transfer" => msgPc'[u] = "transfer"
    BY DEF MessageInv, MsgTypeOK
  <2>2. QED BY <2>1, RefsChange DEF MessageInv, CountsSound
<1>4. QED BY <1>1, <1>2, <1>3 DEF MessageInv

\* The last reference of all: nothing is left to be transferred, since the thread
\* that transfers has the GIL, and no call of another thread has begun.
LEMMA LastOne ==
  ASSUME MessageInv, controlled, ~destroyed, pyCount = 1, NEW t \in MsgThreads,
         msgGil \in {t, Nobody}, msgPc[t] # "transfer"
  PROVE  toTransfer = 0 /\ pyHeld + NativeRefs = 1
<1>1. toTransfer = 0
  <2> SUFFICES ASSUME toTransfer > 0 PROVE FALSE
    BY DEF MessageInv, MsgTypeOK
  <2>1. PICK u \in MsgThreads : msgPc[u] = "transfer" /\ msgGil = u
    BY DEF MessageInv, CountsSound, CallsSound
  <2>2. QED BY <2>1, MessageAssumption
<1>2. QED BY <1>1 DEF MessageInv, CountsSound

\* Release drops the Python count, and the message with the last one.
LEMMA ReleaseCountsKeeps ==
  ASSUME MessageInv, NEW t \in MsgThreads, ReleaseCounts(t) PROVE MessageInv'
<1>1. /\ msgPc[t] = "release" /\ msgGil \in {t, Nobody}
      /\ pyCount' = pyCount - 1 /\ natives' = [natives EXCEPT ![t] = @ - 1]
      /\ destroyed' = (pyCount = 1) /\ msgPc' = [msgPc EXCEPT ![t] = "idle"]
      /\ UNCHANGED <<controlled, refData, msgLock, msgGil, pyHeld, toTransfer>>
  BY DEF ReleaseCounts, GilFor
<1>2. natives[t] > 0 /\ controlled /\ ~destroyed /\ msgLock # t
  BY <1>1 DEF MessageInv, CallsSound, CountsSound
<1>3. /\ NativeRefs' = NativeRefs - 1 /\ NativeRefs \in Nat /\ NativeRefs > 0
      /\ pyCount + toTransfer = pyHeld + NativeRefs /\ pyCount > 0
  BY <1>1, <1>2, RefsChange, SomeRefs DEF MessageInv, CountsSound
<1>4. {refData, pyCount, pyHeld, toTransfer} \subseteq Nat
  BY DEF MessageInv, MsgTypeOK
<1>5. MsgTypeOK'
  <2>1. pyCount' \in Nat /\ destroyed' \in BOOLEAN
    BY <1>1, <1>3, <1>4
  <2>2. natives' \in [MsgThreads -> Nat]
    BY <1>1, <1>2 DEF MessageInv, MsgTypeOK
  <2>3. QED BY <1>1, <2>1, <2>2 DEF MessageInv, MsgTypeOK
<1>6. CallsSound'
  BY <1>1, <1>2 DEF MessageInv, MsgTypeOK, CallsSound
<1>7. CountsSound'
  <2>1. \A u \in MsgThreads : msgPc[u] = "transfer" => msgPc'[u] = "transfer"
    BY <1>1 DEF MessageInv, MsgTypeOK
  <2>2. pyCount = 1 => pyHeld = 0 /\ NativeRefs' = 0
    <3> SUFFICES ASSUME pyCount = 1 PROVE pyHeld = 0 /\ NativeRefs' = 0
      OBVIOUS
    <3>1. pyHeld + NativeRefs = 1
      BY <1>1, <1>2, LastOne
    <3>2. QED BY <1>3, <1>4, <3>1
  <2>3. pyCount = 1 => \A u \in MsgThreads : msgPc'[u] = "idle"
    <3> SUFFICES ASSUME pyCount = 1, NEW u \in MsgThreads PROVE msgPc'[u] = "idle"
      OBVIOUS
    <3>1. natives'[u] = 0
      BY <1>5, <2>2, RefsCountedNext DEF Counted, MsgTypeOK
    <3>2. QED BY <1>1, <1>5, <1>6, <2>2, <3>1 DEF CallsSound, MsgTypeOK
  <2>4. pyCount # 1 => /\ pyCount' > 0
                        /\ pyCount' + toTransfer' = pyHeld' + NativeRefs'
    BY <1>1, <1>3, <1>4
  <2>5. toTransfer' > 0 => \E u \in MsgThreads : msgPc'[u] = "transfer"
    BY <1>1, <2>1 DEF MessageInv, CountsSound
  <2>6. controlled' /\ (destroyed' <=> pyCount = 1) /\ pyHeld' = pyHeld
    BY <1>1, <1>2
  <2>7. QED BY <2>2, <2>3, <2>4, <2>5, <2>6 DEF CountsSound
<1>8. QED BY <1>5, <1>6, <1>7 DEF MessageInv

\* A Ref that moves to another thread stays one.
LEMMA MoveRefKeeps ==
  ASSUME MessageInv, NEW t \in MsgThreads, NEW u \in MsgThreads, MoveRef(t, u)
  PROVE  MessageInv'
<1>1. /\ msgPc[t] = "idle" /\ ~destroyed /\ natives[t] > 0 /\ t # u
      /\ natives' = [natives EXCEPT ![t] = @ - 1, ![u] = @ + 1]
      /\ UNCHANGED <<controlled, refData, pyCount, msgLock, msgGil, pyHeld, toTransfer,
                     msgPc, destroyed>>
  BY DEF MoveRef, Idles
<1>2. /\ natives' \in [MsgThreads -> Nat]
      /\ \A v \in MsgThreads : v # t => natives'[v] >= natives[v]
  BY <1>1 DEF MessageInv, MsgTypeOK
<1>3. MsgTypeOK'
  BY <1>1, <1>2 DEF MessageInv, MsgTypeOK
<1>4. CallsSound'
  <2>1. \A v \in MsgThreads : msgPc[v] # "idle" => (natives[v] > 0 => natives'[v] > 0)
    BY <1>1, <1>2 DEF MessageInv, MsgTypeOK
  <2>2. QED BY <1>1, <2>1 DEF MessageInv, CallsSound
<1>5. CountsSound'
  BY <1>1, RefsChange DEF MessageInv, CountsSound
<1>6. QED BY <1>3, <1>4, <1>5 DEF MessageInv

\* TakeOwnership: the new object's count starts with one of the references, and
\* the others are transferred.
LEMMA TakeOwnershipKeeps ==
  ASSUME MessageInv, NEW t \in MsgThreads, TakeOwnership(t) PROVE MessageInv'
<1>1. /\ msgPc[t] = "idle" /\ ~destroyed /\ msgGil = t /\ msgLock = Nobody
      /\ natives[t] > 0 /\ ~controlled
      /\ controlled' = TRUE /\ refData' = 0 /\ toTransfer' = refData - 1
      /\ pyCount' = 1 /\ pyHeld' = 1 /\ msgPc' = [msgPc EXCEPT ![t] = "transfer"]
      /\ UNCHANGED <<msgLock, msgGil, natives, destroyed>>
  BY DEF TakeOwnership, Transferred, Idles
<1>2. NativeRefs' = NativeRefs /\ NativeRefs \in Nat /\ refData = NativeRefs + 1
  <2>1. NativeRefs' = NativeRefs
    BY <1>1, RefsChange DEF MessageInv
  <2>2. NativeRefs \in Nat
    BY <1>1, SomeRefs DEF MessageInv
  <2>3. QED BY <1>1, <2>1, <2>2 DEF MessageInv, CountsSound
<1>3. toTransfer' = NativeRefs
  BY <1>1, <1>2
<1>4. MsgTypeOK'
  BY <1>1, <1>2, <1>3 DEF MessageInv, MsgTypeOK
<1>5. CallsSound'
  BY <1>1, MessageAssumption DEF MessageInv, MsgTypeOK, CallsSound
<1>6. CountsSound'
  <2>1. msgPc'[t] = "transfer"
    BY <1>1 DEF MessageInv, MsgTypeOK
  <2>2. QED BY <1>1, <1>2, <1>3, <2>1 DEF CountsSound
<1>7. QED BY <1>4, <1>5, <1>6 DEF MessageInv

\* One reference more is transferred to the Python object.
LEMMA TransferRefKeeps ==
  ASSUME MessageInv, NEW t \in MsgThreads, TransferRef(t) PROVE MessageInv'
<1>1. /\ msgPc[t] = "transfer"
      /\ UNCHANGED <<controlled, refData, msgLock, msgGil, natives, pyHeld, destroyed>>
  BY DEF TransferRef
<1>2. \/ /\ toTransfer > 0 /\ toTransfer' = toTransfer - 1 /\ pyCount' = pyCount + 1
         /\ msgPc' = msgPc
      \/ /\ toTransfer = 0 /\ toTransfer' = 0 /\ pyCount' = pyCount
         /\ msgPc' = [msgPc EXCEPT ![t] = "idle"]
  BY DEF TransferRef
<1>3. natives[t] > 0 /\ controlled /\ ~destroyed
  BY <1>1 DEF MessageInv, CallsSound, CountsSound
<1>4. NativeRefs' = NativeRefs /\ NativeRefs \in Nat
  <2>1. NativeRefs' = NativeRefs
    BY <1>1, RefsChange DEF MessageInv
  <2>2. QED BY <1>3, <2>1, SomeRefs DEF MessageInv
<1>5. {refData, pyCount, pyHeld, toTransfer} \subseteq Nat
  BY DEF MessageInv, MsgTypeOK
<1>6. MsgTypeOK'
  BY <1>1, <1>2, <1>5 DEF MessageInv, MsgTypeOK
<1>7. CallsSound'
  BY <1>1, <1>2 DEF MessageInv, MsgTypeOK, CallsSound
<1>8. CountsSound'
  <2>1. pyCount + toTransfer = pyHeld + NativeRefs /\ pyCount > 0
    BY <1>3 DEF MessageInv, CountsSound
  <2>2. pyCount' + toTransfer' = pyHeld + NativeRefs /\ pyCount' > 0
    BY <1>2, <1>4, <1>5, <2>1
  <2>3. toTransfer' > 0 => msgPc'[t] = "transfer"
    BY <1>1, <1>2
  <2>4. QED BY <1>1, <1>3, <1>4, <2>2, <2>3 DEF CountsSound
<1>9. QED BY <1>6, <1>7, <1>8 DEF MessageInv

\* Python gets one reference more.
LEMMA PyGetsKeeps ==
  ASSUME MessageInv, NEW t \in MsgThreads, PyGets(t) PROVE MessageInv'
<1>1. /\ msgPc[t] = "idle" /\ ~destroyed /\ controlled /\ natives[t] > 0
      /\ pyHeld' = pyHeld + 1 /\ pyCount' = pyCount + 1
      /\ UNCHANGED <<controlled, refData, msgLock, msgGil, natives, toTransfer, msgPc,
                     destroyed>>
  BY DEF PyGets, Idles
<1>2. NativeRefs' = NativeRefs /\ NativeRefs \in Nat
  <2>1. NativeRefs' = NativeRefs
    BY <1>1, RefsChange DEF MessageInv
  <2>2. QED BY <1>1, <2>1, SomeRefs DEF MessageInv
<1>3. {refData, pyCount, pyHeld, toTransfer} \subseteq Nat
  BY DEF MessageInv, MsgTypeOK
<1>4. MsgTypeOK'
  BY <1>1, <1>3 DEF MessageInv, MsgTypeOK
<1>5. CallsSound'
  BY <1>1, <1>3 DEF MessageInv, CallsSound
<1>6. CountsSound'
  <2>1. pyCount + toTransfer = pyHeld + NativeRefs /\ pyCount > 0
    BY <1>1 DEF MessageInv, CountsSound
  <2>2. pyCount' + toTransfer' = pyHeld' + NativeRefs' /\ pyCount' > 0
    BY <1>1, <1>2, <1>3, <2>1
  <2>3. QED BY <1>1, <2>2 DEF MessageInv, CountsSound
<1>7. QED BY <1>4, <1>5, <1>6 DEF MessageInv

\* Python drops a reference, and the message with the last one.
LEMMA PyDropsKeeps ==
  ASSUME MessageInv, NEW t \in MsgThreads, PyDrops(t) PROVE MessageInv'
<1>1. /\ msgPc[t] = "idle" /\ ~destroyed /\ msgGil = t /\ pyHeld > 0
      /\ pyHeld' = pyHeld - 1 /\ pyCount' = pyCount - 1 /\ destroyed' = (pyCount = 1)
      /\ UNCHANGED <<controlled, refData, msgLock, msgGil, natives, toTransfer, msgPc>>
  BY DEF PyDrops, Idles
<1>2. {refData, pyCount, pyHeld, toTransfer} \subseteq Nat
  BY DEF MessageInv, MsgTypeOK
<1>3. controlled
  BY <1>1 DEF MessageInv, CountsSound
<1>4. /\ NativeRefs' = NativeRefs /\ NativeRefs \in Nat
      /\ pyCount + toTransfer = pyHeld + NativeRefs /\ pyCount > 0
  <2>1. NativeRefs' = NativeRefs
    BY <1>1, RefsChange DEF MessageInv
  <2>2. NativeRefs \in Nat
    BY RefsCounted DEF MessageInv, MsgTypeOK, Counted
  <2>3. QED BY <1>1, <1>3, <2>1, <2>2 DEF MessageInv, CountsSound
<1>5. MsgTypeOK'
  <2>1. pyHeld' \in Nat /\ pyCount' \in Nat /\ destroyed' \in BOOLEAN
    BY <1>1, <1>2, <1>4
  <2>2. QED BY <1>1, <2>1 DEF MessageInv, MsgTypeOK
<1>6. CallsSound'
  <2>1. \A u \in MsgThreads : msgPc[u] = "retain" => natives[u] > 0
    BY <1>1 DEF MessageInv, CallsSound
  <2>2. QED BY <1>1, <2>1 DEF MessageInv, CallsSound
<1>7. CountsSound'
  <2>1. pyCount = 1 => pyHeld' = 0 /\ NativeRefs = 0
    <3> SUFFICES ASSUME pyCount = 1 PROVE pyHeld' = 0 /\ NativeRefs = 0
      OBVIOUS
    <3>1. pyHeld + NativeRefs = 1
      BY <1>1, <1>3, LastOne
    <3>2. QED BY <1>1, <1>2, <1>4, <3>1
  <2>2. pyCount = 1 => \A u \in MsgThreads : msgPc[u] = "idle"
    <3> SUFFICES ASSUME pyCount = 1, NEW u \in MsgThreads PROVE msgPc[u] = "idle"
      OBVIOUS
    <3>1. natives[u] = 0
      BY <2>1, RefsCounted DEF Counted, MessageInv, MsgTypeOK
    <3>2. QED BY <1>1, <3>1 DEF MessageInv, CallsSound, MsgTypeOK
  <2>3. pyCount # 1 => pyCount' > 0 /\ pyCount' + toTransfer' = pyHeld' + NativeRefs'
    BY <1>1, <1>2, <1>4
  <2>4. controlled' /\ (destroyed' <=> pyCount = 1) /\ msgPc' = msgPc /\ toTransfer' = toTransfer
    BY <1>1, <1>3
  <2>5. QED BY <1>4, <2>1, <2>2, <2>3, <2>4 DEF MessageInv, CountsSound
<1>8. QED BY <1>5, <1>6, <1>7 DEF MessageInv

\* Made by Python or natively, the message has the references that are held.
LEMMA MessageInitKeeps ==
  ASSUME MessageInit PROVE MessageInv
<1> USE DEF MessageInit
<1>1. MsgTypeOK
  <2>1. natives \in [MsgThreads -> Nat]
    <3>1. CASE natives = [t \in MsgThreads |-> 0]
      BY <3>1
    <3>2. CASE \E c \in MsgThreads : natives = [t \in MsgThreads |-> IF t = c THEN 1 ELSE 0]
      BY <3>2
    <3>3. QED BY <3>1, <3>2
  <2>2. {refData, pyCount, pyHeld, toTransfer} \subseteq Nat
    OBVIOUS
  <2>3. controlled \in BOOLEAN /\ destroyed \in BOOLEAN
    OBVIOUS
  <2>4. msgPc \in [MsgThreads -> {"idle", "retain", "release", "transfer"}]
    OBVIOUS
  <2>5. QED BY <2>1, <2>2, <2>3, <2>4 DEF MsgTypeOK
<1>2. CallsSound
  BY MessageAssumption DEF CallsSound
<1>3. NativeRefs = IF controlled THEN 0 ELSE 1
  <2> DEFINE Z == [t \in MsgThreads |-> 0]
  <2>1. IsFiniteSet(MsgThreads) /\ Z \in [MsgThreads -> Nat] /\ Cardinality(Units(Z, MsgThreads)) = 0
    BY MessageAssumption, NoneLeft
  <2>2. NativeRefs = Cardinality(Units(natives, MsgThreads))
    BY <1>1, RefsCounted DEF Counted, MsgTypeOK
  <2>3. CASE controlled
    BY <2>1, <2>2, <2>3
  <2>4. CASE ~controlled
    <3>1. PICK c \in MsgThreads : natives = [t \in MsgThreads |-> IF t = c THEN 1 ELSE 0]
      BY <2>4
    <3>2. natives = [Z EXCEPT ![c] = @ + 1]
      BY <3>1
    <3> HIDE DEF Z
    <3>3. Cardinality(Units(natives, MsgThreads)) = Cardinality(Units(Z, MsgThreads)) + 1
      BY <2>1, <3>2, OneMore
    <3>4. QED BY <2>1, <2>2, <2>4, <3>3
  <2>5. QED BY <2>3, <2>4
<1>4. CountsSound
  BY <1>3 DEF CountsSound
<1>5. QED BY <1>1, <1>2, <1>4 DEF MessageInv

\* The invariant holds, whether or not references are copied with the GIL.
LEMMA MessageInvariant == MessageSpec => []MessageInv
<1>1. ASSUME MessageInv, [MessageNext]_messageVars PROVE MessageInv'
  <2>1. ASSUME NEW t \in MsgThreads,
               \/ TakeGil(t) \/ DropGil(t)
               \/ RetainLocks(t) \/ RetainCounts(t)
               \/ ReleaseNative(t) \/ ReleaseUnlocks(t) \/ ReleaseCounts(t)
               \/ \E u \in MsgThreads : MoveRef(t, u)
               \/ TakeOwnership(t) \/ TransferRef(t) \/ PyGets(t) \/ PyDrops(t)
        PROVE  MessageInv'
    BY <1>1, <2>1, GilKeeps, RetainLocksKeeps, RetainCountsKeeps, ReleaseNativeKeeps,
       ReleaseUnlocksKeeps, ReleaseCountsKeeps, MoveRefKeeps, TakeOwnershipKeeps,
       TransferRefKeeps, PyGetsKeeps, PyDropsKeeps
  <2>2. CASE UNCHANGED messageVars
    <3>1. MsgTypeOK' /\ CallsSound'
      BY <1>1, <2>2 DEF MessageInv, messageVars, MsgTypeOK, CallsSound
    <3>2. NativeRefs' = NativeRefs
      <4>1. natives \in [MsgThreads -> Nat] /\ natives' = natives
        BY <1>1, <2>2 DEF MessageInv, MsgTypeOK, messageVars
      <4>2. QED BY <4>1, RefsCounted, RefsCountedNext DEF Counted, Units
    <3>3. CountsSound'
      BY <1>1, <2>2, <3>2 DEF MessageInv, messageVars, CountsSound
    <3>4. QED BY <3>1, <3>3 DEF MessageInv
  <2>3. QED BY <1>1, <2>1, <2>2 DEF MessageNext
<1>2. QED BY <1>1, MessageInitKeeps, PTL DEF MessageSpec

\* messaging.h and lib_ext.cc, where references are copied with the GIL: the
\* message lives exactly as long as it is referred to, natively or from Python,
\* and the holder of its lock does not wait for the GIL.
THEOREM MessageLifetime ==
  ASSUME RetainsHoldGil PROVE MessageSpec => []MessageOwned
<1>1. MessageInv => MessageOwned
  BY DEF MessageInv, CallsSound, CountsSound, MessageOwned
<1>2. QED BY <1>1, MessageInvariant, PTL

----------------------------------------------------------------------------
(***************************************************************************)
(* InlinedDims.  Every object has the size of its vector.  An object that  *)
(* is not spoilt stands for it: the member of the union that data() takes  *)
(* has been written last, and the vector's elements come first in it.      *)
(***************************************************************************)
Representations == [size : Nat, member : {"inline", "dynamic"}, cells : Seq(DimValues)]

StandsFor(d, c) ==
    /\ d \in Representations /\ c \in Seq(DimValues)
    /\ d.size = Len(c) /\ d.size <= Len(d.cells) /\ Readable(d)
    /\ d.member = "inline" => Len(d.cells) = MaxInlineRank
    /\ \A i \in 1 .. Len(c) : d.cells[i] = c[i]

Sized(d, c) ==
    /\ DOMAIN d = {"size", "member", "cells"} /\ d = [k \in DOMAIN d |-> d[k]]
    /\ c \in Seq(DimValues) /\ d.size = Len(c)

DimsInv == /\ DOMAIN dims = DimsObjects /\ content = [o \in DimsObjects |-> content[o]]
           /\ \A o \in DimsObjects :
                 /\ Sized(dims[o], content[o])
                 /\ o \notin spoilt => StandsFor(dims[o], content[o])

\* What stands for a vector reads as the vector.
LEMMA ReadsAs ==
  ASSUME NEW d, NEW c, StandsFor(d, c)
  PROVE  Span(d) = c
<1>1. Len(c) \in Nat /\ c = [i \in 1 .. Len(c) |-> c[i]] /\ d.size = Len(c)
  BY DEF StandsFor
<1>2. \A i \in 1 .. Len(c) : d.cells[i] = c[i]
  BY DEF StandsFor
<1>3. QED BY <1>1, <1>2 DEF Span, FirstN

\* What stands for a vector has its size.
LEMMA StandsSized ==
  ASSUME NEW d, NEW c, StandsFor(d, c)
  PROVE  Sized(d, c)
BY DEF StandsFor, Sized, Representations

\* What methods see of an object has its size, and is what stands for the vector.
LEMMA SeenAs ==
  ASSUME NEW d, NEW c, Sized(d, c), NEW e \in Seen(d)
  PROVE  Sized(e, c) /\ (StandsFor(d, c) => StandsFor(e, c))
<1>1. CASE Readable(d)
  BY <1>1 DEF Seen
<1>2. CASE ~Readable(d)
  <2>1. PICK junk \in [1 .. MaxInlineRank -> DimValues] :
           e = [size |-> d.size, member |-> "inline", cells |-> junk]
    <3>1. e \in {[size |-> d.size, member |-> "inline", cells |-> junk] : junk \in [1 .. MaxInlineRank -> DimValues]}
      BY <1>2 DEF Seen
    <3>2. QED BY <3>1
  <2>2. /\ DOMAIN d = {"size", "member", "cells"} /\ d.size = Len(c) /\ c \in Seq(DimValues)
    BY DEF Sized
  <2>3. DOMAIN e = {"size", "member", "cells"} /\ e.size = d.size /\ e = [k \in DOMAIN e |-> e[k]]
    BY <2>1, <2>2
  <2>4. Sized(e, c)
    BY <2>2, <2>3 DEF Sized
  <2>5. ~StandsFor(d, c)
    BY <1>2 DEF StandsFor
  <2>6. QED BY <2>4, <2>5
<1>3. QED BY <1>1, <1>2

\* A list of n elements.
LEMMA ListOf ==
  ASSUME NEW S, NEW n \in Nat, NEW f \in [1 .. n -> S]
  PROVE  f \in Seq(S) /\ Len(f) = n
OBVIOUS

LEMMA DimsNumbers == /\ MaxInlineRank \in Nat /\ MaxInlineRank > 0 /\ MaxRank \in Nat /\ Counts \subseteq Nat
                     /\ 0 \in DimValues
BY DimsAssumption

\* An inline array of n elements, and one on the heap.
LEMMA InlineStands ==
  ASSUME NEW c \in Seq(DimValues), NEW a \in [1 .. MaxInlineRank -> DimValues],
         Len(c) <= MaxInlineRank, \A i \in 1 .. Len(c) : a[i] = c[i]
  PROVE  StandsFor([size |-> Len(c), member |-> "inline", cells |-> a], c)
<1> DEFINE d == [size |-> Len(c), member |-> "inline", cells |-> a]
<1>1. d.size = Len(c) /\ d.member = "inline" /\ d.cells = a
  OBVIOUS
<1>2. a \in Seq(DimValues) /\ Len(a) = MaxInlineRank
  BY DimsNumbers, ListOf
<1>3. d \in Representations
  BY <1>2 DEF Representations
<1> HIDE DEF d
<1>4. Readable(d)
  <2>1. Len(c) \in Nat /\ MaxInlineRank \in Nat
    BY DimsNumbers
  <2>2. QED BY <1>1, <2>1 DEF Readable, Member
<1>5. StandsFor(d, c)
  BY <1>1, <1>2, <1>3, <1>4 DEF StandsFor
<1>6. QED BY <1>5 DEF d

LEMMA DynamicStands ==
  ASSUME NEW c \in Seq(DimValues), NEW a \in Seq(DimValues),
         Len(c) > MaxInlineRank, Len(c) <= Len(a), \A i \in 1 .. Len(c) : a[i] = c[i]
  PROVE  StandsFor([size |-> Len(c), member |-> "dynamic", cells |-> a], c)
<1> DEFINE d == [size |-> Len(c), member |-> "dynamic", cells |-> a]
<1>1. d.size = Len(c) /\ d.member = "dynamic" /\ d.cells = a
  OBVIOUS
<1>2. d \in Representations
  BY DEF Representations
<1> HIDE DEF d
<1>3. Readable(d)
  BY <1>1 DEF Readable, Member
<1>4. StandsFor(d, c)
  BY <1>1, <1>2, <1>3 DEF StandsFor
<1>5. QED BY <1>4 DEF d

\* set() stands for its elements.
LEMMA SetStands ==
  ASSUME NEW c \in Seq(DimValues)
  PROVE  StandsFor(Set(c), c)
<1>1. Len(c) \in Nat /\ MaxInlineRank \in Nat /\ \A i \in 1 .. Len(c) : c[i] \in DimValues
  BY DimsNumbers
<1>2. CASE Len(c) > MaxInlineRank
  BY <1>1, <1>2, DynamicStands DEF Set
<1>3. CASE ~(Len(c) > MaxInlineRank)
  <2>1. Inline(c) \in [1 .. MaxInlineRank -> DimValues]
    BY <1>1, DimsNumbers DEF Inline
  <2>2. \A i \in 1 .. Len(c) : Inline(c)[i] = c[i]
    BY <1>1, <1>3 DEF Inline
  <2>3. StandsFor([size |-> Len(c), member |-> "inline", cells |-> Inline(c)], c)
    BY <1>1, <1>3, <2>1, <2>2, InlineStands
  <2>4. QED BY <1>3, <2>3 DEF Set
<1>4. QED BY <1>2, <1>3

\* Objects, one of which changes.
LEMMA OneHolds ==
  ASSUME DimsInv, NEW o \in DimsObjects, NEW d, NEW c, Sized(d, c),
         o \notin spoilt' => StandsFor(d, c),
         \A p \in DimsObjects : p # o => (p \in spoilt => p \in spoilt'),
         dims' = [dims EXCEPT ![o] = d], content' = [content EXCEPT ![o] = c]
  PROVE  DimsInv'
<1>1. DOMAIN dims' = DimsObjects /\ content' = [p \in DimsObjects |-> content'[p]]
  BY DEF DimsInv
<1>2. ASSUME NEW p \in DimsObjects
      PROVE  Sized(dims'[p], content'[p]) /\ (p \notin spoilt' => StandsFor(dims'[p], content'[p]))
  <2>1. CASE p = o
    BY <2>1 DEF DimsInv
  <2>2. CASE p # o
    <3>1. dims'[p] = dims[p] /\ content'[p] = content[p] /\ (p \in spoilt => p \in spoilt')
      BY <2>2 DEF DimsInv
    <3>2. QED BY <3>1 DEF DimsInv
  <2>3. QED BY <2>1, <2>2
<1>3. QED BY <1>1, <1>2 DEF DimsInv

\* Objects, one of which is sound afterwards.
LEMMA OneStands ==
  ASSUME DimsInv, NEW o \in DimsObjects, NEW d, NEW c, StandsFor(d, c),
         dims' = [dims EXCEPT ![o] = d], content' = [content EXCEPT ![o] = c],
         spoilt' = spoilt \ {o}
  PROVE  DimsInv'
<1>1. Sized(d, c)
  BY StandsSized
<1>2. \A p \in DimsObjects : p # o => (p \in spoilt => p \in spoilt')
  OBVIOUS
<1>3. QED BY <1>1, <1>2, OneHolds

\* The constructor with a count and a value.
LEMMA ConstructKeeps ==
  ASSUME DimsInv, NEW o \in DimsObjects, NEW n \in 0 .. MaxRank, NEW v \in DimValues,
         ConstructDims(o, n, v)
  PROVE  DimsInv'
<1>1. n \in Nat /\ MaxInlineRank \in Nat
  BY DimsNumbers
<1>2. \A m \in Nat : Filled(m, v) \in [1 .. m -> DimValues]
  BY DEF Filled
<1>3. Filled(n, v) \in Seq(DimValues) /\ Len(Filled(n, v)) = n
  BY <1>1, <1>2, ListOf
<1>4. CASE n > MaxInlineRank
  <2>1. StandsFor([size |-> n, member |-> "dynamic", cells |-> Filled(n, v)], Filled(n, v))
    <3>1. PICK c \in Seq(DimValues) : c = Filled(n, v) /\ Len(c) = n
      BY <1>3
    <3>2. StandsFor([size |-> Len(c), member |-> "dynamic", cells |-> c], c)
      BY <1>1, <1>4, <3>1, DynamicStands
    <3>3. QED BY <3>1, <3>2
  <2>2. dims' = [dims EXCEPT ![o] = [size |-> n, member |-> "dynamic", cells |-> Filled(n, v)]]
    BY <1>4 DEF ConstructDims
  <2>3. QED BY <2>1, <2>2, OneStands DEF ConstructDims
<1>5. CASE ~(n > MaxInlineRank)
  <2>1. \A i \in 1 .. n : Filled(MaxInlineRank, v)[i] = Filled(n, v)[i]
    BY <1>1, <1>5 DEF Filled
  <2>2. StandsFor([size |-> n, member |-> "inline", cells |-> Filled(MaxInlineRank, v)], Filled(n, v))
    <3>1. PICK c \in Seq(DimValues) : c = Filled(n, v) /\ Len(c) = n
      BY <1>3
    <3>2. PICK a \in [1 .. MaxInlineRank -> DimValues] : a = Filled(MaxInlineRank, v)
      BY <1>1, <1>2
    <3>3. StandsFor([size |-> Len(c), member |-> "inline", cells |-> a], c)
      BY <1>1, <1>5, <2>1, <3>1, <3>2, InlineStands
    <3>4. QED BY <3>1, <3>2, <3>3
  <2>3. dims' = [dims EXCEPT ![o] = [size |-> n, member |-> "inline", cells |-> Filled(MaxInlineRank, v)]]
    BY <1>5 DEF ConstructDims
  <2>4. QED BY <2>2, <2>3, OneStands DEF ConstructDims
<1>6. QED BY <1>4, <1>5

\* set() of n elements has n of them, whatever they are.
LEMMA SetSized ==
  ASSUME NEW n \in Nat, NEW s, NEW c \in Seq(DimValues), Len(c) = n,
         s = [i \in 1 .. n |-> s[i]]
  PROVE  Sized(Set(s), c)
<1>1. s \in [1 .. n -> {s[i] : i \in 1 .. n}]
  OBVIOUS
<1>2. Len(s) = n
  BY <1>1, ListOf
<1>3. QED BY <1>2 DEF Set, Sized

\* A copy of another object.
LEMMA CopyKeeps ==
  ASSUME DimsInv, NEW o \in DimsObjects, NEW p \in DimsObjects, CopyOther(o, p)
  PROVE  DimsInv'
<1>1. /\ o # p /\ Sized(dims[p], content[p]) /\ (p \notin spoilt => StandsFor(dims[p], content[p]))
      /\ content' = [content EXCEPT ![o] = content[p]] /\ SpoiltAs(o, p)
  BY DEF DimsInv, CopyOther
<1>2. PICK d \in Seen(dims[p]) : dims' = [dims EXCEPT ![o] = Set(Span(d))]
  BY DEF CopyOther
<1>3. Sized(d, content[p]) /\ (p \notin spoilt => StandsFor(d, content[p]))
  BY <1>1, SeenAs
<1>4. content[p] \in Seq(DimValues) /\ d.size = Len(content[p])
  BY <1>3 DEF Sized
<1>5. Sized(Set(Span(d)), content[p])
  <2>1. Span(d) = [i \in 1 .. d.size |-> Span(d)[i]] /\ d.size \in Nat
    BY <1>4 DEF Span, FirstN
  <2>2. QED BY <1>4, <2>1, SetSized
<1>6. o \notin spoilt' => StandsFor(Set(Span(d)), content[p])
  <2>1. o \notin spoilt' => p \notin spoilt
    BY <1>1 DEF SpoiltAs
  <2>2. p \notin spoilt => Span(d) = content[p]
    BY <1>3, ReadsAs
  <2>3. QED BY <1>4, <2>1, <2>2, SetStands
<1>7. \A q \in DimsObjects : q # o => (q \in spoilt => q \in spoilt')
  BY <1>1 DEF SpoiltAs
<1>8. QED BY <1>1, <1>2, <1>5, <1>6, <1>7, OneHolds

\* An object assigned to itself keeps its size.
LEMMA AssignKeeps ==
  ASSUME DimsInv, NEW o \in DimsObjects, AssignSelf(o)
  PROVE  DimsInv'
<1>1. Sized(dims[o], content[o]) /\ content = [p \in DimsObjects |-> content[p]]
  BY DEF DimsInv
<1>2. content[o] \in Seq(DimValues) /\ dims[o].size = Len(content[o]) /\ Len(content[o]) \in Nat
  BY <1>1 DEF Sized
<1>3. PICK s \in [1 .. dims[o].size -> DimValues] : dims' = [dims EXCEPT ![o] = Set(s)]
  BY DEF AssignSelf
<1>4. Sized(Set(s), content[o])
  BY <1>2, <1>3, SetSized
<1>5. content' = [content EXCEPT ![o] = content[o]]
  <2>1. content' = content
    BY DEF AssignSelf
  <2>2. QED BY <1>1, <2>1
<1>6. o \in spoilt' /\ \A p \in DimsObjects : p # o => (p \in spoilt => p \in spoilt')
  BY DEF AssignSelf
<1>7. QED BY <1>3, <1>4, <1>5, <1>6, OneHolds

\* What is moved from is empty.
LEMMA MovedStands ==
  ASSUME NEW d, NEW c, StandsFor(d, c)
  PROVE  StandsFor([d EXCEPT !.size = 0], << >>)
<1> DEFINE moved == [d EXCEPT !.size = 0]
<1>1. d \in Representations /\ d.member = "inline" => Len(d.cells) = MaxInlineRank
  BY DEF StandsFor
<1>2. d \in Representations
  BY DEF StandsFor
<1>3. /\ moved \in Representations /\ moved.size = 0 /\ moved.member = d.member
      /\ moved.cells = d.cells /\ Len(moved.cells) \in Nat
  BY <1>2 DEF Representations
<1> HIDE DEF moved
<1>4. << >> \in Seq(DimValues) /\ Len(<< >>) = 0
  OBVIOUS
<1>5. Readable(moved)
  BY <1>3 DEF Readable
<1>6. 0 <= Len(moved.cells)
  BY <1>3
<1>7. StandsFor(moved, << >>)
  BY <1>1, <1>3, <1>4, <1>5, <1>6 DEF StandsFor
<1>8. QED BY <1>7 DEF moved

LEMMA MovedSized ==
  ASSUME NEW d, NEW c, Sized(d, c)
  PROVE  Sized([d EXCEPT !.size = 0], << >>)
<1>1. << >> \in Seq(DimValues) /\ Len(<< >>) = 0
  OBVIOUS
<1>2. QED BY <1>1 DEF Sized

LEMMA MoveKeeps ==
  ASSUME DimsInv, NEW o \in DimsObjects, NEW p \in DimsObjects, MoveDims(o, p)
  PROVE  DimsInv'
<1> DEFINE moved == [dims[p] EXCEPT !.size = 0]
<1>1. /\ o # p /\ DOMAIN dims = DimsObjects /\ content = [q \in DimsObjects |-> content[q]]
      /\ dims' = [dims EXCEPT ![o] = dims[p], ![p].size = 0]
      /\ content' = [content EXCEPT ![o] = content[p], ![p] = <<>>]
      /\ Sized(dims[p], content[p]) /\ (p \notin spoilt => StandsFor(dims[p], content[p]))
  BY DEF MoveDims, DimsInv
<1>2. /\ o \in spoilt' <=> p \in spoilt
      /\ \A q \in DimsObjects : q # o => (q \in spoilt' <=> q \in spoilt)
  BY <1>1 DEF MoveDims, SpoiltAs
<1>3. Sized(moved, << >>)
  BY <1>1, MovedSized
<1>4. ASSUME NEW q \in DimsObjects
      PROVE  Sized(dims'[q], content'[q]) /\ (q \notin spoilt' => StandsFor(dims'[q], content'[q]))
  <2>1. CASE q = p
    <3>1. dims'[q] = moved /\ content'[q] = << >>
      BY <1>1, <2>1
    <3>2. QED BY <1>1, <1>2, <1>3, <2>1, <3>1, MovedStands
  <2>2. CASE q = o
    <3>1. dims'[q] = dims[p] /\ content'[q] = content[p]
      BY <1>1, <2>2
    <3>2. QED BY <1>1, <1>2, <2>2, <3>1
  <2>3. CASE q # o /\ q # p
    <3>1. dims'[q] = dims[q] /\ content'[q] = content[q]
      BY <1>1, <2>3
    <3>2. QED BY <1>2, <2>3, <3>1 DEF DimsInv
  <2>4. QED BY <2>1, <2>2, <2>3
<1>5. DOMAIN dims' = DimsObjects /\ content' = [q \in DimsObjects |-> content'[q]]
  BY <1>1
<1>6. QED BY <1>4, <1>5 DEF DimsInv

\* One element is written.
LEMMA WriteStands ==
  ASSUME NEW d, NEW c, StandsFor(d, c), NEW i \in 1 .. d.size, NEW v \in DimValues
  PROVE  StandsFor([d EXCEPT !.cells[i] = v], [c EXCEPT ![i] = v])
<1> DEFINE e == [d EXCEPT !.cells[i] = v]  f == [c EXCEPT ![i] = v]
<1>2. /\ d \in Representations /\ c \in Seq(DimValues) /\ d.size = Len(c)
      /\ d.size <= Len(d.cells) /\ Readable(d)
      /\ d.member = "inline" => Len(d.cells) = MaxInlineRank
      /\ \A k \in 1 .. Len(c) : d.cells[k] = c[k]
  BY DEF StandsFor
<1>4. d.cells \in Seq(DimValues) /\ d.size \in Nat /\ Len(d.cells) \in Nat
  BY <1>2 DEF Representations
<1>5. f \in Seq(DimValues) /\ Len(f) = Len(c) /\ \A k \in 1 .. Len(c) : f[k] = IF k = i THEN v ELSE c[k]
  BY <1>2
<1>6. PICK a \in Seq(DimValues) : /\ a = [d.cells EXCEPT ![i] = v] /\ Len(a) = Len(d.cells)
                                  /\ \A k \in 1 .. Len(a) : a[k] = IF k = i THEN v ELSE d.cells[k]
  <2>1. i \in 1 .. Len(d.cells)
    BY <1>2, <1>4
  <2>2. PICK s \in Seq(DimValues) : s = d.cells /\ i \in 1 .. Len(s)
    BY <1>4, <2>1
  <2>3. /\ [s EXCEPT ![i] = v] \in Seq(DimValues) /\ Len([s EXCEPT ![i] = v]) = Len(s)
        /\ \A k \in 1 .. Len(s) : [s EXCEPT ![i] = v][k] = IF k = i THEN v ELSE s[k]
    BY <2>2
  <2>4. QED BY <2>2, <2>3
<1>7. e \in Representations /\ e.size = d.size /\ e.member = d.member /\ e.cells = a
  BY <1>2, <1>6 DEF Representations
<1> HIDE DEF e, f
<1>8. Readable(e)
  BY <1>2, <1>7 DEF Readable, Member
<1>9. \A k \in 1 .. Len(f) : e.cells[k] = f[k]
  <2>1. \A k \in 1 .. Len(f) : k \in 1 .. Len(a) /\ k \in 1 .. Len(c)
    BY <1>2, <1>4, <1>5, <1>6
  <2>2. QED BY <1>2, <1>5, <1>6, <1>7, <2>1
<1>10. StandsFor(e, f)
  BY <1>2, <1>5, <1>6, <1>7, <1>8, <1>9 DEF StandsFor
<1>11. QED BY <1>10 DEF e, f

LEMMA WriteSized ==
  ASSUME NEW d, NEW c, Sized(d, c), NEW i \in 1 .. d.size, NEW v \in DimValues
  PROVE  Sized([d EXCEPT !.cells[i] = v], [c EXCEPT ![i] = v])
<1>1. DOMAIN d = {"size", "member", "cells"} /\ c \in Seq(DimValues) /\ d.size = Len(c)
  BY DEF Sized
<1>2. [c EXCEPT ![i] = v] \in Seq(DimValues) /\ Len([c EXCEPT ![i] = v]) = Len(c)
  BY <1>1
<1>3. QED BY <1>1, <1>2 DEF Sized

LEMMA WriteKeeps ==
  ASSUME DimsInv, NEW o \in DimsObjects, NEW i \in 1 .. MaxRank, NEW v \in DimValues,
         WriteDim(o, i, v)
  PROVE  DimsInv'
<1>1. /\ Sized(dims[o], content[o]) /\ (o \notin spoilt => StandsFor(dims[o], content[o]))
      /\ i \in 1 .. dims[o].size /\ content' = [content EXCEPT ![o] = [content[o] EXCEPT ![i] = v]]
      /\ spoilt' = spoilt
  BY DEF DimsInv, WriteDim
<1>2. PICK d \in Seen(dims[o]) : dims' = [dims EXCEPT ![o] = [d EXCEPT !.cells[i] = v]]
  BY DEF WriteDim
<1>3. Sized(d, content[o]) /\ (o \notin spoilt => StandsFor(d, content[o]))
  BY <1>1, SeenAs
<1>4. i \in 1 .. d.size
  BY <1>1, <1>3 DEF Sized
<1>5. Sized([d EXCEPT !.cells[i] = v], [content[o] EXCEPT ![i] = v])
  BY <1>3, <1>4, WriteSized
<1>6. o \notin spoilt' => StandsFor([d EXCEPT !.cells[i] = v], [content[o] EXCEPT ![i] = v])
  BY <1>1, <1>3, <1>4, WriteStands
<1>7. QED BY <1>1, <1>2, <1>5, <1>6, OneHolds

\* A resize, whose count is not MaxInlineRank.
LEMMA ResizeStands ==
  ASSUME NEW d, NEW c, StandsFor(d, c), NEW count \in Nat, count # MaxInlineRank,
         NEW v \in DimValues
  PROVE  StandsFor(ResizeImpl(d, count, v), [i \in 1 .. count |-> IF i <= Len(c) THEN c[i] ELSE v])
<1> DEFINE f == [i \in 1 .. count |-> IF i <= Len(c) THEN c[i] ELSE v]
           e == ResizeImpl(d, count, v)
<1>1. /\ d \in Representations /\ c \in Seq(DimValues) /\ d.size = Len(c)
      /\ d.size <= Len(d.cells) /\ Readable(d)
      /\ d.member = "inline" => Len(d.cells) = MaxInlineRank
      /\ \A k \in 1 .. Len(c) : d.cells[k] = c[k]
  BY DEF StandsFor
<1>2. /\ d.cells \in Seq(DimValues) /\ d.size \in Nat /\ Len(d.cells) \in Nat /\ Len(c) \in Nat
      /\ d.member \in {"inline", "dynamic"} /\ MaxInlineRank \in Nat /\ MaxInlineRank > 0
  BY <1>1, DimsNumbers DEF Representations
<1>3. \A k \in 1 .. Len(c) : c[k] \in DimValues
  BY <1>1
<1>4. f \in Seq(DimValues) /\ Len(f) = count
  <2>1. \A i \in 1 .. count : i <= Len(c) => i \in 1 .. Len(c)
    BY <1>2
  <2>2. f \in [1 .. count -> DimValues]
    BY <1>3, <2>1
  <2> HIDE DEF f
  <2>3. QED BY <2>2, ListOf
<1>5. \A i \in 1 .. count : f[i] = IF i <= Len(c) THEN c[i] ELSE v
  OBVIOUS
<1> DEFINE Grows(a) == /\ a \in [1 .. count -> DimValues]
                       /\ \A i \in 1 .. count : a[i] = f[i]
<1> HIDE DEF f
<1>6. CASE count = d.size
  <2>1. f = c
    <3>1. f = [i \in 1 .. count |-> f[i]] /\ c = [i \in 1 .. count |-> c[i]]
      BY <1>1, <1>4, <1>6
    <3>2. \A i \in 1 .. count : f[i] = c[i]
      BY <1>1, <1>2, <1>5, <1>6
    <3>3. QED BY <3>1, <3>2
  <2>2. e = d
    BY <1>6 DEF ResizeImpl
  <2> HIDE DEF e
  <2>3. QED BY <2>1, <2>2 DEF e, f
<1>7. CASE count < d.size
  <2>1. \A i \in 1 .. count : f[i] = d.cells[i] /\ d.cells[i] \in DimValues /\ i \in 1 .. Len(c)
    BY <1>1, <1>2, <1>3, <1>5, <1>7
  <2>2. CASE d.size > MaxInlineRank /\ count < MaxInlineRank
    <3> DEFINE s == FirstN(d.cells, count)
    <3>1. s \in Seq(DimValues) /\ Len(s) = count /\ \A i \in 1 .. count : s[i] = f[i]
      <4>1. s \in [1 .. count -> DimValues] /\ \A i \in 1 .. count : s[i] = f[i]
        BY <2>1 DEF FirstN
      <4> HIDE DEF s
      <4>2. QED BY <4>1, ListOf
    <3>2. e = [size |-> count, member |-> "inline", cells |-> Inline(s)]
      BY <1>2, <1>7, <2>2 DEF ResizeImpl
    <3> HIDE DEF s, e
    <3>3. PICK a \in [1 .. MaxInlineRank -> DimValues] : a = Inline(s) /\ \A i \in 1 .. count : a[i] = f[i]
      <4>1. \A i \in 1 .. MaxInlineRank : i <= Len(s) => i \in 1 .. Len(s) /\ s[i] \in DimValues
        BY <1>2, <3>1
      <4>2. Inline(s) \in [1 .. MaxInlineRank -> DimValues]
        BY <4>1, DimsNumbers DEF Inline
      <4>3. \A i \in 1 .. count : Inline(s)[i] = f[i]
        BY <1>2, <2>2, <3>1 DEF Inline
      <4>4. QED BY <4>2, <4>3
    <3>4. StandsFor([size |-> Len(f), member |-> "inline", cells |-> a], f)
      <4>1. Len(f) <= MaxInlineRank /\ \A i \in 1 .. Len(f) : a[i] = f[i]
        BY <1>2, <1>4, <2>2, <3>3
      <4>2. QED BY <1>4, <4>1, InlineStands
    <3>5. QED BY <1>4, <3>2, <3>3, <3>4 DEF e, f
  <2>3. CASE ~(d.size > MaxInlineRank /\ count < MaxInlineRank)
    <3>1. e = [d EXCEPT !.size = count]
      BY <1>1, <1>2, <1>7, <2>3 DEF ResizeImpl
    <3>2. /\ e \in Representations /\ e.size = count /\ e.member = d.member /\ e.cells = d.cells
      BY <1>1, <3>1 DEF Representations
    <3> HIDE DEF e
    <3>3. Readable(e)
      <4>1. count > MaxInlineRank <=> d.size > MaxInlineRank
        BY <1>2, <1>7, <2>3
      <4>2. d.size # 0
        BY <1>2, <1>7
      <4>3. Member(d) = d.member
        BY <1>1, <4>2 DEF Readable
      <4>4. Member(e) = Member(d)
        BY <3>2, <4>1 DEF Member
      <4>5. QED BY <3>2, <4>3, <4>4 DEF Readable
    <3>4. count <= Len(d.cells)
      BY <1>1, <1>2, <1>7
    <3>5. StandsFor(e, f)
      BY <1>1, <1>4, <2>1, <3>2, <3>3, <3>4 DEF StandsFor
    <3>6. QED BY <3>5 DEF e, f
  <2>4. QED BY <2>2, <2>3
<1>8. CASE count > d.size
  <2> DEFINE g == IF d.size > MaxInlineRank THEN d ELSE Cells(d)
  <2>1. /\ g.size = d.size /\ \A i \in 1 .. d.size : g.cells[i] = d.cells[i]
        /\ d.size <= MaxInlineRank => \A i \in 1 .. MaxInlineRank : g.cells[i] \in DimValues
    <3>1. CASE d.size > MaxInlineRank
      BY <1>2, <3>1
    <3>2. CASE d.size <= MaxInlineRank /\ d.member = "inline"
      <4>1. g = d
        BY <1>2, <3>2 DEF Cells
      <4> HIDE DEF g
      <4>2. \A i \in 1 .. MaxInlineRank : d.cells[i] \in DimValues
        BY <1>1, <1>2, <3>2
      <4>3. QED BY <4>1, <4>2
    <3>3. CASE d.size <= MaxInlineRank /\ d.member # "inline"
      <4>1. d.size = 0
        BY <1>1, <1>2, <3>3 DEF Readable, Member
      <4>2. g = [d EXCEPT !.cells = Filled(MaxInlineRank, 0)]
        BY <1>2, <3>3 DEF Cells
      <4>3. g.size = d.size /\ g.cells = Filled(MaxInlineRank, 0)
        BY <1>1, <4>2 DEF Representations
      <4> HIDE DEF g
      <4>4. \A i \in 1 .. MaxInlineRank : g.cells[i] \in DimValues
        BY <4>3, DimsNumbers DEF Filled
      <4>5. QED BY <4>1, <4>3, <4>4
    <3>4. QED BY <1>2, <3>1, <3>2, <3>3
  <2>2. CASE count < MaxInlineRank
    <3>1. e = [size |-> count, member |-> "inline", cells |-> Initialized(Cells(d), count, v)] /\ g = Cells(d)
      BY <1>2, <1>8, <2>2 DEF ResizeImpl
    <3> HIDE DEF e, g
    <3>2. PICK a \in [1 .. MaxInlineRank -> DimValues] :
             a = Initialized(g, count, v) /\ \A i \in 1 .. count : a[i] = f[i]
      <4>1. \A i \in 1 .. MaxInlineRank : g.cells[i] \in DimValues
        BY <1>2, <1>8, <2>1, <2>2
      <4>2. Initialized(g, count, v) \in [1 .. MaxInlineRank -> DimValues]
        BY <4>1 DEF Initialized
      <4>3. ASSUME NEW i \in 1 .. count PROVE Initialized(g, count, v)[i] = f[i]
        <5>1. i \in 1 .. MaxInlineRank
          BY <1>2, <2>2
        <5>2. CASE i > d.size
          BY <1>1, <1>2, <1>5, <2>1, <5>1, <5>2 DEF Initialized
        <5>3. CASE i <= d.size
          <6>1. i \in 1 .. d.size /\ i \in 1 .. Len(c) /\ ~(i > d.size)
            BY <1>1, <1>2, <5>3
          <6>2. Initialized(g, count, v)[i] = g.cells[i]
            BY <2>1, <5>1, <6>1 DEF Initialized
          <6>3. QED BY <1>1, <1>5, <2>1, <5>3, <6>1, <6>2
        <5>4. QED BY <1>2, <5>2, <5>3
      <4>4. QED BY <4>2, <4>3
    <3>3. StandsFor([size |-> Len(f), member |-> "inline", cells |-> a], f)
      <4>1. Len(f) <= MaxInlineRank /\ \A i \in 1 .. Len(f) : a[i] = f[i]
        BY <1>2, <1>4, <2>2, <3>2
      <4>2. QED BY <1>4, <4>1, InlineStands
    <3>4. QED BY <1>4, <3>1, <3>2, <3>3 DEF e, f
  <2>3. CASE ~(count < MaxInlineRank)
    <3>1. count > MaxInlineRank
      BY <1>2, <2>3
    <3>2. e = [size |-> count, member |-> "dynamic", cells |-> Grown(g, count, v)]
      BY <1>2, <1>8, <2>3 DEF ResizeImpl
    <3> HIDE DEF e, g
    <3>3. Grown(g, count, v) \in [1 .. count -> DimValues] /\ \A i \in 1 .. count : Grown(g, count, v)[i] = f[i]
      <4>1. ASSUME NEW i \in 1 .. count
            PROVE  (IF i <= g.size THEN g.cells[i] ELSE v) = f[i] /\ f[i] \in DimValues
        <5>1. CASE i <= d.size
          <6>1. i \in 1 .. d.size /\ i \in 1 .. Len(c)
            BY <1>1, <1>2, <5>1
          <6>2. QED BY <1>1, <1>3, <1>5, <2>1, <5>1, <6>1
        <5>2. CASE ~(i <= d.size)
          BY <1>1, <1>5, <2>1, <5>2
        <5>3. QED BY <5>1, <5>2
      <4>2. QED BY <4>1 DEF Grown
    <3>4. PICK a \in Seq(DimValues) : a = Grown(g, count, v) /\ Len(a) = count
      BY <3>3, ListOf
    <3>5. StandsFor([size |-> Len(f), member |-> "dynamic", cells |-> a], f)
      BY <1>4, <3>1, <3>3, <3>4, DynamicStands
    <3>6. QED BY <1>4, <3>2, <3>4, <3>5 DEF e, f
  <2>4. QED BY <2>2, <2>3
<1>9. QED BY <1>2, <1>6, <1>7, <1>8

\* Any resize: the object has as many elements as it is asked to have.
LEMMA ResizeSized ==
  ASSUME NEW d, NEW c, Sized(d, c), NEW count \in Nat, NEW v \in DimValues
  PROVE  Sized(ResizeImpl(d, count, v), [i \in 1 .. count |-> IF i <= Len(c) THEN c[i] ELSE v])
<1> DEFINE f == [i \in 1 .. count |-> IF i <= Len(c) THEN c[i] ELSE v]
           e == ResizeImpl(d, count, v)
<1>1. /\ DOMAIN d = {"size", "member", "cells"} /\ d = [k \in DOMAIN d |-> d[k]]
      /\ c \in Seq(DimValues) /\ d.size = Len(c) /\ Len(c) \in Nat
      /\ MaxInlineRank \in Nat
  BY DimsNumbers DEF Sized
<1>2. f \in Seq(DimValues) /\ Len(f) = count
  <2>1. \A i \in 1 .. count : i <= Len(c) => i \in 1 .. Len(c) /\ c[i] \in DimValues
    BY <1>1
  <2>2. f \in [1 .. count -> DimValues]
    BY <2>1
  <2> HIDE DEF f
  <2>3. QED BY <2>2, ListOf
<1>3. DOMAIN e = {"size", "member", "cells"} /\ e = [k \in DOMAIN e |-> e[k]] /\ e.size = count
  <2>1. CASE count = d.size
    BY <1>1, <2>1 DEF ResizeImpl
  <2>2. CASE count # d.size /\ d.size > MaxInlineRank
    <3>1. \/ e = [d EXCEPT !.size = count]
          \/ e = [size |-> count, member |-> "inline", cells |-> Inline(FirstN(d.cells, count))]
          \/ e = [size |-> count, member |-> "dynamic", cells |-> Grown(d, count, v)]
      <4>1. CASE count < d.size /\ count < MaxInlineRank
        BY <1>1, <2>2, <4>1 DEF ResizeImpl
      <4>2. CASE count < d.size /\ ~(count < MaxInlineRank)
        BY <1>1, <2>2, <4>2 DEF ResizeImpl
      <4>3. CASE ~(count < d.size)
        BY <1>1, <2>2, <4>3 DEF ResizeImpl
      <4>4. QED BY <4>1, <4>2, <4>3
    <3> HIDE DEF e
    <3>2. QED BY <1>1, <3>1
  <2>3. CASE count # d.size /\ d.size <= MaxInlineRank
    <3>1. \/ e = [d EXCEPT !.size = count]
          \/ e = [size |-> count, member |-> "inline", cells |-> Initialized(Cells(d), count, v)]
          \/ e = [size |-> count, member |-> "dynamic", cells |-> Grown(Cells(d), count, v)]
      BY <1>1, <2>3 DEF ResizeImpl
    <3> HIDE DEF e
    <3>2. QED BY <1>1, <3>1
  <2>4. QED BY <1>1, <2>1, <2>2, <2>3
<1> HIDE DEF e, f
<1>4. Sized(e, f)
  BY <1>2, <1>3 DEF Sized
<1>5. QED BY <1>4 DEF e, f

LEMMA ResizeKeeps ==
  ASSUME DimsInv, NEW o \in DimsObjects, NEW count \in Counts, NEW v \in DimValues,
         Resize(o, count, v)
  PROVE  DimsInv'
<1> DEFINE c == content[o]
           f == [i \in 1 .. count |-> IF i <= Len(c) THEN c[i] ELSE v]
<1>1. /\ count \in Nat /\ Sized(dims[o], c) /\ (o \notin spoilt => StandsFor(dims[o], c))
      /\ content' = [content EXCEPT ![o] = f]
  BY DimsNumbers DEF DimsInv, Resize
<1>2. PICK d \in Seen(dims[o]) : dims' = [dims EXCEPT ![o] = ResizeImpl(d, count, v)]
  BY DEF Resize
<1>3. Sized(d, c) /\ (o \notin spoilt => StandsFor(d, c)) /\ d.size = dims[o].size
  <2>1. Sized(d, c) /\ (o \notin spoilt => StandsFor(d, c))
    <3> HIDE DEF c
    <3>1. QED BY <1>1, SeenAs
  <2>2. QED BY <1>1, <2>1 DEF Sized
<1>4. Sized(ResizeImpl(d, count, v), f)
  BY <1>1, <1>3, ResizeSized
<1>5. o \notin spoilt' => StandsFor(ResizeImpl(d, count, v), f)
  <2>1. CASE count # MaxInlineRank
    BY <1>1, <1>3, <2>1, ResizeStands DEF Resize
  <2>2. CASE count = d.size
    <3>1. ResizeImpl(d, count, v) = d
      BY <2>2 DEF ResizeImpl
    <3>2. f = c
      <4>1. c \in Seq(DimValues) /\ count = Len(c)
        BY <1>3, <2>2 DEF Sized
      <4> HIDE DEF c
      <4>2. QED BY <4>1
    <3>3. QED BY <1>3, <3>1, <3>2 DEF Resize
  <2>3. CASE count = MaxInlineRank /\ count # d.size
    BY <1>3, <2>3 DEF Resize
  <2>4. QED BY <2>1, <2>2, <2>3
<1>6. \A p \in DimsObjects : p # o => (p \in spoilt => p \in spoilt')
  BY DEF Resize
<1> HIDE DEF f
<1>7. QED BY <1>1, <1>2, <1>4, <1>5, <1>6, OneHolds

\* Whatever happens.
LEMMA DimsStep ==
  ASSUME DimsInv, [DimsNext]_dimsVars
  PROVE  DimsInv'
<1>1. CASE UNCHANGED dimsVars
  BY <1>1 DEF DimsInv, dimsVars, Sized, StandsFor, Readable, Member
<1>2. ASSUME NEW o \in DimsObjects, NEW n \in 0 .. MaxRank, NEW s \in [1 .. n -> DimValues], SetSpan(o, s)
      PROVE  DimsInv'
  <2>1. s \in Seq(DimValues)
    BY DimsNumbers, ListOf
  <2>2. QED BY <1>2, <2>1, SetStands, OneStands DEF SetSpan
<1>3. ASSUME NEW o \in DimsObjects, NEW count \in Counts, NEW v \in DimValues, Resize(o, count, v)
      PROVE  DimsInv'
  BY <1>3, ResizeKeeps
<1>4. ASSUME NEW o \in DimsObjects, NEW n \in 0 .. MaxRank, NEW v \in DimValues, ConstructDims(o, n, v)
      PROVE  DimsInv'
  BY <1>4, ConstructKeeps
<1>5. ASSUME NEW o \in DimsObjects, NEW p \in DimsObjects, CopyDims(o, p) PROVE DimsInv'
  BY <1>5, CopyKeeps, AssignKeeps DEF CopyDims
<1>6. ASSUME NEW o \in DimsObjects, NEW p \in DimsObjects, MoveDims(o, p) PROVE DimsInv'
  BY <1>6, MoveKeeps
<1>7. ASSUME NEW o \in DimsObjects, NEW i \in 1 .. MaxRank, NEW v \in DimValues, WriteDim(o, i, v)
      PROVE  DimsInv'
  BY <1>7, WriteKeeps
<1>8. QED BY <1>1, <1>2, <1>3, <1>4, <1>5, <1>6, <1>7 DEF DimsNext

\* ElementsKept (dims.h: "Vector-alike for storing inlined dims"): whatever is done to
\* objects of InlinedDims, they have as many elements as vectors would, and hold the
\* vectors' elements, but for the objects that a resize to exactly MAX_INLINE_RANK or
\* an assignment to themselves has spoilt, and those that come from them.
THEOREM DimsAreVectors == DimsSpec => []ElementsKept
<1>1. DimsInit => DimsInv
  <2>1. << >> \in Seq(DimValues)
    OBVIOUS
  <2>2. StandsFor(Set(<< >>), << >>)
    BY <2>1, SetStands
  <2>3. Sized(Set(<< >>), << >>)
    BY <2>2, StandsSized
  <2>4. QED BY <2>2, <2>3 DEF DimsInit, DimsInv
<1>2. DimsInv /\ [DimsNext]_dimsVars => DimsInv'
  BY DimsStep
<1>3. DimsInv => ElementsKept
  <2>1. \A d, c : StandsFor(d, c) => Readable(d)
    BY DEF StandsFor
  <2>2. \A d, c : StandsFor(d, c) => Span(d) = c
    BY ReadsAs
  <2>3. QED BY <2>1, <2>2 DEF DimsInv, ElementsKept, Sized
<1>4. QED BY <1>1, <1>2, <1>3, PTL DEF DimsSpec
=============================================================================
