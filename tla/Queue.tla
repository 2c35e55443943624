-------------------------------- MODULE Queue --------------------------------
(***************************************************************************)
(* The message queue of shortfin (local/messaging.h, local/messaging.cc).  *)
(*                                                                         *)
(* A read either takes a message from the backlog, or sees that the queue  *)
(* is closed, or leaves its reader in pending_readers_ with a future that  *)
(* a later write or the close sets.  Both set that future after they have  *)
(* released the queue's lock; a write has by then copied the future and    *)
(* reset the reader, the close goes back to the reader for both.           *)
(*                                                                         *)
(* gil says how the queue is called.  From Python every call holds the     *)
(* interpreter lock until it returns (the bindings do not release it), so  *)
(* that no other caller gets between the steps of a write or a close; from *)
(* native threads nothing prevents that.                                   *)
(*                                                                         *)
(* Messages and futures are numbered in the order of the calls that make   *)
(* them.  0 is the null message, and no future.                            *)
(***************************************************************************)
EXTENDS Integers, Sequences, FiniteSets, Functions

CONSTANTS Readers,          \* QueueReader objects
          MaxMessages,      \* bound: calls of WriteNoDelay
          MaxReads          \* bound: calls of Read that return a future

ASSUME QueueAssumption == MaxMessages \in Nat /\ MaxReads \in Nat

VARIABLES gil,                \* all callers hold the interpreter lock; never changes
          backlog,            \* backlog_
          pending_readers,    \* pending_readers_
          closed,             \* closed_
          written,            \* number of messages written
          worker,             \* per reader: worker_ is not null
          read_future,        \* per reader: read_result_future_
          alive,              \* per reader: not destroyed
          futures,            \* per future: its result, Waiting until set
          delivering,         \* writes about to set a future
          closing,            \* async_close_readers, first one is next
          reset_due           \* Close has set the future of the first one

readers == <<worker, read_future, alive>>
queueVars == <<gil, backlog, pending_readers, closed, written, readers, futures,
               delivering, closing, reset_due>>

Waiting == -1
Message == Nat \ {0}

\* The fields of the queue and of its readers keep their types: what a write
\* sets is a future that exists, with a message that is not null.
QueueTypeOK == /\ gil \in BOOLEAN
               /\ backlog \in Seq(Message)
               /\ pending_readers \in Seq(Readers)
               /\ closed \in BOOLEAN
               /\ written \in Nat
               /\ worker \in [Readers -> BOOLEAN]
               /\ alive \in [Readers -> BOOLEAN]
               /\ read_future \in [Readers -> 0 .. Len(futures)]
               /\ futures \in Seq(Nat \cup {Waiting})
               /\ delivering \in SUBSET ((1 .. Len(futures)) \X Message)
               /\ closing \in Seq(Readers)
               /\ reset_due \in BOOLEAN

QueueInit == /\ gil \in BOOLEAN
             /\ backlog = << >> /\ pending_readers = << >>
             /\ closed = FALSE /\ written = 0
             /\ worker = [r \in Readers |-> FALSE]
             /\ alive = [r \in Readers |-> TRUE]
             /\ read_future = [r \in Readers |-> 0]
             /\ futures = << >> /\ delivering = {}
             /\ closing = << >> /\ reset_due = FALSE

\* A new call can begin.
MayCall == gil => delivering = {} /\ closing = << >>

----------------------------------------------------------------------------
(***************************************************************************)
(* Writing.  closed_ is not looked at.                                     *)
(***************************************************************************)

WriteToBacklog ==
    /\ MayCall /\ written < MaxMessages
    /\ pending_readers = << >>
    /\ written' = written + 1
    /\ backlog' = Append(backlog, written + 1)
    /\ UNCHANGED <<gil, pending_readers, closed, readers, futures, delivering,
                   closing, reset_due>>

\* Mutant: the youngest reader is served.
WriteToLastReader ==
    /\ MayCall /\ written < MaxMessages
    /\ pending_readers # << >>
    /\ LET n == Len(pending_readers)
           r == pending_readers[n]
       IN  /\ delivering' = delivering \cup {<<read_future[r], written + 1>>}
           /\ worker' = [worker EXCEPT ![r] = FALSE]
           /\ read_future' = [read_future EXCEPT ![r] = 0]
           /\ pending_readers' = SubSeq(pending_readers, 1, n - 1)
    /\ written' = written + 1
    /\ UNCHANGED <<gil, backlog, closed, alive, futures, closing, reset_due>>

WriteToReader ==
    /\ MayCall /\ written < MaxMessages
    /\ pending_readers # << >>
    /\ LET r == Head(pending_readers)
       IN  /\ delivering' = delivering \cup {<<read_future[r], written + 1>>}
           /\ worker' = [worker EXCEPT ![r] = FALSE]
           /\ read_future' = [read_future EXCEPT ![r] = 0]
    /\ written' = written + 1
    /\ pending_readers' = Tail(pending_readers)
    /\ UNCHANGED <<gil, backlog, closed, alive, futures, closing, reset_due>>

WriteNoDelay == WriteToBacklog \/ WriteToReader

\* future->set_result(mr), outside of the lock.
SignalFuture(d) ==
    /\ d \in delivering
    /\ futures' = [futures EXCEPT ![d[1]] = d[2]]
    /\ delivering' = delivering \ {d}
    /\ UNCHANGED <<gil, backlog, pending_readers, closed, written, readers,
                   closing, reset_due>>

----------------------------------------------------------------------------
(***************************************************************************)
(* Closing.                                                                *)
(***************************************************************************)

\* Mutant: the readers are dropped.
CloseForgetsReaders ==
    /\ MayCall /\ ~closed
    /\ closed' = TRUE
    /\ pending_readers' = << >>
    /\ UNCHANGED <<gil, backlog, written, readers, futures, delivering, closing,
                   reset_due>>

\* With a backlog the readers are left to find out on their own.
Close ==
    /\ MayCall /\ ~closed
    /\ closed' = TRUE
    /\ IF backlog # << >>
          THEN UNCHANGED <<pending_readers, closing>>
          ELSE /\ closing' = pending_readers
               /\ pending_readers' = << >>
    /\ UNCHANGED <<gil, backlog, written, readers, futures, delivering,
                   reset_due>>

CloseAgain == /\ MayCall /\ closed
              /\ UNCHANGED queueVars

\* reader->read_result_future_->set_result(null).  Of a reader that is gone,
\* whatever its memory holds is used: here, nothing.
CloseSignalsReader ==
    /\ closing # << >> /\ ~reset_due
    /\ futures' = IF alive[Head(closing)]
                     THEN [futures EXCEPT ![read_future[Head(closing)]] = 0]
                     ELSE futures
    /\ reset_due' = TRUE
    /\ UNCHANGED <<gil, backlog, pending_readers, closed, written, readers,
                   delivering, closing>>

CloseResetsReader ==
    /\ closing # << >> /\ reset_due
    /\ worker' = [worker EXCEPT ![Head(closing)] = FALSE]
    /\ read_future' = [read_future EXCEPT ![Head(closing)] = 0]
    /\ closing' = Tail(closing)
    /\ reset_due' = FALSE
    /\ UNCHANGED <<gil, backlog, pending_readers, closed, written, alive,
                   futures, delivering>>

----------------------------------------------------------------------------
(***************************************************************************)
(* Reading, on a worker.                                                   *)
(***************************************************************************)

CanRead(r) == MayCall /\ alive[r] /\ ~worker[r] /\ Len(futures) < MaxReads

ReadFromBacklog(r) ==
    /\ CanRead(r) /\ backlog # << >>
    /\ futures' = Append(futures, Head(backlog))
    /\ backlog' = Tail(backlog)
    /\ UNCHANGED <<gil, pending_readers, closed, written, readers, delivering,
                   closing, reset_due>>

ReadClosed(r) ==
    /\ CanRead(r) /\ backlog = << >> /\ closed
    /\ futures' = Append(futures, 0)
    /\ UNCHANGED <<gil, backlog, pending_readers, closed, written, readers,
                   delivering, closing, reset_due>>

\* Mutant: closed_ is not looked at.
ReadWaitsAnyway(r) ==
    /\ CanRead(r) /\ backlog = << >>
    /\ pending_readers' = Append(pending_readers, r)
    /\ futures' = Append(futures, Waiting)
    /\ worker' = [worker EXCEPT ![r] = TRUE]
    /\ read_future' = [read_future EXCEPT ![r] = Len(futures) + 1]
    /\ UNCHANGED <<gil, backlog, closed, written, alive, delivering, closing,
                   reset_due>>

ReadWaits(r) ==
    /\ CanRead(r) /\ backlog = << >> /\ ~closed
    /\ pending_readers' = Append(pending_readers, r)
    /\ futures' = Append(futures, Waiting)
    /\ worker' = [worker EXCEPT ![r] = TRUE]
    /\ read_future' = [read_future EXCEPT ![r] = Len(futures) + 1]
    /\ UNCHANGED <<gil, backlog, closed, written, alive, delivering, closing,
                   reset_due>>

\* "Cannot read concurrently from a single QueueReader"
ReadThrows(r) == /\ MayCall /\ alive[r] /\ worker[r]
                 /\ UNCHANGED queueVars

Read(r) == ReadFromBacklog(r) \/ ReadClosed(r) \/ ReadWaits(r) \/ ReadThrows(r)

\* std::find and erase, of a reader that is in the list.
Erase(s, r) == LET i == CHOOSE j \in DOMAIN s : s[j] = r
               IN  SubSeq(s, 1, i - 1) \o SubSeq(s, i + 1, Len(s))

\* ~QueueReader: a pending read is cancelled, its future is never set.
DestroyReader(r) ==
    /\ MayCall /\ alive[r]
    /\ alive' = [alive EXCEPT ![r] = FALSE]
    /\ pending_readers' = IF read_future[r] # 0 /\ r \in Range(pending_readers)
                             THEN Erase(pending_readers, r)
                             ELSE pending_readers
    /\ UNCHANGED <<gil, backlog, closed, written, worker, read_future, futures,
                   delivering, closing, reset_due>>

QueueNext == \/ WriteNoDelay
             \/ \E d \in delivering : SignalFuture(d)
             \/ Close
             \/ CloseAgain
             \/ CloseSignalsReader
             \/ CloseResetsReader
             \/ \E r \in Readers : Read(r) \/ DestroyReader(r)

QueueSpec == QueueInit /\ [][QueueNext]_queueVars

\* A call that has begun finishes.
QueueFairness == /\ WF_queueVars(\E d \in delivering : SignalFuture(d))
                 /\ WF_queueVars(CloseSignalsReader)
                 /\ WF_queueVars(CloseResetsReader)

QueueFairSpec == QueueSpec /\ QueueFairness
----------------------------------------------------------------------------
(***************************************************************************)
(* Properties                                                              *)
(***************************************************************************)

\* messaging.cc:79 asserts the first part, in builds with assertions only: a
\* message never waits while a reader waits.  Nor does a reader wait on a
\* closed queue.
NoReaderWaitsInVain == /\ backlog # << >> => pending_readers = << >>
                       /\ closed => pending_readers = << >>

\* Every message written is in exactly one place: the backlog, the hands of the
\* write that has picked a reader, or the future of one read.
Places(m) == {<<"backlog", i>> : i \in {j \in DOMAIN backlog : backlog[j] = m}}
               \cup {<<"write", d[1]>> : d \in {e \in delivering : e[2] = m}}
               \cup {<<"read", f>> : f \in {g \in DOMAIN futures : futures[g] = m}}

MessagesOnce == \A m \in 1 .. written : Cardinality(Places(m)) = 1

\* messaging.h:201 "dispatch to readers in FIFO order": of two reads that get
\* messages, the earlier gets the earlier message, whether they were served
\* from the backlog or waited.
Given == {<<f, futures[f]>> : f \in {g \in DOMAIN futures : futures[g] > 0}}
            \cup delivering

FifoDelivery == \A d, e \in Given : d[1] < e[1] => d[2] < e[2]

\* The future that a write or the close is about to set is still unset: it is
\* never set twice (set_result would throw out of the middle of it).
Unset(f) == f \in DOMAIN futures /\ futures[f] = Waiting

FuturesSetOnce == /\ \A d \in delivering : Unset(d[1])
                  /\ \A i \in DOMAIN closing :
                        (alive[closing[i]] /\ ~(i = 1 /\ reset_due))
                           => Unset(read_future[closing[i]])
                  /\ \A d, e \in delivering : d[1] = e[1] => d = e

Awaited == {r \in Readers : alive[r] /\ read_future[r] # 0}

\* Close resolves the reads that wait: after it, no read of a reader that still
\* exists waits for ever.
CloseResolvesReads == (closed /\ Awaited # {}) ~> (Awaited = {})

\* messaging.h:255 "If worker_ is non null, then there must be a
\* read_result_future_ of the current outstanding read": whenever a call from
\* Python can begin, a reader that refuses to read has a read whose future is
\* not set.  (From a native thread a call can begin while Close is between the
\* future of a reader and its reset.)
ReaderStateMachine ==
    gil /\ MayCall => \A r \in Readers :
                         alive[r] /\ worker[r] => /\ read_future[r] # 0
                                                  /\ futures[read_future[r]] = Waiting

\* messaging.cc:53 "We must do this within the queue lock to avoid a QueueReader
\* lifetime hazard": a reader that a call still has to touch exists.  (The
\* readers that Close goes back to without the lock are only protected by the
\* interpreter lock.)
NoDanglingReader ==
    /\ \A i \in DOMAIN pending_readers : alive[pending_readers[i]]
    /\ gil => \A i \in DOMAIN closing : alive[closing[i]]

\* What the queue promises to writers and readers, whatever interleaving of
\* writes, reads, closes and destructions: each message goes to one read, in
\* order, each future is set once, and no reader is touched that is gone or
\* left in a state in which it can neither read nor be told.
DeliverySound == /\ MessagesOnce /\ FifoDelivery /\ FuturesSetOnce
                 /\ NoDanglingReader /\ ReaderStateMachine
=============================================================================
