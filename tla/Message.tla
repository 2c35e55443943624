------------------------------ MODULE Message -------------------------------
(***************************************************************************)
(* The lifetime of a message (local/messaging.h, Message and its           *)
(* MessageLifetimeController): it is counted natively until Python sees it, *)
(* and by Python's own reference count from then on, whoever refers to it. *)
(* The threads drop the lock of the message before Python is asked to      *)
(* release it, and hold it while Python is asked to retain it; Python is   *)
(* asked with the GIL.                                                     *)
(*                                                                         *)
(* One message, made by a Python program or natively.  Message::Ref        *)
(* objects are counted by the thread that holds them.                      *)
(***************************************************************************)
EXTENDS Integers, FiniteSets, Functions

CONSTANTS MsgThreads,     \* the threads
          MaxMsgRefs,     \* bound: references of a thread, and of Python
          RetainsHoldGil  \* a reference is copied with the GIL, as in lib_ext.cc

\* No thread.
Nobody == "nobody"

ASSUME MessageAssumption == /\ IsFiniteSet(MsgThreads) /\ Nobody \notin MsgThreads
                            /\ MaxMsgRefs \in Nat \ {0}
                            /\ RetainsHoldGil \in BOOLEAN

VARIABLES controlled,  \* lifetime_controller_ is set
          refData,     \* ref_data_, while it is a count
          pyCount,     \* the reference count of the Python object
          msgLock,     \* who holds lock_, or nobody
          msgGil,      \* who holds the GIL, or nobody
          natives,     \* per thread: the Message::Ref objects it holds
          pyHeld,      \* references that Python code holds
          toTransfer,  \* inc_ref calls the transfer has still to make
          msgPc,       \* per thread: the call it is in
          destroyed

messageVars == <<controlled, refData, pyCount, msgLock, msgGil, natives, pyHeld,
                 toTransfer, msgPc, destroyed>>

NativeRefs == SumFunctionOnSet(natives, MsgThreads)

\* Made in place by Python, whose object takes ownership at once; or natively,
\* with the one reference of ref_data_, and a first Ref.
MessageInit ==
    /\ \/ controlled = TRUE /\ refData = 0 /\ pyCount = 1 /\ pyHeld = 1
          /\ natives = [t \in MsgThreads |-> 0]
       \/ controlled = FALSE /\ refData = 2 /\ pyCount = 0 /\ pyHeld = 0
          /\ \E c \in MsgThreads : natives = [t \in MsgThreads |-> IF t = c THEN 1 ELSE 0]
    /\ msgLock = Nobody /\ msgGil = Nobody
    /\ toTransfer = 0
    /\ msgPc = [t \in MsgThreads |-> "idle"]
    /\ destroyed = FALSE

Idles(t) == msgPc[t] = "idle" /\ ~ destroyed

\* gil_scoped_acquire: at once for the holder.
GilFor(t) == msgGil \in {t, Nobody}
TakeGil(t) ==
    /\ Idles(t) /\ msgGil = Nobody
    /\ msgGil' = t
    /\ UNCHANGED <<controlled, refData, pyCount, msgLock, natives, pyHeld, toTransfer,
                   msgPc, destroyed>>
DropGil(t) ==
    /\ Idles(t) /\ msgGil = t
    /\ msgGil' = Nobody
    /\ UNCHANGED <<controlled, refData, pyCount, msgLock, natives, pyHeld, toTransfer,
                   msgPc, destroyed>>

\* Message::Retain, for the copy of a Ref or for a Ref made of a Python object.
RetainLocks(t) ==
    /\ Idles(t) /\ msgLock = Nobody
    /\ RetainsHoldGil => msgGil = t
    /\ \/ natives[t] > 0
       \/ controlled /\ pyHeld > 0 /\ msgGil = t
    /\ natives[t] < MaxMsgRefs
    /\ msgLock' = t
    /\ msgPc' = [msgPc EXCEPT ![t] = "retain"]
    /\ UNCHANGED <<controlled, refData, pyCount, msgGil, natives, pyHeld, toTransfer, destroyed>>
RetainCounts(t) ==
    /\ msgPc[t] = "retain"
    /\ \/ ~ controlled /\ refData' = refData + 1 /\ UNCHANGED pyCount
       \/ controlled /\ GilFor(t) /\ pyCount' = pyCount + 1 /\ UNCHANGED refData
    /\ natives' = [natives EXCEPT ![t] = @ + 1]
    /\ msgLock' = Nobody
    /\ msgPc' = [msgPc EXCEPT ![t] = "idle"]
    /\ UNCHANGED <<controlled, msgGil, pyHeld, toTransfer, destroyed>>

\* Message::Release: the count is native, or the lock is dropped and Python is
\* asked.
ReleaseNative(t) ==
    /\ Idles(t) /\ msgLock = Nobody /\ natives[t] > 0 /\ ~ controlled
    /\ refData' = refData - 1
    /\ natives' = [natives EXCEPT ![t] = @ - 1]
    /\ destroyed' = (refData = 1)
    /\ UNCHANGED <<controlled, pyCount, msgLock, msgGil, pyHeld, toTransfer, msgPc>>
ReleaseUnlocks(t) ==
    /\ Idles(t) /\ msgLock = Nobody /\ natives[t] > 0 /\ controlled
    /\ msgPc' = [msgPc EXCEPT ![t] = "release"]
    /\ UNCHANGED <<controlled, refData, pyCount, msgLock, msgGil, natives, pyHeld,
                   toTransfer, destroyed>>
ReleaseCounts(t) ==
    /\ msgPc[t] = "release" /\ GilFor(t)
    /\ pyCount' = pyCount - 1
    /\ natives' = [natives EXCEPT ![t] = @ - 1]
    /\ destroyed' = (pyCount = 1)
    /\ msgPc' = [msgPc EXCEPT ![t] = "idle"]
    /\ UNCHANGED <<controlled, refData, msgLock, msgGil, pyHeld, toTransfer>>

\* A Ref is moved to another thread: a queue, or a future.
MoveRef(t, u) ==
    /\ Idles(t) /\ natives[t] > 0 /\ t # u /\ natives[u] < MaxMsgRefs
    /\ natives' = [natives EXCEPT ![t] = @ - 1, ![u] = @ + 1]
    /\ UNCHANGED <<controlled, refData, pyCount, msgLock, msgGil, pyHeld, toTransfer,
                   msgPc, destroyed>>

\* Mutant: all the native references are transferred, the first one too.
TransferAll(count) == count

\* One of them is the reference the new Python object starts with.
Transferred(count) == count - 1

\* The first time Python sees the message, TakeOwnership replaces the controller;
\* the references are transferred one by one after the lock is dropped, with the
\* GIL held all the time.
TakeOwnership(t) ==
    /\ Idles(t) /\ msgGil = t /\ msgLock = Nobody
    /\ natives[t] > 0 /\ ~ controlled
    /\ controlled' = TRUE /\ refData' = 0
    /\ toTransfer' = Transferred(refData)
    /\ pyCount' = 1 /\ pyHeld' = 1
    /\ msgPc' = [msgPc EXCEPT ![t] = "transfer"]
    /\ UNCHANGED <<msgLock, msgGil, natives, destroyed>>
TransferRef(t) ==
    /\ msgPc[t] = "transfer"
    /\ \/ /\ toTransfer > 0
          /\ toTransfer' = toTransfer - 1 /\ pyCount' = pyCount + 1
          /\ UNCHANGED msgPc
       \/ /\ toTransfer = 0
          /\ msgPc' = [msgPc EXCEPT ![t] = "idle"]
          /\ UNCHANGED <<toTransfer, pyCount>>
    /\ UNCHANGED <<controlled, refData, msgLock, msgGil, natives, pyHeld, destroyed>>

\* Python gets a reference from a Ref (MessageFuture.result), and drops one.
PyGets(t) ==
    /\ Idles(t) /\ msgGil = t /\ controlled /\ natives[t] > 0 /\ pyHeld < MaxMsgRefs
    /\ pyHeld' = pyHeld + 1 /\ pyCount' = pyCount + 1
    /\ UNCHANGED <<controlled, refData, msgLock, msgGil, natives, toTransfer, msgPc, destroyed>>
PyDrops(t) ==
    /\ Idles(t) /\ msgGil = t /\ pyHeld > 0
    /\ pyHeld' = pyHeld - 1 /\ pyCount' = pyCount - 1
    /\ destroyed' = (pyCount = 1)
    /\ UNCHANGED <<controlled, refData, msgLock, msgGil, natives, toTransfer, msgPc>>

MessageNext ==
    \E t \in MsgThreads :
        \/ TakeGil(t) \/ DropGil(t)
        \/ RetainLocks(t) \/ RetainCounts(t)
        \/ ReleaseNative(t) \/ ReleaseUnlocks(t) \/ ReleaseCounts(t)
        \/ \E u \in MsgThreads : MoveRef(t, u)
        \/ TakeOwnership(t) \/ TransferRef(t) \/ PyGets(t) \/ PyDrops(t)

MessageSpec == MessageInit /\ [][MessageNext]_messageVars

-----------------------------------------------------------------------------
\* messaging.h and lib_ext.cc: a message is destroyed when its last reference,
\* native or Python's, is dropped and never before, also while the ownership moves
\* and other threads retain and release; and a thread that holds the lock of a
\* message Python owns never waits for the GIL, whose holder may be waiting for
\* that lock.
MessageOwned ==
    /\ destroyed => /\ pyHeld = 0 /\ NativeRefs = 0
                    /\ \A t \in MsgThreads : msgPc[t] = "idle"
    /\ (controlled /\ ~ destroyed) =>
          /\ pyCount + toTransfer = pyHeld + NativeRefs
          /\ pyCount > 0
    /\ (~ controlled /\ ~ destroyed) => refData = NativeRefs + 1
    /\ \A t \in MsgThreads : (msgLock = t /\ controlled) => msgGil = t
=============================================================================
