------------------------------ MODULE MCAsync -------------------------------
(***************************************************************************)
(* Futures, queues, messages and the tuner's loop, for one run of TLC:     *)
(* they have nothing in common, and the behaviours of the run are those of *)
(* one part, chosen at the start, while the others rest.                   *)
(***************************************************************************)
EXTENDS Future, Queue, Message, Tuner

CONSTANT Parts  \* the parts to explore

VARIABLE part   \* the part that runs

\* The last loop of the tuner has ended.
LoopEnded ==
    /\ script = "files" /\ round = 1 /\ step = "ended" /\ list = << >>
    /\ todo = << >> /\ busy = Idle /\ results = << >> /\ measured = << >>
    /\ vmfb = [i \in Ids |-> NoFile] /\ model = [i \in Ids |-> Nothing]
    /\ tracker = [i \in Ids |-> NoTime] /\ error = ""

AsyncInit ==
    /\ part \in Parts
    /\ FutureInit /\ (part # "future" => typed)
    /\ QueueInit /\ (part # "queue" => gil)
    /\ MessageInit /\ (part # "message" => controlled)
    /\ IF part = "tuner" THEN TuneInit ELSE LoopEnded

AsyncNext ==
    \/ /\ part = "future" /\ FutureNext
       /\ UNCHANGED <<part, queueVars, messageVars, tuneVars>>
    \/ /\ part = "queue" /\ QueueNext
       /\ UNCHANGED <<part, futureVars, messageVars, tuneVars>>
    \/ /\ part = "message" /\ MessageNext
       /\ UNCHANGED <<part, futureVars, queueVars, tuneVars>>
    \/ /\ part = "tuner" /\ TuneNext
       /\ UNCHANGED <<part, futureVars, queueVars, messageVars>>

asyncVars == <<part, futureVars, queueVars, messageVars, tuneVars>>

\* FutureFairness, QueueFairness and TuneFairness, of the part that runs.
AsyncFairness ==
    /\ \A kind \in Posting : WF_futureVars(part = "future" /\ HandleWorkerCallback(kind))
    /\ WF_futureVars(part = "future" /\ RunCallback)
    /\ WF_futureVars(part = "future" /\ HandlerReturns)
    /\ WF_queueVars(part = "queue" /\ \E d \in delivering : SignalFuture(d))
    /\ WF_queueVars(part = "queue" /\ CloseSignalsReader)
    /\ WF_queueVars(part = "queue" /\ CloseResetsReader)
    /\ WF_tuneVars(part = "tuner" /\ (PoolStep \/ Specs \/ Files))

AsyncSpec == AsyncInit /\ [][AsyncNext]_asyncVars /\ AsyncFairness
=============================================================================
