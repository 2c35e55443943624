----------------------------- MODULE LlmService -----------------------------
(***************************************************************************)
(* The LLM server's generation pipeline: ClientGenerateBatchProcess and    *)
(* its FastAPIResponder, GenerateItemProcess (generate.py), BatcherProcess *)
(* and InferenceExecutorProcess (service.py), and the InferenceExecRequest *)
(* they pass around (messages.py), with the cache that shares no prefixes. *)
(*                                                                         *)
(* All of them are coroutines on one worker: what happens between two      *)
(* awaits is one step.  Requests reach the batcher through its infeed      *)
(* queue; the executors that it launches answer them by completing the     *)
(* request's `done` future, upon which the generator of the request frees  *)
(* its pages or submits the request again for the next token.              *)
(*                                                                         *)
(* The cache is reduced to page counts: how many pages the pool and each   *)
(* allocation have (BaseCache says which).                                 *)
(***************************************************************************)
EXTENDS Integers, Sequences, FiniteSets, FiniteSetsExt, SequencesExt

CONSTANTS Requests,           \* the GenerateItemProcesses of one client, each with
                              \* its request
          PageCount,          \* pages in the pool
          SeqStride,          \* page_seq_stride
          MaxPrompt,          \* bound: tokens of a prompt
          MaxCompletion,      \* max_completion_tokens
          IdealBatch,         \* ideal_batch_size = max(prefill_batch_sizes)
          DecodeBatch,        \* max(decode_batch_sizes)
          MaxStrobes,         \* bound: strobes waiting in the infeed
          Failures,           \* awaits of an executor that may raise
          MayShutdown         \* whether the service may be shut down

ASSUME LlmAssumption == /\ IsFiniteSet(Requests)
                        /\ {PageCount, MaxPrompt, MaxCompletion} \subseteq Nat
                        /\ {SeqStride, IdealBatch, DecodeBatch} \subseteq Nat \ {0}
                        /\ Failures \subseteq {"invoke", "result"}
                        /\ MayShutdown \in BOOLEAN
                        /\ "strobe" \notin Requests

VARIABLES client,             \* ClientGenerateBatchProcess: "new", "running", "over"
          stream,             \* gen_req.stream
          responder,          \* FastAPIResponder: "idle", "streaming", "ended" (of a
                              \* stream), "sent" (a one-shot response) or "error"
          parts,              \* per request: parts that were streamed for it
          loop,               \* the web server's loop: "open" or "closed"
          generator,          \* per request: where its GenerateItemProcess is
          steps,              \* per request: decode steps submitted
          phase,              \* per request: InferenceExecRequest.phase
          tokens,             \* per request: len(input_token_ids)
          done,               \* per request: its current `done` future is set
          logits,             \* per request: result_logits is not None
          allocation,         \* per request: pages of its allocation, or None
          free,               \* pages in the pool
          infeed,             \* batcher_infeed, oldest first
          closed,             \* batcher_infeed is closed
          batcher,            \* "running", "ended", or "dead" of an exception
          strober,            \* "looping" or "ended"
          pending_prefills,
          pending_decodes,
          strobes,            \* min(strobes, 2)
          flights             \* running InferenceExecutorProcesses

web == <<client, stream, responder, loop>>
request == <<phase, tokens, done, logits>>
cache == <<allocation, free>>
feed == <<infeed, closed, strober>>
boarding == <<batcher, pending_prefills, pending_decodes, strobes>>
vars == <<web, parts, generator, steps, request, cache, feed, boarding, flights>>

None == -1
Stages == {"launched", "invoked", "results"}
Flight == [phase : {"prefill", "decode"}, reqs : Seq(Requests), stage : Stages,
           returned : Nat]

\* The fields of the requests and of the batcher keep their types: the pool
\* never holds more pages than it was made with.
TypeOK == /\ client \in {"new", "running", "over"} /\ stream \in BOOLEAN
          /\ responder \in {"idle", "streaming", "ended", "sent", "error"}
          /\ parts \in [Requests -> 0 .. MaxCompletion + 1]
          /\ loop \in {"open", "closed"}
          /\ generator \in [Requests -> {"none", "new", "waiting", "finished", "failed"}]
          /\ steps \in [Requests -> 0 .. MaxCompletion]
          /\ phase \in [Requests -> {"prefill", "decode"}]
          /\ tokens \in [Requests -> 1 .. MaxPrompt + MaxCompletion]
          /\ done \in [Requests -> BOOLEAN]
          /\ logits \in [Requests -> BOOLEAN]
          /\ allocation \in [Requests -> Nat \cup {None}]
          /\ free \in 0 .. PageCount
          /\ infeed \in Seq(Requests \cup {"strobe"})
          /\ closed \in BOOLEAN
          /\ batcher \in {"running", "ended", "dead"}
          /\ strober \in {"looping", "ended"}
          /\ pending_prefills \subseteq Requests
          /\ pending_decodes \subseteq Requests
          /\ strobes \in 0 .. 2
          /\ flights \subseteq Flight

Init == /\ client = "new" /\ stream \in BOOLEAN /\ responder = "idle" /\ loop = "open"
        /\ parts = [r \in Requests |-> 0]
        /\ generator = [r \in Requests |-> "none"]
        /\ steps = [r \in Requests |-> 0]
        /\ phase = [r \in Requests |-> "prefill"]
        /\ tokens \in [Requests -> 1 .. MaxPrompt]
        /\ done = [r \in Requests |-> FALSE]
        /\ logits = [r \in Requests |-> FALSE]
        /\ allocation = [r \in Requests |-> None]
        /\ free = PageCount
        /\ infeed = << >> /\ closed = FALSE
        /\ batcher = "running" /\ strober = "looping"
        /\ pending_prefills = {} /\ pending_decodes = {} /\ strobes = 0
        /\ flights = {}

\* math.ceil(n / page_seq_stride)
PagesFor(n) == (n + SeqStride - 1) \div SeqStride

\* The pages that free_cache_pages returns for a request.
Held == [r \in Requests |-> IF allocation[r] = None THEN 0 ELSE allocation[r]]

\* free_cache_pages, for each request of a set.
FreeCachePages(S) ==
    /\ free' = free + SumFunctionOnSet(Held, S)
    /\ allocation' = [r \in Requests |-> IF r \in S THEN None ELSE allocation[r]]

----------------------------------------------------------------------------
(***************************************************************************)
(* GenerateItemProcess.run                                                 *)
(***************************************************************************)

\* Up to the first await.
GenerateStart(r) ==
    /\ generator[r] = "new"
    /\ generator' = [generator EXCEPT ![r] = "waiting"]
    /\ infeed' = Append(infeed, r)
    /\ UNCHANGED <<web, parts, steps, request, cache, closed, strober, boarding, flights>>

Awake(r) == generator[r] = "waiting" /\ done[r]

\* Mutant: the future of the last phase is kept.
ResetKeepsFuture(r) == /\ phase' = [phase EXCEPT ![r] = "decode"]
                       /\ logits' = [logits EXCEPT ![r] = FALSE]
                       /\ UNCHANGED done

\* InferenceExecRequest.reset
Reset(r) == /\ phase' = [phase EXCEPT ![r] = "decode"]
            /\ done' = [done EXCEPT ![r] = FALSE]
            /\ logits' = [logits EXCEPT ![r] = FALSE]

\* append_token: the token is streamed, which raises when the loop is closed.
CannotStream == stream /\ loop = "closed"
AppendToken(r) == parts' = [parts EXCEPT ![r] = IF stream THEN @ + 1 ELSE @]

\* A token was generated, and another one is asked for.
GenerateNext(r) ==
    /\ Awake(r) /\ logits[r] /\ ~CannotStream /\ steps[r] < MaxCompletion
    /\ AppendToken(r)
    /\ steps' = [steps EXCEPT ![r] = @ + 1]
    /\ Reset(r)
    /\ tokens' = [tokens EXCEPT ![r] = @ + 1]
    /\ infeed' = Append(infeed, r)
    /\ UNCHANGED <<web, generator, cache, closed, strober, boarding, flights>>

\* The last token: of the loop, or the end-of-sequence token of a decode.
GenerateEnd(r) ==
    /\ Awake(r) /\ logits[r] /\ ~CannotStream
    /\ steps[r] = MaxCompletion \/ phase[r] = "decode"
    /\ AppendToken(r)
    /\ generator' = [generator EXCEPT ![r] = "finished"]
    /\ FreeCachePages({r})
    /\ UNCHANGED <<web, steps, request, feed, boarding, flights>>

\* argmax(None) or append_token raises; `finally` frees the pages.
GenerateRaises(r) ==
    /\ Awake(r) /\ (~logits[r] \/ CannotStream)
    /\ generator' = [generator EXCEPT ![r] = "failed"]
    /\ FreeCachePages({r})
    /\ UNCHANGED <<web, parts, steps, request, feed, boarding, flights>>

----------------------------------------------------------------------------
(***************************************************************************)
(* ClientGenerateBatchProcess.run and FastAPIResponder                     *)
(***************************************************************************)
InferenceIdle == <<steps, request, cache, feed, boarding, flights>>

\* start_response for a stream, tokenize, and the generators are launched.
ClientStarts ==
    /\ client = "new" /\ loop = "open"
    /\ client' = "running"
    /\ responder' = IF stream THEN "streaming" ELSE "idle"
    /\ generator' = [r \in Requests |-> "new"]
    /\ UNCHANGED <<stream, loop, parts, InferenceIdle>>

\* tokenize raises, for there is no text: ensure_response.
ClientRejects ==
    /\ client = "new" /\ loop = "open"
    /\ client' = "over"
    /\ responder' = IF stream THEN "ended" ELSE "error"
    /\ UNCHANGED <<stream, loop, parts, generator, InferenceIdle>>

\* Mutant: asyncio.gather is not awaited.
GatherNone == \A r \in Requests : generator[r] # "new"

\* asyncio.gather(*gen_processes): a process that raised has terminated as well.
Gathered == \A r \in Requests : generator[r] \in {"finished", "failed"}

\* The end of the stream or the one-shot response.  When the loop is closed both
\* raise, and so does ensure_response.
ClientEnds ==
    /\ client = "running" /\ Gathered
    /\ client' = "over"
    /\ responder' = IF loop = "closed" THEN responder ELSE IF stream THEN "ended" ELSE "sent"
    /\ UNCHANGED <<stream, loop, parts, generator, InferenceIdle>>

\* The web server's loop ends after the lifespan's shutdown of the service.
LoopCloses == /\ closed /\ loop = "open" /\ loop' = "closed"
              /\ UNCHANGED <<client, stream, responder, parts, generator, InferenceIdle>>

----------------------------------------------------------------------------
(***************************************************************************)
(* BatcherProcess                                                          *)
(***************************************************************************)

\* _background_strober wakes up.  It looks at `closed` before it sleeps, not
\* after, and not at strobe_enabled being left False by a batcher that died.
Strobe ==
    /\ strober = "looping"
    /\ IF batcher = "dead"
          THEN UNCHANGED infeed
          ELSE /\ Cardinality({i \in DOMAIN infeed : infeed[i] = "strobe"}) < MaxStrobes
               /\ infeed' = Append(infeed, "strobe")
    /\ strober' = IF closed THEN "ended" ELSE "looping"
    /\ UNCHANGED <<web, parts, generator, steps, request, cache, closed, boarding, flights>>

\* The item the batcher reads, and the boarding area once it is in.
Item == Head(infeed)
Reading == batcher = "running" /\ infeed # << >>
Prefills == pending_prefills \cup {r \in {Item} \cap Requests : phase[r] = "prefill"}
Decodes == pending_decodes \cup {r \in {Item} \cap Requests : phase[r] = "decode"}
Strobes == IF Item = "strobe" THEN Min({2, strobes + 1}) ELSE strobes
Waiting == Cardinality(Prefills) + Cardinality(Decodes)

\* Mutant: strobes are not looked at.
BoardsWhenFull == Waiting >= IdealBatch

\* board_flights goes on.
Boards == Waiting > 0 /\ (Waiting >= IdealBatch \/ Strobes >= 2)

BatcherWaits ==
    /\ Reading /\ ~Boards
    /\ infeed' = Tail(infeed)
    /\ pending_prefills' = Prefills
    /\ pending_decodes' = Decodes
    /\ strobes' = Strobes
    /\ UNCHANGED <<web, parts, generator, steps, request, cache, closed, strober, batcher, flights>>

\* A turn of the loop of board_prefills: who is on board so far, and what is
\* left of the pool.
BoardPrefill(b, r) ==
    LET need == PagesFor(tokens[r])
    IN  IF Len(b.on) < IdealBatch /\ need <= b.free
           THEN [on |-> Append(b.on, r), free |-> b.free - need]
           ELSE b

\* board_prefills, in the order in which the set is iterated.
BoardPrefills(order) ==
    LET board[i \in 0 .. Len(order)] ==
          IF i = 0 THEN [on |-> << >>, free |-> free]
          ELSE BoardPrefill(board[i - 1], order[i])
    IN  board[Len(order)]

\* Mutant: no slot for the token that the decode step writes.
DecodePagesTight(r) == PagesFor(tokens[r])

\* The pages that extend_allocation(..., extra_token_slots=1) asks for.
DecodePages(r) == PagesFor(tokens[r] + 1)

\* A turn of the loop of board_decodes: the request is extended to hold one more
\* token.  The first that cannot be raises out of the loop.
BoardDecode(b, r) ==
    LET need == Max({0, DecodePages(r) - allocation[r]})
    IN  IF b.raised \/ Len(b.on) >= IdealBatch THEN b
        ELSE IF allocation[r] # None /\ need <= b.free
           THEN [b EXCEPT !.on = Append(@, r), !.free = @ - need]
           ELSE [b EXCEPT !.raised = TRUE]

\* board_decodes, with what the prefills have left of the pool.
BoardDecodes(order, pool) ==
    LET board[i \in 0 .. Len(order)] ==
          IF i = 0 THEN [on |-> << >>, free |-> pool, raised |-> FALSE]
          ELSE BoardDecode(board[i - 1], order[i])
    IN  board[Len(order)]

Launch(ph, reqs) ==
    IF reqs = << >> THEN {}
    ELSE {[phase |-> ph, reqs |-> reqs, stage |-> "launched", returned |-> 0]}

\* What both loops have allocated.
Allocated(bp, bd) ==
    [r \in Requests |->
        IF r \in ToSet(bp.on) THEN PagesFor(tokens[r])
        ELSE IF r \in ToSet(bd.on) THEN Max({allocation[r], DecodePages(r)})
        ELSE allocation[r]]

\* The prefills that are left when the flights are full or the pool is empty
\* are completed without a result.
BatcherBoards(op, od) ==
    LET bp == BoardPrefills(op)
        bd == BoardDecodes(od, bp.free)
        left == Prefills \ ToSet(bp.on)
    IN  /\ ~bd.raised
        /\ infeed' = Tail(infeed)
        /\ allocation' = Allocated(bp, bd)
        /\ free' = bd.free
        /\ flights' = flights \cup Launch("prefill", bp.on) \cup Launch("decode", bd.on)
        /\ pending_prefills' = {}
        /\ pending_decodes' = Decodes \ ToSet(bd.on)
        /\ done' = [r \in Requests |-> done[r] \/ r \in left]
        /\ strobes' = 0
        /\ UNCHANGED <<web, parts, generator, steps, phase, tokens, logits, closed, strober, batcher>>

\* board_decodes raises out of run(): the prefill flight has left, the decode
\* flight has not, and nobody reads the infeed any more.
BatcherDies(op, od) ==
    LET bp == BoardPrefills(op)
        bd == BoardDecodes(od, bp.free)
    IN  /\ bd.raised
        /\ infeed' = Tail(infeed)
        /\ allocation' = Allocated(bp, bd)
        /\ free' = bd.free
        /\ flights' = flights \cup Launch("prefill", bp.on)
        /\ pending_prefills' = Prefills \ ToSet(bp.on)
        /\ pending_decodes' = Decodes
        /\ strobes' = 0
        /\ batcher' = "dead"
        /\ UNCHANGED <<web, parts, generator, steps, request, closed, strober>>

\* One turn of BatcherProcess.run, board_flights included.
BatcherReads ==
    \/ BatcherWaits
    \/ /\ Reading /\ Boards
       /\ \E op \in SetToSeqs(Prefills), od \in SetToSeqs(Decodes) :
             BatcherBoards(op, od) \/ BatcherDies(op, od)

\* GenerateService.shutdown
Shutdown == /\ MayShutdown /\ ~closed
            /\ closed' = TRUE
            /\ UNCHANGED <<web, parts, generator, steps, request, cache, infeed, strober, boarding,
                           flights>>

\* The reader returns None.
BatcherEnds == /\ batcher = "running" /\ infeed = << >> /\ closed
               /\ batcher' = "ended"
               /\ UNCHANGED <<web, parts, generator, steps, request, cache, feed, pending_prefills,
                              pending_decodes, strobes, flights>>

----------------------------------------------------------------------------
(***************************************************************************)
(* InferenceExecutorProcess.run, for one of the flights.                   *)
(***************************************************************************)

MoveTo(f, g) == flights' = (flights \ {f}) \cup {g}

\* Up to `await fn(...)`.
Invoke(f) ==
    /\ f.stage = "launched"
    /\ Len(f.reqs) <= (IF f.phase = "decode" THEN DecodeBatch ELSE IdealBatch)
    /\ MoveTo(f, [f EXCEPT !.stage = "invoked"])
    /\ UNCHANGED <<web, parts, generator, steps, request, cache, feed, boarding>>

\* The invocation returns; publishing asserts that there is an allocation.
InvokeReturns(f) ==
    /\ f.stage = "invoked"
    /\ \A i \in DOMAIN f.reqs : allocation[f.reqs[i]] # None
    /\ MoveTo(f, [f EXCEPT !.stage = "results"])
    /\ UNCHANGED <<web, parts, generator, steps, request, cache, feed, boarding>>

\* `await device0` of the next request returns, and its future is completed
\* (VoidFuture.set_success may be called on a future that is done).
ReturnResult(f) ==
    /\ f.stage = "results"
    /\ LET r == f.reqs[f.returned + 1]
       IN  /\ logits' = [logits EXCEPT ![r] = TRUE]
           /\ done' = [done EXCEPT ![r] = TRUE]
    /\ IF f.returned + 1 = Len(f.reqs)
          THEN flights' = flights \ {f}
          ELSE MoveTo(f, [f EXCEPT !.returned = @ + 1])
    /\ UNCHANGED <<web, parts, generator, steps, phase, tokens, cache, feed, boarding>>

\* The exceptions: no entry point for the batch size, no allocation to
\* publish, or a failure of one of the awaits.
Raises(f) == \/ /\ f.stage = "launched" /\ f.phase = "decode"
                /\ Len(f.reqs) > DecodeBatch
             \/ /\ f.stage = "invoked"
                /\ \/ "invoke" \in Failures
                   \/ \E i \in DOMAIN f.reqs : allocation[f.reqs[i]] = None
             \/ f.stage = "results" /\ "result" \in Failures

\* The handler goes through all requests of the batch, the ones that have got
\* their result included.
ExecutorFails(f) ==
    /\ Raises(f)
    /\ logits' = [r \in Requests |-> logits[r] /\ r \notin ToSet(f.reqs)]
    /\ done' = [r \in Requests |-> done[r] \/ r \in ToSet(f.reqs)]
    /\ FreeCachePages(ToSet(f.reqs))
    /\ flights' = flights \ {f}
    /\ UNCHANGED <<web, parts, generator, steps, phase, tokens, feed, boarding>>

Generate(r) == GenerateStart(r) \/ GenerateNext(r) \/ GenerateEnd(r) \/ GenerateRaises(r)

Execute(f) == Invoke(f) \/ InvokeReturns(f) \/ ReturnResult(f) \/ ExecutorFails(f)

Next == \/ ClientStarts \/ ClientRejects \/ ClientEnds \/ LoopCloses
        \/ \E r \in Requests : Generate(r)
        \/ Strobe
        \/ BatcherReads
        \/ Shutdown
        \/ BatcherEnds
        \/ \E f \in flights : Execute(f)

Spec == Init /\ [][Next]_vars

\* The worker runs every coroutine that is ready, the strober's sleeps and the
\* invocations end.  A client need not come.
Fairness == /\ \A r \in Requests :
                  WF_vars(Generate(r))
            /\ WF_vars(ClientEnds)
            /\ WF_vars(Strobe)
            /\ WF_vars(BatcherReads \/ BatcherEnds)
            /\ WF_vars(\E f \in flights : Execute(f))

FairSpec == Spec /\ Fairness
----------------------------------------------------------------------------
(***************************************************************************)
(* Properties                                                              *)
(***************************************************************************)

\* The requests of a flight that have not been given their result.
Aboard(f) == {f.reqs[i] : i \in (f.returned + 1) .. Len(f.reqs)}

\* Pages are neither lost nor freed twice, on any path: completion, a failed
\* batch, a prefill that found no pages, a batcher that died half way.
PagesAccounted == free + SumFunctionOnSet(Held, Requests) = PageCount

\* A request is in one place at a time: being fed, boarding, or in one flight;
\* and not while its generator has already been told it is done.
Occurrences(r) == Cardinality({i \in DOMAIN infeed : infeed[i] = r})
                    + Cardinality({r} \cap pending_prefills)
                    + Cardinality({r} \cap pending_decodes)
                    + Cardinality({f \in flights : r \in Aboard(f)})

OnePlace == \A r \in Requests :
               Occurrences(r) = IF generator[r] = "waiting" /\ ~done[r] THEN 1 ELSE 0

\* service.py:154 "every batch needs committed cache state": a request in
\* flight holds the pages that its batch writes to, one more token included for
\* a decode.
CommittedCacheState ==
    \A f \in flights : \A r \in Aboard(f) :
        allocation[r] >= PagesFor(tokens[r] + (IF f.phase = "decode" THEN 1 ELSE 0))

\* Both: the pages a batch is launched with are there for as long as it runs, and
\* none is lost.
PagesSound == PagesAccounted /\ CommittedCacheState

\* A response is complete when it ends: no generator is under way that would
\* stream to it or hold pages, and a stream has got a part for every token of
\* every request.
ResponseComplete ==
    /\ client = "over" => \A r \in Requests : generator[r] \notin {"new", "waiting"}
    /\ stream /\ responder = "ended" =>
          \A r \in Requests : generator[r] = "finished" => parts[r] = steps[r] + 1

\* Every client is answered, with tokens or with a failure, as long as the
\* batcher runs: a batch that is not full leaves after two strobes, a prefill
\* that finds no pages is given up, and a failed batch completes its requests.
RequestsAnswered ==
    client = "running" ~> \/ responder \in {"ended", "sent"}
                          \/ batcher # "running"
                          \/ loop = "closed"

\* service.py:152 "The batcher is a persistent process".
BatcherPersists == batcher # "dead"
=============================================================================
