------------------------------ MODULE SdService ------------------------------
(***************************************************************************)
(* The stable diffusion service (shortfin_apps/sd): the HTTP handler and   *)
(* its FastAPIResponder, ClientGenerateBatchProcess and                    *)
(* GenerateImageProcess (generate.py), BatcherProcess and                  *)
(* InferenceExecutorProcess (service.py).                                  *)
(*                                                                         *)
(* The clients and the batcher are coroutines of one worker, the executors *)
(* run on the workers of their fibers, and responses are handed to the     *)
(* loop of the web server.                                                 *)
(***************************************************************************)
EXTENDS SdRequests, FiniteSets, SequencesExt, FiniteSetsExt, Functions

CONSTANTS Clients,            \* requests to /generate
          Bodies,             \* per client: the bodies that its request may have
          MaxImages,          \* bound: images of a request
          Topologies,         \* devices, fibers and workers per device
          PerFiber,           \* prog_isolation is PER_FIBER
          IdealBatch,         \* max(max_batch_size)
          BatchSizes,         \* batch sizes that have entry points
          MaxStrobes,         \* bound: strobes waiting in the infeed
          MaxFaults           \* bound: executors that fail

Images == Clients \X (1 .. MaxImages)

\* StrobeMessage
Strobing == <<"strobe", 0>>

ASSUME SdAssumption ==
    /\ \A c \in Clients : \A r \in Bodies[c] :
          Rejected(r) \/ num_output_images(r) \in 0 .. MaxImages
    /\ \A t \in Topologies : /\ {t.devices, t.fibers, t.workers} \subseteq Nat \ {0}
                             /\ t.fibers % t.workers = 0
    /\ IdealBatch \in Nat \ {0} /\ 1 \in BatchSizes
    /\ {MaxImages, MaxStrobes, MaxFaults} \subseteq Nat /\ PerFiber \in BOOLEAN

VARIABLES topology,           \* the configuration of the service
          request,            \* per client: gen_req, when there is one
          client,             \* per client: where its process is
          response,           \* per client: what the web server got, in order
          image,              \* per image: where its GenerateImageProcess is
          done,               \* per image: exec.done is set
          result,             \* per image: result_image is not None
          infeed,             \* batcher_infeed
          closed,             \* batcher_infeed is closed
          strober,            \* _background_strober: "looping" or "ended"
          loop,               \* the web server's loop: "open" or "closed"
          batcher,            \* "running" or "ended"
          pending,            \* pending_requests
          strobes,            \* min(strobes, 2)
          idle,               \* idle_fibers
          flights,            \* running InferenceExecutorProcesses
          faults              \* executors that have failed

web == <<request, client, response, loop>>
work == <<image, done, result>>
feed == <<infeed, closed, strober>>
boarding == <<batcher, pending, strobes>>
vars == <<topology, web, work, feed, boarding, idle, flights, faults>>

Stages == <<"encode", "denoise", "decode", "postprocess">>

----------------------------------------------------------------------------
(***************************************************************************)
(* GenerateService.__init__ and start: fibers, workers and programs        *)
(***************************************************************************)
Fibers(t) == 0 .. t.devices * t.fibers - 1
FibersPerWorker(t) == t.fibers \div t.workers

\* The device of fiber f, in the order in which __init__ makes them.
DeviceOf(t, f) == f \div t.fibers

get_worker_index(t, f) == (f - (f % FibersPerWorker(t))) \div FibersPerWorker(t)

\* start loads a program for every worker, for the device of its first fiber.
ProgramDevice(t, w) == DeviceOf(t, w * FibersPerWorker(t))

----------------------------------------------------------------------------
Init == /\ topology \in Topologies
        /\ request = [c \in Clients |-> << >>]
        /\ client = [c \in Clients |-> "new"]
        /\ response = [c \in Clients |-> << >>]
        /\ image = [i \in Images |-> "new"]
        /\ done = [i \in Images |-> FALSE]
        /\ result = [i \in Images |-> FALSE]
        /\ infeed = << >> /\ closed = FALSE /\ strober = "looping" /\ loop = "open"
        /\ batcher = "running" /\ pending = {} /\ strobes = 0
        /\ idle = Fibers(topology) /\ flights = {} /\ faults = 0

----------------------------------------------------------------------------
(***************************************************************************)
(* generate_request, ClientGenerateBatchProcess and GenerateImageProcess   *)
(***************************************************************************)

\* generate_request: post_init raises ...
RequestRejected(c) ==
    /\ client[c] = "new" /\ loop = "open"
    /\ \E r \in Bodies[c] : Rejected(r)
    /\ client' = [client EXCEPT ![c] = "over"]
    /\ UNCHANGED <<topology, request, response, loop, work, feed, boarding, idle, flights,
                   faults>>

\* The images that a client's request asks for.
ImagesOf(c) == {i \in Images : i[1] = c /\ i[2] <= num_output_images(request[c])}

ExecRequest(i) == from_batch(request[i[1]], i[2])

\* ... or the client process is launched, and that launches the image processes.
ClientStarts(c) ==
    /\ client[c] = "new" /\ loop = "open"
    /\ \E r \in Bodies[c] : ~Rejected(r) /\ request' = [request EXCEPT ![c] = post_init(r)]
    /\ client' = [client EXCEPT ![c] = "generating"]
    /\ image' = [i \in Images |-> IF i \in ImagesOf(c)' THEN "launched" ELSE image[i]]
    /\ UNCHANGED <<topology, response, loop, done, result, feed, boarding, idle, flights,
                   faults>>

\* from_batch and submit; a closed queue takes the request as well.
ImageSubmits(i) ==
    /\ image[i] = "launched"
    /\ image' = [image EXCEPT ![i] = "waiting"]
    /\ infeed' = Append(infeed, i)
    /\ UNCHANGED <<topology, web, done, result, closed, strober, boarding, idle, flights,
                   faults>>

ImageEnds(i) ==
    /\ image[i] = "waiting" /\ done[i]
    /\ image' = [image EXCEPT ![i] = "over"]
    /\ UNCHANGED <<topology, web, done, result, feed, boarding, idle, flights, faults>>

\* asyncio.gather
AllOver(c) == \A i \in ImagesOf(c) : image[i] = "over"

\* Mutant: ensure_response does not look whether a response was made.
RespondTwice(c) == <<{i \in ImagesOf(c) : result[i]}, "error">>

\* send_response and ensure_response, which finds that it has been called.
Responses(c) == <<{i \in ImagesOf(c) : result[i]}>>

\* When the loop is closed, send_response raises, and again in the finally.
ClientEnds(c) ==
    /\ client[c] = "generating" /\ AllOver(c)
    /\ client' = [client EXCEPT ![c] = "over"]
    /\ response' = [response EXCEPT ![c] = IF loop = "open" THEN Responses(c) ELSE << >>]
    /\ UNCHANGED <<topology, request, loop, work, feed, boarding, idle, flights, faults>>

----------------------------------------------------------------------------
(***************************************************************************)
(* BatcherProcess                                                          *)
(***************************************************************************)

\* _background_strober wakes up; it looks at `closed` before it sleeps.
Strobe ==
    /\ strober = "looping"
    /\ Cardinality({k \in DOMAIN infeed : infeed[k] = Strobing}) < MaxStrobes
    /\ infeed' = Append(infeed, Strobing)
    /\ strober' = IF closed THEN "ended" ELSE "looping"
    /\ UNCHANGED <<topology, web, work, closed, boarding, idle, flights, faults>>

MetaOf(i) == req_metas(ExecRequest(i))

RoomFor(b, i) == Len(b) < IdealBatch /\ MetaOf(b[1]) = MetaOf(i)

\* One turn of the loop of sort_batches: the request joins the first batch that
\* is not full and shares its metadata, or opens one.
File(batches, i) ==
    LET fit == {k \in DOMAIN batches : RoomFor(batches[k], i)}
    IN  IF fit = {} THEN Append(batches, <<i>>)
        ELSE [batches EXCEPT ![Min(fit)] = Append(@, i)]

\* sort_batches, for the order in which the set is iterated.
sort_batches(order) ==
    LET batches[k \in 0 .. Len(order)] ==
            IF k = 0 THEN << >> ELSE File(batches[k - 1], order[k])
    IN  batches[Len(order)]

Flight(b, f) == [reqs |-> b, fiber |-> f, stage |-> 1, turn |-> 1]

\* The fibers for the batches: idle ones, each for one batch when the programs
\* are isolated per fiber.
Assignments(n) ==
    LET k == IF PerFiber THEN Min({n, Cardinality(idle)}) ELSE IF idle = {} THEN 0 ELSE n
    IN  {g \in [1 .. k -> idle] : PerFiber => IsInjective(g)}

\* Mutant: in the PER_FIBER mode, too, a fiber is idle again at once.
KeepIdle(g) == idle

StillIdle(g) == IF PerFiber THEN idle \ Range(g) ELSE idle

\* board_flights, with w pending requests and s strobes.
BoardFlights(w, s) ==
    IF w = {} \/ (Cardinality(w) < IdealBatch /\ s < 2)
    THEN pending' = w /\ strobes' = s /\ UNCHANGED <<idle, flights>>
    ELSE /\ strobes' = 0
         /\ \E order \in SetToSeqs(w) : \E bs \in {sort_batches(order)} :
               \E g \in Assignments(Len(bs)) :
                  /\ pending' = w \ UNION {ToSet(bs[k]) : k \in DOMAIN g}
                  /\ idle' = StillIdle(g)
                  /\ flights' = flights \cup {Flight(bs[k], g[k]) : k \in DOMAIN g}

BatcherReads ==
    /\ batcher = "running" /\ infeed # << >>
    /\ infeed' = Tail(infeed)
    /\ IF Head(infeed) = Strobing THEN BoardFlights(pending, Min({strobes + 1, 2}))
       ELSE BoardFlights(pending \cup {Head(infeed)}, strobes)
    /\ UNCHANGED <<topology, web, work, closed, strober, batcher, faults>>

\* Lifespan's end: GenerateService.shutdown closes the infeed ...
Shutdown == /\ ~closed /\ closed' = TRUE
            /\ UNCHANGED <<topology, web, work, infeed, strober, boarding, idle, flights,
                           faults>>

BatcherEnds == /\ batcher = "running" /\ infeed = << >> /\ closed
               /\ batcher' = "ended"
               /\ UNCHANGED <<topology, web, work, feed, pending, strobes, idle, flights,
                              faults>>

\* ... and the web server's loop ends after it.
LoopCloses == /\ closed /\ loop = "open" /\ loop' = "closed"
              /\ UNCHANGED <<topology, request, client, response, work, feed, boarding,
                             idle, flights, faults>>

----------------------------------------------------------------------------
(***************************************************************************)
(* InferenceExecutorProcess.run                                            *)
(***************************************************************************)
MoveTo(x, y) == flights' = (flights \ {x}) \cup {y}

\* _prepare fails if a prompt is not a text.
Prepares(x) == \A i \in ToSet(x.reqs) : Tokenizes(ExecRequest(i))

\* _encode, _denoise and _decode invoke their functions once, or once for every
\* request when the batch size has no entry point.
Turns(x) == IF Len(x.reqs) \in BatchSizes THEN 1 ELSE Len(x.reqs)

StageRuns(x) ==
    /\ x.stage < 4 /\ Prepares(x)
    /\ MoveTo(x, IF x.turn < Turns(x) THEN [x EXCEPT !.turn = @ + 1]
                 ELSE [x EXCEPT !.stage = @ + 1, !.turn = 1])
    /\ UNCHANGED <<topology, web, work, feed, boarding, idle, faults>>

\* _postprocess, `await device0`, and the requests are done.
FlightLands(x) ==
    /\ x.stage = 4
    /\ result' = [i \in Images |-> result[i] \/ i \in ToSet(x.reqs)]
    /\ done' = [i \in Images |-> done[i] \/ i \in ToSet(x.reqs)]
    /\ MoveTo(x, [x EXCEPT !.stage = 5])
    /\ UNCHANGED <<topology, web, image, feed, boarding, idle, faults>>

\* Mutant: the fiber is kept.
FiberKept(x) == idle

FiberReturned(x) == IF PerFiber THEN idle \cup {x.fiber} ELSE idle

ReturnFiber(x) ==
    /\ x.stage = 5
    /\ idle' = FiberReturned(x)
    /\ flights' = flights \ {x}
    /\ UNCHANGED <<topology, web, work, feed, boarding, faults>>

FailedDone(x) == [i \in Images |-> done[i] \/ i \in ToSet(x.reqs)]

\* An exception, after the images in S: the requests are completed, the fiber
\* is not returned.
Fails(x, S) ==
    /\ result' = [i \in Images |-> result[i] \/ i \in S]
    /\ done' = FailedDone(x)
    /\ flights' = flights \ {x} /\ faults' = faults + 1
    /\ UNCHANGED <<topology, web, image, feed, boarding, idle>>

PrepareFails(x) == x.stage = 1 /\ ~Prepares(x) /\ Fails(x, {})

\* An exception of any other stage; k images have passed _postprocess.
FlightFails(x, k) ==
    /\ faults < MaxFaults
    /\ x.stage <= 4 /\ (x.stage < 4 => k = 0) /\ Prepares(x)
    /\ Fails(x, {x.reqs[n] : n \in 1 .. k})

----------------------------------------------------------------------------
Progress(x) == PrepareFails(x) \/ StageRuns(x) \/ FlightLands(x) \/ ReturnFiber(x)

ProcessSteps == \/ \E i \in Images : ImageSubmits(i) \/ ImageEnds(i)
                \/ \E c \in Clients : ClientEnds(c)
                \/ \E x \in flights : Progress(x)

Next == \/ \E c \in Clients : RequestRejected(c) \/ ClientStarts(c)
        \/ ProcessSteps \/ \E x \in flights : \E k \in 0 .. Len(x.reqs) - 1 : FlightFails(x, k)
        \/ Strobe \/ BatcherReads \/ BatcherEnds \/ Shutdown \/ LoopCloses

Spec == Init /\ [][Next]_vars

\* The workers run what is ready; requests, failures and the shutdown need not
\* happen.
FairSpec == Spec /\ WF_vars(ProcessSteps) /\ WF_vars(Strobe)
                 /\ WF_vars(BatcherReads \/ BatcherEnds)
----------------------------------------------------------------------------
(***************************************************************************)
(* Properties                                                              *)
(***************************************************************************)

\* Batches that are under way: one for each fiber when the programs are isolated
\* per fiber, on a fiber that is not idle, with a program that was loaded for
\* the fiber's device.
FibersExclusive ==
    /\ PerFiber => /\ \A x, y \in flights : x.fiber = y.fiber => x = y
                   /\ \A x \in flights : x.fiber \notin idle
    /\ \A x \in flights : ProgramDevice(topology, get_worker_index(topology, x.fiber))
                             = DeviceOf(topology, x.fiber)

Aboard(i) == {x \in flights : x.stage < 5 /\ i \in ToSet(x.reqs)}

\* A batch has the metadata of its first request (the steps and the shape that
\* _denoise and _decode use for all), is no larger than the largest entry point,
\* and a request that waits is in one place: fed, pending, or in one batch.
BatchesSound ==
    /\ \A x \in flights : /\ Len(x.reqs) <= IdealBatch
                          /\ \A k \in DOMAIN x.reqs : MetaOf(x.reqs[k]) = MetaOf(x.reqs[1])
    /\ \A i \in Images : image[i] = "waiting" /\ ~done[i] =>
          Cardinality(Aboard(i)) + Cardinality({i} \cap pending)
             + Cardinality({k \in DOMAIN infeed : infeed[k] = i}) = 1

\* Both: every batch is well formed and alone on its fiber.
DispatchSound == FibersExclusive /\ BatchesSound

\* A client gets at most one response, after all of its images, and an image is
\* missing from it only if a batch failed.
RespondedOnce ==
    \A c \in Clients :
        /\ Len(response[c]) <= 1
        /\ response[c] # << >> => \A i \in ImagesOf(c) : done[i]
        /\ response[c] # << >> /\ faults = 0 => response[c] = <<ImagesOf(c)>>

\* Every client is answered while the service is up, unless there has been a
\* failure, which keeps its fiber, for each of the fibers.
ClientsAnswered ==
    \A c \in Clients :
        client[c] = "generating" ~> \/ response[c] # << >>
                                    \/ closed
                                    \/ faults = Cardinality(Fibers(topology))
=============================================================================
