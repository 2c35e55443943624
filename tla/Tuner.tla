-------------------------------- MODULE Tuner --------------------------------
(***************************************************************************)
(* The tuning loop of libtuner.py.  Two scripts use it: one generates      *)
(* transform specs and calls compile and benchmark, first for the dispatch *)
(* and then for the model (examples/test/tuner_test.py); the other works   *)
(* on candidate files with one function per phase                          *)
(* (examples/punet/punet_autotune.py).                                     *)
(*                                                                         *)
(* The tasks of a phase are run by a pool of processes, which hand in      *)
(* their results in any order.  The benchmarking processes are bound to    *)
(* one device each and take whatever task is next.                         *)
(***************************************************************************)
EXTENDS Integers, Sequences, FiniteSets, SequencesExt, FiniteSetsExt, Lists

CONSTANTS NumCandidates,      \* --num-candidates
          Devices,            \* --devices, in the order of their names
          Contents,           \* what a compilation may produce, up to its hash
          Times,              \* what a benchmark may measure
          MaxCpuWorkers,      \* --max-cpu-workers
          NumTop,             \* num_candidates of benchmark
          NumModelCandidates, \* --num-model-candidates
          Scripts             \* the scripts that are run

ASSUME TunerAssumption == /\ {NumCandidates, NumTop, NumModelCandidates} \subseteq Nat
                          /\ MaxCpuWorkers \in Nat \ {0} /\ Contents \subseteq Nat \ {0}
                          /\ Devices \subseteq Nat /\ Devices # {} /\ IsFiniteSet(Devices)
                          /\ Times \subseteq Nat \ {0}
                          /\ Scripts \subseteq {"specs", "files"}

VARIABLES script,             \* the script that is run
          step,               \* the function that it is in
          round,              \* compile and benchmark: 1 for dispatches, 2 for models
          list,               \* the candidates that the last function returned
          todo,               \* tasks that no process has taken
          busy,               \* per device: the task of its process, or Nothing
          results,            \* results, in the order in which they were handed in
          measured,           \* the candidates' results, while the baseline is run
          vmfb,               \* compiled/<id>.vmfb: its content and the round it is of
          model,              \* <base dir>/..._<id>.vmfb
          tracker,            \* per candidate: what the model benchmark recorded
          error               \* the exception that ended the script, or ""

pool == <<todo, busy, results>>
files == <<vmfb, model>>
tuneVars == <<script, step, round, list, pool, measured, files, tracker, error>>

Nothing == -1
Inf == 1000
Timeout == -2
Bad == -3
Ids == 0 .. NumCandidates
NoTime == [time |-> Nothing, device |-> Nothing, base |-> Nothing, base_device |-> Nothing]
Idle == [d \in Devices |-> Nothing]
NoFile == [content |-> Nothing, round |-> 0]

TuneInit ==
    /\ script \in Scripts
    /\ round = 1
    /\ step = IF script = "specs" THEN "generate_candidate_specs" ELSE "generate_candidates"
    /\ list = << >>
    /\ todo = << >> /\ busy = Idle /\ results = << >> /\ measured = << >>
    /\ vmfb = [i \in Ids |-> NoFile] /\ model = [i \in Ids |-> Nothing]
    /\ tracker = [i \in Ids |-> NoTime] /\ error = ""

----------------------------------------------------------------------------
(***************************************************************************)
(* Helpers                                                                 *)
(***************************************************************************)

\* find_collisions lists the candidates of every hash, in the order in which the
\* hashes turn up; only where the first of each stands is of use.
find_collisions(ids, hash) == {i \in DOMAIN ids : \A j \in 1 .. i - 1 : hash[ids[j]] # hash[ids[i]]}
collision_handler(ids, hash) == Kept(ids, find_collisions(ids, hash))

\* [i for i in candidates if i != 0]
WithoutBaseline(ids) == Kept(ids, {k \in DOMAIN ids : ids[k] # 0})

\* A sort that is stable; less holds the pairs whose first comes before.
Sorted(s, less) ==
    LET sorted[k \in 0 .. Len(s)] ==
          IF k = 0 THEN << >>
          ELSE LET before == {i \in DOMAIN sorted[k - 1] : <<s[k], sorted[k - 1][i]>> \notin less}
               IN  InsertAt(sorted[k - 1], Cardinality(before) + 1, s[k])
    IN  sorted[Len(s)]

\* sorted(s, key)
SortedBy(s, key) == Sorted(s, {p \in ToSet(s) \X ToSet(s) : key[p[1]] < key[p[2]]})

Permuted(s) == {[k \in DOMAIN s |-> s[p[k]]] :
                  p \in {f \in [DOMAIN s -> DOMAIN s] : IsInjective(f)}}

Top(s, n) == SubSeq(s, 1, Min({n, Len(s)}))
IdsOf(s) == [k \in DOMAIN s |-> s[k].id]

\* An exception that nothing catches ends the pool and the script.
Raise(cause) ==
    /\ error' = cause /\ step' = "ended" /\ list' = << >>
    /\ todo' = << >> /\ busy' = Idle /\ results' = << >> /\ measured' = << >>
    /\ UNCHANGED <<script, round, files, tracker>>

\* A function returns l, and the script calls the next one.
Return(l, s, n) ==
    /\ list' = l /\ step' = s /\ round' = n
    /\ todo' = << >> /\ busy' = Idle /\ results' = << >> /\ measured' = << >>
    /\ UNCHANGED <<script, error>>

Await(tasks, s) ==
    /\ todo' = tasks /\ busy' = Idle /\ results' = << >> /\ step' = s
    /\ UNCHANGED <<script, round, list, files, tracker, error>>

Drained == todo = << >> /\ busy = Idle

----------------------------------------------------------------------------
(***************************************************************************)
(* multiprocess_progress_wrapper with imap_unordered                       *)
(***************************************************************************)

Compiling == step \in {"compile.pool", "compile_dispatches.pool", "compile_models.pool"}
Measuring == step \in {"benchmark.pool", "benchmark.baseline", "benchmark_dispatches.pool",
                       "benchmark_models.pool", "benchmark_models.baseline"}

\* Mutant: a candidate that did not compile is reported all the same.
ReportAlways(i, c) == Append(results, i)

\* run_iree_compile_command returns the candidate, or None.
run_iree_compile_command(i, c) == IF c = Nothing THEN results ELSE Append(results, i)

\* The contents, which are only compared, are numbered in the order in which
\* they turn up.
Used == IF step = "compile_models.pool" THEN {model[i] : i \in Ids} \cup {0}
        ELSE {vmfb[i].content : i \in {j \in Ids : vmfb[j].round = round}} \cup {0}
Produced == {c \in Contents : c <= Max(Used) + 1}

\* One of the tasks under way ends: with an output file, or without one (the
\* compiler fails or times out, and leaves the file of an earlier round alone).
CompileEnds(k, c) ==
    /\ Compiling /\ k \in 1 .. Min({MaxCpuWorkers, Len(todo)})
    /\ todo' = RemoveAt(todo, k)
    /\ results' = run_iree_compile_command(todo[k], c)
    /\ IF c = Nothing THEN UNCHANGED files
       ELSE IF step = "compile_models.pool"
            THEN model' = [model EXCEPT ![todo[k]] = c] /\ UNCHANGED vmfb
            ELSE /\ vmfb' = [vmfb EXCEPT ![todo[k]] = [content |-> c, round |-> round]]
                 /\ UNCHANGED model
    /\ UNCHANGED <<script, step, round, list, busy, measured, tracker, error>>

\* Mutant: a process is replaced after one task, and the new one waits for a
\* device in the queue of init_worker_context, which is empty.
TakeOnce(d) ==
    /\ Measuring /\ todo # << >> /\ busy[d] = Nothing
    /\ \A k \in DOMAIN results : results[k].device # d
    /\ busy' = [busy EXCEPT ![d] = Head(todo)] /\ todo' = Tail(todo)
    /\ UNCHANGED <<script, step, round, list, results, measured, files, tracker, error>>

\* A benchmarking process takes the next task; init_worker_context has given it
\* a device of its own.
Take(d) ==
    /\ Measuring /\ todo # << >> /\ busy[d] = Nothing
    /\ busy' = [busy EXCEPT ![d] = Head(todo)] /\ todo' = Tail(todo)
    /\ UNCHANGED <<script, step, round, list, results, measured, files, tracker, error>>

\* What run_iree_benchmark_module_command and run_command_wrapper report: a
\* time, and for a timeout Inf or no process result; a command that fails has a
\* process result without benchmarks.
Outcomes == IF step \in {"benchmark.pool", "benchmark.baseline"}
            THEN Times \cup {Inf} ELSE Times \cup {Timeout, Bad}

BenchmarkEnds(d, t) ==
    /\ Measuring /\ busy[d] # Nothing
    /\ step \in {"benchmark.pool", "benchmark.baseline"} => vmfb[busy[d]] # NoFile
    /\ results' = Append(results, [id |-> busy[d], time |-> t, device |-> d,
                                   round |-> vmfb[busy[d]].round])
    /\ busy' = [busy EXCEPT ![d] = Nothing]
    /\ UNCHANGED <<script, step, round, list, todo, measured, files, tracker, error>>

\* run_iree_benchmark_module_command finds no vmfb, or the benchmark tool fails
\* with anything but a timeout: the exception ends the pool and the script.
VmfbMissing(d) == /\ step \in {"benchmark.pool", "benchmark.baseline"}
                  /\ busy[d] # Nothing /\ vmfb[busy[d]] = NoFile
                  /\ Raise("vmfb")

BenchmarkRaises(d) == /\ step \in {"benchmark.pool", "benchmark.baseline"}
                      /\ busy[d] # Nothing /\ vmfb[busy[d]] # NoFile
                      /\ Raise("tool")

\* KeyboardInterrupt
Interrupt == (Compiling \/ Measuring) /\ Raise("interrupt")

----------------------------------------------------------------------------
(***************************************************************************)
(* generate_candidate_specs, compile and benchmark                         *)
(***************************************************************************)

\* n solutions were found; candidate 0 is the placeholder spec.
GenerateCandidateSpecs(n) ==
    /\ step = "generate_candidate_specs"
    /\ IF n = 0 THEN Raise("generate")
       ELSE /\ Return([i \in 1 .. n + 1 |-> i - 1], "compile", 1)
            /\ UNCHANGED <<files, tracker>>

\* The baseline is compiled with whatever candidates there are.
CompileBegins ==
    /\ step = "compile"
    /\ IF list = << >>
          THEN Return(<< >>, "benchmark", round) /\ UNCHANGED <<files, tracker>>
          ELSE /\ Await(IF 0 \in ToSet(list) THEN list ELSE Append(list, 0), "compile.pool")
               /\ measured' = << >>

CompileReturns ==
    /\ step = "compile.pool" /\ Drained
    /\ Return(collision_handler(results, [i \in Ids |-> vmfb[i].content]),
              "benchmark", round)
    /\ UNCHANGED <<files, tracker>>

BenchmarkBegins ==
    /\ step = "benchmark"
    /\ Await(WithoutBaseline(list), "benchmark.pool")
    /\ measured' = << >>

\* One baseline task for every device.
BaselineBegins ==
    /\ step = "benchmark.pool" /\ Drained
    /\ measured' = results
    /\ Await([k \in 1 .. Cardinality(Devices) |-> 0], "benchmark.baseline")

\* baseline_times_by_device
BaselineTime(d) == results[Max({k \in DOMAIN results : results[k].device = d})].time
HasBaseline(d) == \E k \in DOMAIN results : results[k].device = d

FastestFirst(s) == SortedBy(s, [r \in ToSet(s) |-> r.time])

\* get_speedup(r) < get_speedup(s), neither of them NaN.
BySpeedup(r, s) ==
    LET b == BaselineTime(r.device)  c == BaselineTime(s.device)
    IN  /\ r.time # Inf
        /\ \/ s.time = Inf
           \/ b = Inf /\ c # Inf
           \/ b # Inf /\ c # Inf /\ r.time * c < s.time * b

NaN(r) == r.time = Inf /\ BaselineTime(r.device) = Inf

BestFirst(s) == Sorted(s, {p \in ToSet(s) \X ToSet(s) : BySpeedup(p[1], p[2])})

\* The best of the candidates.  A NaN among the keys leaves their order to the
\* sorting algorithm.  KeyError for a device that ran no baseline task.
BenchmarkReturns ==
    /\ step = "benchmark.baseline" /\ Drained
    /\ IF \E k \in DOMAIN measured : ~HasBaseline(measured[k].device)
          THEN Raise("baseline")
          ELSE /\ \E s \in IF \E k \in DOMAIN measured : NaN(measured[k])
                           THEN Permuted(measured) ELSE {BestFirst(measured)} :
                     list' = IdsOf(Top(s, NumTop))
               /\ round' = round + 1 /\ step' = IF round = 1 THEN "compile" ELSE "ended"
               /\ todo' = << >> /\ busy' = Idle
               /\ UNCHANGED <<script, results, measured, files, tracker, error>>

----------------------------------------------------------------------------
(***************************************************************************)
(* compile_dispatches, benchmark_dispatches, compile_models,               *)
(* benchmark_models and summarize_top_candidates                           *)
(***************************************************************************)
\* candidate_gen wrote 0.mlir and n candidates, or it raised.
GenerateCandidates(n) ==
    /\ step = "generate_candidates"
    /\ Return([i \in 1 .. n + 1 |-> i - 1], "compile_dispatches", 1)
    /\ UNCHANGED <<files, tracker>>
GenerationRaises == step = "generate_candidates" /\ Raise("generate")

CompileDispatchesBegins == /\ step = "compile_dispatches"
                           /\ Await(list, "compile_dispatches.pool")
                           /\ measured' = << >>

\* The compiled files, in the order of their numbers.
CompileDispatchesReturns ==
    /\ step = "compile_dispatches.pool" /\ Drained
    /\ IF results = << >> THEN Raise("compile")
       ELSE /\ Return(collision_handler(SetToSortSeq(ToSet(results), <),
                                        [i \in Ids |-> vmfb[i].content]),
                      "benchmark_dispatches", round)
            /\ UNCHANGED <<files, tracker>>

BenchmarkDispatchesBegins == /\ step = "benchmark_dispatches"
                             /\ Await(list, "benchmark_dispatches.pool")
                             /\ measured' = << >>

\* parse_dispatch_benchmark_results drops timeouts, and asserts that every
\* other result has a time; the fastest are returned.
BenchmarkDispatchesReturns ==
    /\ step = "benchmark_dispatches.pool" /\ Drained
    /\ IF \E k \in DOMAIN results : results[k].time = Bad THEN Raise("benchmark")
       ELSE /\ Return(IdsOf(Top(FastestFirst(SelectSeq(results, LAMBDA r : r.time # Timeout)),
                             NumModelCandidates)),
                      "compile_models", round)
            /\ UNCHANGED <<files, tracker>>

\* The baseline is not compiled, and a pool has at least one process.
CompileModelsBegins ==
    /\ step = "compile_models"
    /\ IF list = << >>
          THEN Return(<< >>, "benchmark_models", round) /\ UNCHANGED <<files, tracker>>
       ELSE IF ToSet(list) = {0} THEN Raise("pool")
       ELSE /\ Await(WithoutBaseline(list), "compile_models.pool")
            /\ measured' = << >>

\* glob lists the files in any order.
CompileModelsReturns ==
    /\ step = "compile_models.pool" /\ Drained
    /\ \E s \in Permuted(SetToSeq({i \in Ids : model[i] # Nothing})) :
          Return(collision_handler(s, model), "benchmark_models", round)
    /\ UNCHANGED <<files, tracker>>

BenchmarkModelsBegins == /\ step = "benchmark_models"
                         /\ Await(list, "benchmark_models.pool")
                         /\ measured' = << >>

Involved(s) == {s[k].device : k \in DOMAIN s}

\* As many baseline tasks as devices have a result.
ModelBaselineBegins ==
    /\ step = "benchmark_models.pool" /\ Drained
    /\ measured' = results
    /\ Await([k \in 1 .. Cardinality(Involved(results)) |-> 0], "benchmark_models.baseline")

\* parse_model_benchmark_results: the baseline results, sorted by device ...
SortedBaselines(s) == SortedBy(s, [r \in ToSet(s) |-> r.device])

\* ... are zipped with the devices that have results; a baseline that timed out
\* gives no time to compare with.
Compared(r, base) ==
    LET b == base[Cardinality({d \in Involved(measured) : d <= r.device})]
    IN  [time |-> r.time, device |-> r.device,
         base |-> IF b.time = Timeout THEN Nothing ELSE b.time,
         base_device |-> IF b.time = Timeout THEN Nothing ELSE b.device]

\* summarize_top_candidates: those with a model time, the fastest first.
Summary(t) == SortedBy(Kept([i \in 1 .. NumCandidates |-> i], {i \in Ids : t[i].time # Nothing}),
                       [i \in Ids |-> t[i].time])

BenchmarkModelsReturns ==
    /\ step = "benchmark_models.baseline" /\ Drained
    /\ IF \E r \in ToSet(measured \o results) : r.time = Bad
          THEN Raise("benchmark")
          ELSE /\ tracker' = [i \in Ids |->
                     LET own == {k \in DOMAIN measured : /\ measured[k].id = i
                                                         /\ measured[k].time # Timeout}
                     IN  IF own = {} THEN tracker[i]
                         ELSE Compared(measured[Max(own)], SortedBaselines(results))]
               /\ list' = Summary(tracker') /\ step' = "ended"
               /\ UNCHANGED <<script, round, pool, measured, files, error>>

----------------------------------------------------------------------------
PoolStep == \/ \E k \in DOMAIN todo, c \in Produced \cup {Nothing} : CompileEnds(k, c)
            \/ \E d \in Devices : \/ Take(d) \/ VmfbMissing(d)
                                \/ \E t \in Outcomes : BenchmarkEnds(d, t)

Specs == \/ \E n \in 0 .. NumCandidates : GenerateCandidateSpecs(n)
         \/ CompileBegins \/ CompileReturns
         \/ BenchmarkBegins \/ BaselineBegins \/ BenchmarkReturns

Files == \/ \E n \in 0 .. NumCandidates : GenerateCandidates(n)
         \/ GenerationRaises
         \/ CompileDispatchesBegins \/ CompileDispatchesReturns
         \/ BenchmarkDispatchesBegins \/ BenchmarkDispatchesReturns
         \/ CompileModelsBegins \/ CompileModelsReturns
         \/ BenchmarkModelsBegins \/ ModelBaselineBegins \/ BenchmarkModelsReturns

TuneNext == PoolStep \/ Specs \/ Files \/ Interrupt \/ \E d \in Devices : BenchmarkRaises(d)

TuneSpec == TuneInit /\ [][TuneNext]_tuneVars

\* The script and the processes of its pools go on; commands end or time out.
TuneFairness == WF_tuneVars(PoolStep \/ Specs \/ Files)
TuneFairSpec == TuneSpec /\ TuneFairness
----------------------------------------------------------------------------
(***************************************************************************)
(* Properties                                                              *)
(***************************************************************************)

\* A candidate is measured with the artefact of the current round: the vmfb of
\* the dispatch is still there when the model of a candidate does not compile.
\* Only the baseline's own vmfb can be missing.
BenchmarksCurrent ==
    /\ step = "benchmark.pool" => /\ \A k \in DOMAIN results : results[k].round = round
                                  /\ \A d \in Devices : busy[d] # Nothing =>
                                        vmfb[busy[d]].round = round
    /\ error = "vmfb" => vmfb[0] = NoFile

\* No candidate that was dropped is better than one that was kept, each compared
\* with the baseline of its own device (benchmark's results are still there when
\* the script goes on).
TopIsBest ==
    /\ step \in {"compile", "ended"} /\ error = "" /\ measured # << >> /\ script = "specs"
    /\ \A k \in DOMAIN measured : ~NaN(measured[k])
    => \A i, j \in DOMAIN measured :
          measured[i].id \in ToSet(list) /\ measured[j].id \notin ToSet(list)
              => ~BySpeedup(measured[j], measured[i])

\* libtuner.py:1640-1648: when the baseline tasks were spread over the devices
\* that have results, every candidate is compared with the baseline of its own
\* device, and the summary is in the order of the model times.
BaselinesAligned ==
    /\ step = "ended" /\ error = "" /\ script = "files"
    /\ Involved(results) = Involved(measured)
    => /\ \A i \in Ids : tracker[i].base_device \in {Nothing, tracker[i].device}
       /\ \A i, j \in DOMAIN list : i < j => tracker[list[i]].time <= tracker[list[j]].time

\* Both rankings are right.
RankingsSound == TopIsBest /\ BaselinesAligned

\* The script comes to an end, also when commands fail.
TuningEnds == <>(step = "ended")

\* libtuner.py:1492 "Benchmarking baselines on each involved device."
BaselineOnEachDevice ==
    step = "benchmark.baseline" /\ Drained =>
        \A k \in DOMAIN measured : HasBaseline(measured[k].device)
=============================================================================
