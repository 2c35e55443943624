----------------------------- MODULE CandidateGen -----------------------------
(***************************************************************************)
(* candidate_gen.py: the candidates for a dispatch.  A tuner is found by   *)
(* the name of the dispatch's function, it reads the sizes of the problem  *)
(* from the operation, a solver enumerates the configurations that satisfy *)
(* the constraints, and the tuner applies each of them: to the text of the *)
(* dispatch, with a matcher beside it (tune), or in a transform spec       *)
(* (generate_configs_and_td_specs).                                        *)
(*                                                                         *)
(* The solver is asked between two applications, and the tuners write to   *)
(* the problem and to the module that all candidates share.                *)
(***************************************************************************)
EXTENDS Integers, Sequences, FiniteSets, FiniteSetsExt, SequencesExt

CONSTANTS Dispatches,   \* the inputs: an operation, and the function and options it is for
          AllIntrinsics,\* iree_gpu.MMAIntrinsic, in its order
          TargetMma,    \* query_mma_intrinsics: the ones of the target
          NumSubgroups, \* --num-subgroups
          GenLimit      \* limit

ASSUME GenAssumption == GenLimit \in Nat /\ NumSubgroups \in Int
                        /\ TargetMma \subseteq ToSet(AllIntrinsics)

VARIABLES dispatch,     \* the input
          genStep,      \* where the function is
          handler,      \* walk_result.dispatch_tuner
          problem,      \* problem_size
          models,       \* the models of the solver's assertions
          written,      \* the candidates, in the order of their numbers
          rootAttr      \* the operation in the shared module has the root_op attribute

genVars == <<dispatch, genStep, handler, problem, models, written, rootAttr>>

NoProblem == [kind |-> "none"]

GenInit == /\ dispatch \in Dispatches /\ genStep = "walk" /\ handler = "none"
           /\ problem = NoProblem /\ models = {} /\ written = << >>
           /\ rootAttr = dispatch.root

GenFails == genStep' = "raised" /\ UNCHANGED <<dispatch, handler, problem, models, written, rootAttr>>

-----------------------------------------------------------------------------
(***************************************************************************)
(* The tuners, and which of them takes a function                          *)
(***************************************************************************)
\* The tuners that the two functions register, and the parts of a function's name
\* that they support.
FileTuners == [MmtTuner |-> {"matmul_transpose_b"},
               ConvTuner |-> {"conv_2d_nhwc_hwcf"},
               ContractionTuner |-> {"matmul_like"},
               BatchMmtTuner |-> {"batch_matmul_transpose_b"},
               BatchMatmulTuner |-> {"batch_matmul"}]
SpecTuners == [ContractionOpInterfaceTuner |->
                  {"matmul_like", "batch_matmul", "batch_matmul_transpose_b", "matmul_transpose_b"},
               ConvolutionOpInterfaceTuner |-> {"conv_2d_nhwc_hwcf"}]
Tuners == IF dispatch.mode = "files" THEN FileTuners ELSE SpecTuners

\* The registry is a set of objects, so that the first tuner that supports the
\* name is any of those that do.
find_handler(names) == {t \in DOMAIN Tuners : Tuners[t] \cap names # {}}

validate_translation == dispatch.mode = "files" => dispatch.translation

Walk ==
    /\ genStep = "walk"
    /\ IF validate_translation /\ find_handler(dispatch.names) # {}
          THEN /\ handler' \in find_handler(dispatch.names) /\ genStep' = "get_shapes"
               /\ UNCHANGED <<dispatch, problem, models, written, rootAttr>>
          ELSE GenFails

-----------------------------------------------------------------------------
(***************************************************************************)
(* get_shapes                                                              *)
(***************************************************************************)
Rank(t) == Len(t.shape)
Lhs == dispatch.types[1]
Rhs == dispatch.types[2]
Res == dispatch.types[3]
LhsDims == dispatch.lhs_dims
RhsDims == dispatch.rhs_dims
ProblemOf(kind, M, N, K, B) ==
    [kind |-> kind, M |-> M, N |-> N, K |-> K, B |-> B, lhs |-> Lhs, rhs |-> Rhs, res |-> Res]
Asserted(ok, p) == IF ok THEN p ELSE NoProblem

P == "parallel"
R == "reduction"

\* The product of a shape's sizes along the dimensions with a letter.
Along(dims, letter, shape) ==
    FoldLeft(LAMBDA x, y : x * y, 1,
             [i \in 1 .. Min({Len(dims), Len(shape)}) |-> IF dims[i] = letter THEN shape[i] ELSE 1])

MmtShapes ==
    LET l == Lhs.shape  r == Rhs.shape  s == Res.shape
    IN  Asserted(/\ dispatch.op = "generic" /\ dispatch.iters = <<P, P, R>>
                 /\ <<Rank(Lhs), Rank(Rhs), Rank(Res)>> = <<2, 2, 2>>
                 /\ Lhs.elem = Rhs.elem /\ l[2] = r[2] /\ l[1] = s[1] /\ r[1] = s[2],
                 ProblemOf("mmt", l[1], r[1], l[2], 1))

\* ConvDimInfo: n, oh, ow, oc of the result and fh, fw, ic of the filter.
ConvProblem ==
    LET r == Rhs.shape  s == Res.shape
    IN  ProblemOf("conv", s[2] * s[3], s[4], r[1] * r[2] * r[3], s[1])
ConvShapes ==
    Asserted(dispatch.op = "conv_2d_nhwc_hwcf" /\ {Rank(Lhs), Rank(Rhs), Rank(Res)} = {4},
             ConvProblem)

is_broadcast_rhs_mmt ==
    /\ dispatch.op = "generic" /\ dispatch.iters = <<P, P, P, R>>
    /\ dispatch.maps = <<<<0, 1, 3>>, <<2, 3>>, <<0, 1, 2>>>>

BroadcastShapes ==
    LET l == Lhs.shape  r == Rhs.shape  s == Res.shape
    IN  Asserted(/\ <<Rank(Lhs), Rank(Rhs), Rank(Res)>> = <<3, 2, 3>>
                 /\ l[1] = s[1] /\ l[2] = s[2] /\ r[1] = s[3] /\ l[3] = r[2],
                 ProblemOf("broadcast_rhs_mmt", l[2], r[1], l[3], l[1]))

\* The dimensions are named by the user.
ContractionShapes ==
    IF is_broadcast_rhs_mmt THEN BroadcastShapes
    ELSE Asserted(/\ dispatch.op = "generic" /\ dispatch.lowering_config
                  /\ R \in ToSet(dispatch.iters)
                  /\ Rank(Lhs) = Len(LhsDims) /\ Rank(Rhs) = Len(RhsDims) /\ Rank(Res) >= 2
                  /\ Along(LhsDims, "k", Lhs.shape) = Along(RhsDims, "k", Rhs.shape),
                  ProblemOf("contraction", Along(LhsDims, "m", Lhs.shape),
                            Along(RhsDims, "n", Rhs.shape), Along(LhsDims, "k", Lhs.shape), 1))

BatchMmtShapes ==
    LET l == Lhs.shape  r == Rhs.shape  s == Res.shape
    IN  Asserted(/\ dispatch.op = "generic" /\ dispatch.iters = <<P, P, P, R>>
                 /\ <<Rank(Lhs), Rank(Rhs), Rank(Res)>> = <<3, 3, 3>>
                 /\ l[1] = r[1] /\ l[1] = s[1] /\ l[2] = s[2] /\ r[2] = s[3] /\ l[3] = r[3],
                 ProblemOf("batch_mmt", l[2], r[2], l[3], l[1]))

\* The batch of all three operands is read with the letters of the left one.
BatchMatmulShapes ==
    LET B(t) == Along(LhsDims, "b", t.shape)
    IN  Asserted(/\ dispatch.op = "batch_matmul"
                 /\ Rank(Lhs) = Len(LhsDims) /\ Rank(Rhs) = Len(RhsDims) /\ Rank(Res) = Rank(Lhs)
                 /\ B(Lhs) = B(Rhs) /\ B(Lhs) = B(Res)
                 /\ Along(LhsDims, "k", Lhs.shape) = Along(RhsDims, "k", Rhs.shape),
                 ProblemOf("batch_matmul", Along(LhsDims, "m", Lhs.shape),
                           Along(RhsDims, "n", Rhs.shape), Along(LhsDims, "k", Lhs.shape), B(Lhs)))

\* match_root_op: the one operation with the root_op attribute, if it matches.
match_root_op(op) == rootAttr /\ dispatch.op = op

\* The loops of a contraction, sorted by the operands that they index.
ContractionDims ==
    LET In(i) == ToSet(dispatch.maps[i])
    IN  [batch |-> In(1) \cap In(2) \cap In(3), m |-> (In(1) \cap In(3)) \ In(2),
         n |-> (In(2) \cap In(3)) \ In(1), k |-> (In(1) \cap In(2)) \ In(3)]
ContractionMatches ==
    /\ match_root_op("generic") /\ Len(dispatch.maps) = 3
    /\ LET c == ContractionDims
       IN  c.batch \cup c.m \cup c.n \cup c.k = 0 .. Len(dispatch.iters) - 1
SizeOf(d, i) == dispatch.types[i].shape[CHOOSE j \in DOMAIN dispatch.maps[i] : dispatch.maps[i][j] = d]

RootContractionShapes ==
    LET c == ContractionDims
        One(s) == CHOOSE d \in s : TRUE
    IN  Asserted(/\ ContractionMatches /\ Cardinality(c.batch) <= 1
                 /\ {Cardinality(c.m), Cardinality(c.n), Cardinality(c.k)} = {1},
                 ProblemOf("contraction", SizeOf(One(c.m), 1), SizeOf(One(c.n), 2),
                           SizeOf(One(c.k), 1),
                           IF c.batch = {} THEN 1 ELSE SizeOf(One(c.batch), 1)))

RootConvShapes == Asserted(match_root_op("conv_2d_nhwc_hwcf"), ConvProblem)

get_shapes(h) ==
    CASE h = "MmtTuner" -> MmtShapes
      [] h = "ConvTuner" -> ConvShapes
      [] h = "ContractionTuner" -> ContractionShapes
      [] h = "BatchMmtTuner" -> BatchMmtShapes
      [] h = "BatchMatmulTuner" -> BatchMatmulShapes
      [] h = "ContractionOpInterfaceTuner" -> RootContractionShapes
      [] h = "ConvolutionOpInterfaceTuner" -> RootConvShapes

GetShapes ==
    /\ genStep = "get_shapes"
    /\ IF get_shapes(handler) = NoProblem THEN GenFails
       ELSE /\ problem' = get_shapes(handler) /\ genStep' = "generate_constraints"
            /\ UNCHANGED <<dispatch, handler, models, written, rootAttr>>

-----------------------------------------------------------------------------
(***************************************************************************)
(* The solver                                                              *)
(***************************************************************************)
\* isinstance(t, type(u)): the integers of all widths have one type, each kind of
\* float has its own.
SameType(t, u) == t = u \/ {t, u} \subseteq {"i8", "i32"}
Bytes(elem) == CASE elem = "i8" -> 1 [] elem \in {"f16", "bf16"} -> 2 [] OTHER -> 4

get_compatible_mfma_intrinsics(p) ==
    {i \in TargetMma : /\ SameType(p.res.elem, i.c)
                       /\ p.kind # "batch_matmul" =>
                             SameType(p.lhs.elem, i.a) /\ SameType(p.rhs.elem, i.b)}

SubgroupCounts ==
    {c \in (1 .. 32) \X (1 .. 32) : IF NumSubgroups > 0 THEN c[1] * c[2] = NumSubgroups
                                    ELSE c[1] * c[2] <= 10}

\* The model for an intrinsic, counts of subgroups and counts of tiles per subgroup.
Model(i, c, t) ==
    [m |-> c[1] * t[1] * i.m, n |-> c[2] * t[2] * i.m, k |-> t[3] * i.k,
     subgroup_size |-> 64, intrinsic_mn |-> i.m, intrinsic_k |-> i.k,
     wg_x |-> 64 * c[2], wg_y |-> c[1], wg_z |-> 1,
     sg_m_cnt |-> c[1], sg_n_cnt |-> c[2], waves_per_eu |-> 2]

calculate_shared_memory_usage_in_bytes(p, s) ==
    s.m * s.k * Bytes(p.lhs.elem) + s.k * s.n * Bytes(p.rhs.elem)

get_dispatch_constraints(p, s) ==
    p.kind = "conv" => /\ s.m <= p.res.shape[3] /\ s.n <= p.res.shape[4]
                       /\ s.k <= p.rhs.shape[3]

generate_constraints(p, s) ==
    LET wg_threads == s.wg_x * s.wg_y * s.wg_z
    IN  /\ wg_threads <= 1024
        /\ s.m <= 512 /\ s.m <= p.M
        /\ s.n <= 512 /\ s.n <= p.N /\ p.N % s.n = 0
        /\ s.k <= 512 /\ s.k <= p.K /\ p.K % s.k = 0
        /\ s.wg_x <= s.n \/ s.wg_x <= s.m
        /\ s.k % s.intrinsic_mn = 0
        /\ (s.k * s.n) % wg_threads = 0 /\ (s.k * s.m) % wg_threads = 0
        /\ calculate_shared_memory_usage_in_bytes(p, s) <= 65536
        /\ get_dispatch_constraints(p, s)

\* At most 32 tiles per subgroup, and no more than fit into the problem.
TileCounts(p, i, c) ==
    LET UpTo(n) == 1 .. Min({32, n})
    IN  UpTo(p.M \div (c[1] * i.m)) \X UpTo(p.N \div (c[2] * i.m)) \X UpTo(p.K \div i.k)

Models(p) ==
    LET intrinsics == {i \in get_compatible_mfma_intrinsics(p) : i.m = i.n}
    IN  {s \in UNION { {Model(i, c, t) : t \in TileCounts(p, i, c)} :
                       i \in intrinsics, c \in SubgroupCounts} : generate_constraints(p, s)}

\* The generator's code before its loop is run when the first candidate is asked
\* for, and so before any candidate is applied.
GenerateConstraints ==
    /\ genStep = "generate_constraints"
    /\ IF get_compatible_mfma_intrinsics(problem) = {} THEN GenFails
       ELSE /\ models' = Models(problem) /\ genStep' = "solve"
            /\ UNCHANGED <<dispatch, handler, problem, written, rootAttr>>

\* getMMAAttr searches all intrinsics, not those of the target; the first counts.
MatchingMma(p, s) ==
    SelectSeq(AllIntrinsics, LAMBDA i :
        /\ SameType(p.lhs.elem, i.a) /\ SameType(p.rhs.elem, i.b) /\ SameType(p.res.elem, i.c)
        /\ <<i.m, i.n, i.k>> = <<s.intrinsic_mn, s.intrinsic_mn, s.intrinsic_k>>)

\* compilation_info: the lowering config and the translation info.
Config(p, s) ==
    [mma_kind |-> Head(MatchingMma(p, s)).name,
     workgroup |-> <<s.m, s.n, 0>>, reduction |-> <<0, 0, s.k>>,
     subgroup_count |-> <<s.sg_m_cnt, s.sg_n_cnt>>,
     workgroup_size |-> <<s.wg_x, s.wg_y, s.wg_z>>, subgroup_size |-> s.subgroup_size,
     waves_per_eu |-> s.waves_per_eu]

\* Mutant: the clause that excludes a model is over the tile sizes alone.
BlockedTiles(s) == {r \in models : <<r.m, r.n, r.k>> # <<s.m, s.n, s.k>>}

\* solver.add(Not(And(x == model[x]))) for all variables.
Blocked(s) == models \ {s}

-----------------------------------------------------------------------------
(***************************************************************************)
(* apply_params and get_td_spec                                            *)
(***************************************************************************)
TemplateAttrs == {"intrinsic", "LLVMGPUVectorDistribute", "workgroup", "reduction",
                  "amdgpu-waves-per-eu"}

\* apply_configuration replaces the attributes that its expressions find in the
\* text of the dispatch; the pipeline options are the same in all candidates.
apply_configuration(config) ==
    LET value == [intrinsic |-> <<config.mma_kind, config.subgroup_count>>,
                  LLVMGPUVectorDistribute |-> <<config.workgroup_size, config.subgroup_size>>,
                  workgroup |-> config.workgroup, reduction |-> config.reduction]
                 @@ ("amdgpu-waves-per-eu" :> config.waves_per_eu)
    IN  [a \in dispatch.attrs |-> value[a]]

NoMatcher == [types |-> << >>, elems |-> << >>, args |-> << >>, root |-> FALSE]
Matcher(types, elems) == [NoMatcher EXCEPT !.types = types, !.elems = elems]

\* The matcher that a tuner writes beside a candidate: the types it asks for, and
\* the element types of the matcher that it includes.
MmtMatcher(p) == Matcher(<<p.lhs, p.rhs>>, <<"f16", "f16", "f32">>)
ConvMatcher(p) == Matcher(<<p.lhs, p.rhs, p.res>>, << >>)
ContractionMatcher(p) == IF p.kind = "broadcast_rhs_mmt"
                            THEN Matcher(<<p.lhs, p.rhs>>, <<"i8", "i8", "i32">>) ELSE NoMatcher
BatchMmtMatcher(p) == Matcher(<<p.lhs, p.rhs>>, <<"i8", "i8", "i32">>)
BatchMatmulMatcher(p) == Matcher(<<p.lhs, p.rhs, p.res>>, << >>)

\* The tuners for a dynamic batch write -1 to the problem's own left type; the
\* result type of a convolution keeps its batch ("shape[0] - 1" has no effect).
DynamicBatch(p) == IF p.kind \in {"conv", "broadcast_rhs_mmt"}
                      THEN [p EXCEPT !.lhs.shape[1] = -1] ELSE p

apply_params(config) ==
    /\ problem' = DynamicBatch(problem)
    /\ LET matcher == CASE handler = "MmtTuner" -> MmtMatcher(problem')
                        [] handler = "ConvTuner" -> ConvMatcher(problem')
                        [] handler = "ContractionTuner" -> ContractionMatcher(problem')
                        [] handler = "BatchMmtTuner" -> BatchMmtMatcher(problem')
                        [] handler = "BatchMatmulTuner" -> BatchMatmulMatcher(problem')
       IN  written' = Append(written, [config |-> config, file |-> apply_configuration(config),
                                       matcher |-> matcher])
    /\ UNCHANGED rootAttr

\* build_td_spec: the operands once each, and the text of the operation without
\* its root_op attribute, which is put back afterwards.
Operands == LET first == {i \in 1 .. 3 : \A j \in 1 .. i - 1 : dispatch.args[j] # dispatch.args[i]}
            IN  SetToSortSeq(first, <)
build_td_spec ==
    [types |-> [i \in DOMAIN Operands |-> dispatch.types[Operands[i]]], elems |-> << >>,
     args |-> [i \in DOMAIN Operands |-> dispatch.args[Operands[i]]], root |-> FALSE]

\* The operation is looked for again for every candidate.
get_td_spec(config) ==
    /\ match_root_op(IF handler = "ConvolutionOpInterfaceTuner" THEN "conv_2d_nhwc_hwcf"
                     ELSE "generic")
    /\ written' = Append(written, [config |-> config, file |-> << >>, matcher |-> build_td_spec])
    /\ UNCHANGED <<problem, rootAttr>>

\* The solver finds a model, and a candidate is made of it.
NextCandidate ==
    /\ genStep = "solve" /\ Len(written) < GenLimit
    /\ \E s \in models :
         /\ MatchingMma(problem, s) # << >>
         /\ models' = Blocked(s)
         /\ IF dispatch.mode = "files" THEN apply_params(Config(problem, s))
            ELSE get_td_spec(Config(problem, s))
    /\ UNCHANGED <<dispatch, genStep, handler>>

\* The loop asks for one candidate more than it wants, or there is none.
GenEnds ==
    /\ genStep = "solve"
    /\ \/ models = {}
       \/ Len(written) = GenLimit /\ {s \in models : MatchingMma(problem, s) # << >>} # {}
    /\ genStep' = "done" /\ UNCHANGED <<dispatch, handler, problem, models, written, rootAttr>>

NoMmaMatches ==
    /\ genStep = "solve" /\ {s \in models : MatchingMma(problem, s) = << >>} # {}
    /\ GenFails

GenNext == Walk \/ GetShapes \/ GenerateConstraints \/ NextCandidate \/ GenEnds \/ NoMmaMatches

GenSpec == GenInit /\ [][GenNext]_genVars

-----------------------------------------------------------------------------
(***************************************************************************)
(* Properties                                                              *)
(***************************************************************************)
\* No work is done twice: candidates have different configurations, and different
\* texts when the dispatch has every attribute that is replaced.
CandidatesDistinct ==
    \A i, j \in DOMAIN written : i # j =>
        /\ written[i].config # written[j].config
        /\ dispatch.mode = "files" /\ dispatch.attrs = TemplateAttrs =>
              written[i].file # written[j].file

\* Below the limit every solution for the dispatch that was read becomes a
\* candidate, although the tuners write to the problem in between.
CandidatesComplete ==
    genStep = "done" =>
        \/ Len(written) = GenLimit
        \/ LET p == get_shapes(handler)
           IN  {c.config : c \in ToSet(written)} = {Config(p, s) : s \in Models(p)}

\* The matcher of every candidate, the first and the later ones, finds the
\* operation that was tuned (with the element types that the matcher is for).
MatchersFindDispatch ==
    \A i \in DOMAIN written :
        LET x == written[i].matcher
            \* A repeated operand is named once.
            type(j) == IF dispatch.mode = "files" THEN dispatch.types[j]
                       ELSE dispatch.types[CHOOSE a \in 1 .. 3 : dispatch.args[a] = x.args[j]]
        IN  /\ ~x.root /\ IsInjective(x.args)
            /\ x.elems \in {<< >>, <<Lhs.elem, Rhs.elem, Res.elem>>} =>
                 \A j \in DOMAIN x.types :
                    /\ x.types[j].elem = type(j).elem /\ Rank(x.types[j]) = Rank(type(j))
                    /\ \A d \in DOMAIN type(j).shape : x.types[j].shape[d] \in {-1, type(j).shape[d]}

\* The candidates of a dispatch are all different, all there, and found again.
CandidatesSound == CandidatesDistinct /\ CandidatesComplete /\ MatchersFindDispatch

\* dispatch_parser.py:84 "Check if the tuner can handle the type of operation
\* represented by the input string."
SupportsWhatItHandles == handler # "none" /\ genStep = "raised" => problem # NoProblem
=============================================================================
