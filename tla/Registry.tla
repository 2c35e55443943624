------------------------------ MODULE Registry ------------------------------
(***************************************************************************)
(* The dispatcher of sharktank's overridable operators                     *)
(* (sharktank/ops/_registry.py) and the trampolines that decide which      *)
(* arguments of each operator are dispatched on (sharktank/ops/            *)
(* signatures.py).                                                         *)
(*                                                                         *)
(* Every operator has a list of overrides kept sorted by salience, and a   *)
(* cache from the tuple of argument types of a call to the overrides that  *)
(* match it.  A call walks the matches from the last to the first until    *)
(* one does not decline (return NotImplemented).  An argument is its type, *)
(* and a call is the sequence of the types of the operator's tensor        *)
(* arguments in the order of its signature, "NoneType" for one not given.  *)
(***************************************************************************)
EXTENDS Integers, Sequences, FiniteSets, Lists

CONSTANTS
    TypeSpecs,    \* the type specifications overrides may be registered with
    Calls,        \* the argument types each operator is called with
    MaxOverrides  \* the number of registrations explored

VARIABLES
    regOp,        \* the operator, each has a SignatureDispatcher of its own
    overrides,    \* SignatureDispatcher._overrides
    targetCache,  \* SignatureDispatcher._target_cache
    selected      \* the last call and the override it ran, 0 if it failed, or <<>>

regVars == <<regOp, overrides, targetCache, selected>>

RegOps == DOMAIN Calls

\* The classes an argument's type is a subclass of (types/tensors.py).
Bases ==
    [ Tensor |-> {"Tensor"},
      DefaultPrimitiveTensor |->
          {"DefaultPrimitiveTensor", "PrimitiveTensor", "InferenceTensor"},
      PlanarQuantizedTensor |->
          {"PlanarQuantizedTensor", "QuantizedTensor", "InferenceTensor"},
      SplitPrimitiveTensor |->
          {"SplitPrimitiveTensor", "ShardedTensor", "InferenceTensor"},
      ReplicatedTensor |->
          {"ReplicatedTensor", "ShardedTensor", "InferenceTensor"},
      Module |-> {"Module"},
      Sharding |-> {"Sharding"},
      float |-> {"float"},
      NoneType |-> {"NoneType"} ]

AnyTensor == {"Tensor", "InferenceTensor"}

\* issubclass(actual, (expected...)), of a set of classes.
IsSubclass(actual, expected) == Bases[actual] \cap expected # {}

-----------------------------------------------------------------------------
\* The trampolines: the positions of the arguments that are dispatched on, as
\* a sequence of the attempts the operator makes.

Given(args, i) == IF args[i] = "NoneType" THEN <<>> ELSE <<i>>
All(args) == [i \in 1 .. Len(args) |-> i]

\* all_gather, all_reduce, cat, conv2d and einsum_2args.
AttemptsAtoE(op, args) ==
    CASE op \in {"all_gather", "all_reduce"} -> <<<<1>>>>
      [] op = "cat" -> <<All(args)>>
      [] op = "conv2d" -> <<<<1, 2>> \o Given(args, 3)>>
      [] op = "einsum_2args" -> <<<<1, 2>>>>

\* elementwise stops at the first argument that is not a tensor.
LeadingTensors(args) ==
    CHOOSE n \in 0 .. Len(args) :
        /\ \A i \in 1 .. n : IsSubclass(args[i], AnyTensor)
        /\ n < Len(args) => ~ IsSubclass(args[n + 1], AnyTensor)

\* elementwise, embedding_lookup, equal, expand and get_index.  equal tries
\* both operands and, when every match declines, the first alone.
AttemptsEtoG(op, args) ==
    CASE op = "elementwise" -> <<[i \in 1 .. LeadingTensors(args) |-> i]>>
      [] op = "embedding_lookup" -> <<<<1, 2>>>>
      [] op = "equal" -> <<<<1, 2>>, <<1>>>>
      [] op \in {"expand", "get_index"} -> <<<<1>>>>

\* flatten, gather, gemm, group_norm_affine and index_copy_.
AttemptsFtoI(op, args) ==
    CASE op = "flatten" -> <<<<1>>>>
      [] op = "gather" -> <<<<1, 2>>>>
      [] op \in {"gemm", "group_norm_affine", "index_copy_"} -> <<<<1, 2, 3>>>>

\* index_put_ (inout, values, then the indices), index_select, interpolate,
\* layer_norm and linear.  layer_norm dispatches on its bias twice and never
\* on its weight.
AttemptsItoL(op, args) ==
    CASE op = "index_put_" -> <<All(args)>>
      [] op = "index_select" -> <<<<1, 2>>>>
      [] op = "interpolate" -> <<<<1>>>>
      [] op = "layer_norm" ->
           <<<<1>> \o (IF args[2] = "NoneType" THEN <<>> ELSE <<3>>)
                   \o Given(args, 3)>>
      [] op = "linear" -> <<<<1, 2>> \o Given(args, 3)>>

\* matmul, permute, mean, module_register_buffer, rms_norm, repeat, replicate.
AttemptsMtoR(op, args) ==
    CASE op \in {"matmul", "module_register_buffer", "rms_norm"} -> <<<<1, 2>>>>
      [] op \in {"permute", "mean", "repeat", "replicate"} -> <<<<1>>>>

\* scaled_dot_product_attention, reshape and the reshard operators.
AttemptsReshard(op, args) ==
    CASE op = "scaled_dot_product_attention" -> <<<<1, 2, 3, 4>>>>
      [] op \in {"reshape", "reshard_split"} -> <<<<1>>>>
      [] op \in {"reshard", "reshard_like"} -> <<<<1, 2>>>>

\* sharded_cat, sharded_sum, softmax, to, transfer_to_logical_device, transpose
\* and unflatten.
AttemptsStoU(op, args) == <<<<1>>>>

\* unshard to view_as_real.  squeeze hands the tensor itself, not a tuple, to
\* find_overrides, which therefore sees the types of its slices along
\* dimension 0; the calls of squeeze give those slices as the arguments.
AttemptsUtoV(op, args) ==
    CASE op \in {"unshard", "unsqueeze", "view", "view_as_complex",
                 "view_as_real"} -> <<<<1>>>>
      [] op = "squeeze" -> <<All(args)>>

Attempts(op, args) ==
    CASE op \in {"all_gather", "all_reduce", "cat", "conv2d", "einsum_2args"} ->
           AttemptsAtoE(op, args)
      [] op \in {"elementwise", "embedding_lookup", "equal", "expand", "get_index"} ->
           AttemptsEtoG(op, args)
      [] op \in {"flatten", "gather", "gemm", "group_norm_affine", "index_copy_"} ->
           AttemptsFtoI(op, args)
      [] op \in {"index_put_", "index_select", "interpolate", "layer_norm", "linear"} ->
           AttemptsItoL(op, args)
      [] op \in {"matmul", "permute", "mean", "module_register_buffer", "rms_norm",
                 "repeat", "replicate"} -> AttemptsMtoR(op, args)
      [] op \in {"scaled_dot_product_attention", "reshape", "reshard",
                 "reshard_split", "reshard_like"} -> AttemptsReshard(op, args)
      [] op \in {"unshard", "unsqueeze", "view", "view_as_complex",
                 "view_as_real", "squeeze"} -> AttemptsUtoV(op, args)
      [] OTHER -> AttemptsStoU(op, args)

TypesAt(args, positions) == [i \in 1 .. Len(positions) |-> args[positions[i]]]

-----------------------------------------------------------------------------
\* Matching an override's specification with the types of a call.

\* The Boolean type expressions: each holds of a sequence of types.
AllOfType(classes, types) == \A i \in 1 .. Len(types) : IsSubclass(types[i], classes)
AnyOfType(classes, types) == \E i \in 1 .. Len(types) : IsSubclass(types[i], classes)
AllOfExprs(exprs, types) ==
    /\ Len(types) >= Len(exprs)
    /\ \A i \in 1 .. Len(exprs) : IsSubclass(types[i], exprs[i])
AllOfExprsVariadic(exprs, types) ==
    /\ Len(types) >= Len(exprs)
    /\ \A i \in 1 .. Len(types) :
           IsSubclass(types[i], exprs[IF i > Len(exprs) THEN Len(exprs) ELSE i])

\* One position: None accepts anything, a class its subclasses, and Tensor what
\* is boxed in a primitive tensor or, if the override says so, quantized.
PositionMatches(o, expected, actual) ==
    \/ expected = {}
    \/ IsSubclass(actual, expected)
    \/ /\ expected = {"Tensor"}
       /\ \/ o.autoUnbox /\ IsSubclass(actual, {"PrimitiveTensor"})
          \/ o.autoDequant /\ IsSubclass(actual, {"QuantizedTensor"})

Matches(o, types) ==
    CASE o.kind = "positional" ->
           /\ Len(o.spec) = Len(types)
           /\ \A i \in 1 .. Len(types) : PositionMatches(o, o.spec[i], types[i])
      [] o.kind = "AllOfType" -> AllOfType(o.spec[1], types)
      [] o.kind = "AnyOfType" -> AnyOfType(o.spec[1], types)
      [] o.kind = "AllOfExprs" -> AllOfExprs(o.spec, types)
      [] o.kind = "AllOfExprsVariadic" -> AllOfExprsVariadic(o.spec, types)

MatchTargets(types) == Kept(overrides, {i \in DOMAIN overrides : Matches(overrides[i], types)})

\* list.append, then the stable sort by salience.
Inserted(list, o) ==
    Kept(list, {i \in DOMAIN list : list[i].salience <= o.salience})
    \o <<o>> \o Kept(list, {i \in DOMAIN list : list[i].salience > o.salience})

RegInit ==
    /\ regOp \in RegOps
    /\ overrides = <<>>
    /\ targetCache = {}
    /\ selected = <<>>

CacheKept(cache) == cache
CacheCleared(cache) == {}

\* @op.override(...): the target declines or not as its body decides.
Override(s, salience, declines) ==
    /\ Len(overrides) < MaxOverrides
    /\ \E o \in {[kind |-> s.kind, spec |-> s.spec, autoUnbox |-> s.autoUnbox,
                  autoDequant |-> s.autoDequant, salience |-> salience,
                  declines |-> declines, id |-> Len(overrides) + 1]} :
           overrides' = Inserted(overrides, o)
    /\ targetCache' = CacheCleared(targetCache)
    /\ selected' = <<>>
    /\ UNCHANGED regOp

\* The cache is a set of [types, found] entries, at most one for each key.
Cached(cache, types) == {e \in cache : e.types = types}

\* find_overrides: the cached matches, or the ones computed now.
FoundTargets(cache, types) ==
    IF Cached(cache, types) = {} THEN MatchTargets(types)
    ELSE (CHOOSE e \in Cached(cache, types) : TRUE).found

CacheWith(cache, types) ==
    IF Cached(cache, types) = {}
    THEN cache \cup {[types |-> types, found |-> MatchTargets(types)]}
    ELSE cache

\* The matches are tried from the last to the first; fail() if all decline.
LastAccepting(found) ==
    LET accepting == {i \in DOMAIN found : ~ found[i].declines}
    IN IF accepting = {} THEN 0
       ELSE found[CHOOSE i \in accepting : \A j \in accepting : j <= i].id

\* The attempts of a trampoline in turn, each consulting and filling the cache.
CallOp(args) ==
    LET tries == Attempts(regOp, args)
        types(n) == TypesAt(args, tries[n])
        first == LastAccepting(FoundTargets(targetCache, types(1)))
        cache1 == CacheWith(targetCache, types(1))
        second == Len(tries) = 2 /\ first = 0
    IN /\ selected' = <<[args |-> args,
                         id |-> IF second
                                THEN LastAccepting(FoundTargets(cache1, types(2)))
                                ELSE first]>>
       /\ targetCache' = IF second THEN CacheWith(cache1, types(2)) ELSE cache1
       /\ UNCHANGED <<regOp, overrides>>

RegNext ==
    \/ \E s \in TypeSpecs, salience \in 0 .. 1, declines \in BOOLEAN :
           Override(s, salience, declines)
    \/ \E args \in Calls[regOp] : CallOp(args)

RegSpec == RegInit /\ [][RegNext]_regVars

-----------------------------------------------------------------------------
\* "Finds the most salient override for the given named tensors": of all the
\* overrides that match the dispatched types and do not decline, a call runs one
\* of greatest salience and, among those, the one registered last; it fails only
\* if there is none.  Whatever was registered or called before, in any order, so
\* a cached answer is never used after a registration that would change it.
Better(o, p) == o.salience > p.salience \/ (o.salience = p.salience /\ o.id >= p.id)
Candidates(args, n) ==
    {overrides[i] : i \in {j \in DOMAIN overrides :
        /\ ~ overrides[j].declines
        /\ Matches(overrides[j], TypesAt(args, Attempts(regOp, args)[n]))}}
MostSalientRuns ==
    selected # <<>> =>
        LET args == selected[1].args
            n == IF Candidates(args, 1) = {} THEN Len(Attempts(regOp, args)) ELSE 1
        IN IF Candidates(args, n) = {} THEN selected[1].id = 0
           ELSE \E o \in Candidates(args, n) :
                    /\ selected[1].id = o.id
                    /\ \A p \in Candidates(args, n) : Better(o, p)
=============================================================================
