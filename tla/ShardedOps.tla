----------------------------- MODULE ShardedOps -----------------------------
(***************************************************************************)
(* Tensor-parallel tensors (sharktank/types/tensors.py), the operators on  *)
(* them (sharktank/ops/sharded_impls.py) and the sharding specifications   *)
(* of a layer's weights (sharktank/types/sharding.py, models/*/sharding.py).*)
(*                                                                         *)
(* One value goes through a program of operators twice: once sharded, by   *)
(* the overrides for sharded tensors, once whole, by the default ones.     *)
(* An operator that asserts, raises or has no override for the value's     *)
(* kind is not enabled: the exception leaves the value as it was.          *)
(***************************************************************************)
EXTENDS Tensors, FiniteSets

CONSTANTS
    ShardCount,   \* tensor_parallelism_size
    Shapes,       \* the shapes programs start from
    Perms,        \* the permutations of dimensions programs use
    MaxShardOps   \* the length of the programs explored

VARIABLES
    sharded,      \* the value: [kind, dim, ts]
    whole,        \* what the same program computes without sharding
    shardOps,     \* the number of operators applied
    beyond        \* history: what the last operator was used for that its override
                  \* accepts and computes wrongly; the program ends there

shardVars == <<sharded, whole, shardOps, beyond>>

Shards == 1 .. ShardCount

Plain(t) == [kind |-> "tensor", dim |-> 0, ts |-> <<t>>]
Split(ts, d) == [kind |-> "split", dim |-> d, ts |-> ts]
Replicated(ts) == [kind |-> "replicated", dim |-> 0, ts |-> ts]
Unreduced(ts) == [kind |-> "unreduced", dim |-> 0, ts |-> ts]

\* What the constructors of the sharded tensors assert of the shards' shapes.
SplitOK(x) ==
    /\ x.dim >= 0
    /\ x.dim < Rank(x.ts[1])
    /\ \A i \in DOMAIN x.ts :
           /\ Rank(x.ts[i]) = Rank(x.ts[1])
           /\ \A d \in 0 .. Rank(x.ts[1]) - 1 :
                  d # x.dim => Size(x.ts[i], d) = Size(x.ts[1], d)
SameShapes(x) == \A i \in DOMAIN x.ts : x.ts[i].shape = x.ts[1].shape
Constructs(x) == IF x.kind = "split" THEN SplitOK(x) ELSE SameShapes(x)

\* ShardedTensor.shape: the shape of the unsharded tensor.
Shape(x) ==
    IF x.kind = "split"
    THEN WithSize(x.ts[1].shape, x.dim, SumOf([i \in DOMAIN x.ts |-> Size(x.ts[i], x.dim)]))
    ELSE x.ts[1].shape
ShapeRank(x) == Len(Shape(x))

-----------------------------------------------------------------------------
\* Moving between the kinds.

SumShards(ts) == FoldLeft(LAMBDA a, b : elementwise("add", a, b), ts[1], Tail(ts))
sharded_cat(x) == cat(x.ts, x.dim)

unshard(x) ==
    CASE x.kind = "split" -> sharded_cat(x)
      [] x.kind = "unreduced" -> SumShards(x.ts)
      [] OTHER -> x.ts[1]

\* Every device concatenates, or sums, the shards moved to it.
all_gather(x) == Replicated([i \in DOMAIN x.ts |-> cat(x.ts, x.dim)])
all_reduce(x) == Replicated([i \in DOMAIN x.ts |-> SumShards(x.ts)])

replicate(x) ==
    CASE x.kind = "split" -> all_gather(x)
      [] x.kind = "unreduced" -> all_reduce(x)
      [] x.kind = "replicated" -> x
      [] x.kind = "tensor" -> Replicated([i \in Shards |-> x.ts[1]])

\* SplitPrimitiveTensor of one tensor: pieces of ceil(size / count), the last
\* one shorter; the constructor asserts that there are count of them.
CeilDiv(a, b) == (a + b - 1) \div b
PieceStart(t, d, i) == (i - 1) * CeilDiv(Size(t, d), ShardCount)
SplitsEvenly(t, d) == CeilDiv(Size(t, d), CeilDiv(Size(t, d), ShardCount)) = ShardCount
SplitTensor(t, d) ==
    Split([i \in Shards |->
              LET start == PieceStart(t, d, i)
                  step == CeilDiv(Size(t, d), ShardCount)
              IN Narrow(t, d, start,
                        IF start + step > Size(t, d) THEN Size(t, d) - start ELSE step)], d)

\* A replicated tensor is split with no transfer: each replica keeps a piece
\* of floor(size / count).
SplitReplicas(x, d) ==
    LET step == Size(x.ts[1], d) \div ShardCount
    IN Split([i \in Shards |-> Narrow(x.ts[i], d, (i - 1) * step, step)], d)

CanReshardSplit(x, d) ==
    CASE x.kind = "split" -> x.dim = d
      [] x.kind = "tensor" -> d < Rank(x.ts[1]) /\ SplitsEvenly(x.ts[1], d)
      [] x.kind = "replicated" -> d < Rank(x.ts[1])
      [] OTHER -> FALSE
reshard_split(x, d) ==
    CASE x.kind = "split" -> x
      [] x.kind = "tensor" -> SplitTensor(x.ts[1], d)
      [] x.kind = "replicated" -> SplitReplicas(x, d)

\* reshard_like(x, like), for the kinds that have an override.
CanReshardLike(x, like) ==
    \/ like.kind = "split" /\ CanReshardSplit(x, like.dim)
    \/ like.kind = "replicated" /\ x.kind # "split"
    \/ like.kind = "tensor" /\ x.kind \in {"replicated", "split"}
reshard_like(x, like) ==
    CASE like.kind = "split" -> reshard_split(x, like.dim)
      [] like.kind = "replicated" -> replicate(x)
      [] like.kind = "tensor" -> Plain(unshard(x))

\* add_to_archive and create: a split or unreduced tensor saves every shard
\* under its rank and rebuilds itself from the shape, the split dimension and
\* the shards in the order of their ranks; a replicated tensor saves its first
\* replica and the count, and copies it when loaded.
Archived(x) ==
    [type |-> x.kind, count |-> Len(x.ts), dim |-> x.dim,
     raw |-> IF x.kind = "replicated" THEN <<x.ts[1]>> ELSE x.ts]
Created(a) ==
    [kind |-> a.type, dim |-> a.dim,
     ts |-> IF a.type = "replicated" THEN [i \in 1 .. a.count |-> a.raw[1]] ELSE a.raw]

-----------------------------------------------------------------------------
\* The split dimension of each operator's result.  The dimensions that operators
\* are given may be negative, and not every override resolves them.

PermutedDim(x, dims) == dims[x.dim + 1]
TransposedKept(x, d0, d1) == x.dim
TransposedDim(x, d0, d1) ==
    IF x.dim = d0 THEN d1 ELSE IF x.dim = d1 THEN d0 ELSE x.dim
UnflattenedDim(x, d, sizes) == IF d < x.dim THEN x.dim + Len(sizes) - 1 ELSE x.dim
UnsqueezedDim(x, d) ==
    IF x.dim >= Resolve(d, ShapeRank(x) + 1) THEN x.dim + 1 ELSE x.dim
EndResolved(x, end) == IF end = -1 THEN ShapeRank(x) - 1 ELSE end
FlattenedDim(x, start, end) ==
    IF x.dim <= start THEN x.dim ELSE x.dim - (EndResolved(x, end) - start)
FlattensSplit(x, start, end) ==
    /\ x.dim <= start \/ EndResolved(x, end) < x.dim
    /\ x.dim = start => Shape(x)[x.dim + 1] % ShardCount = 0

\* _reshape_get_single_split_dim: the index at which one dimension of a shape
\* is split into several of the other, -1 if the reshape is not of that kind.
\* The suffix is compared through reversed(), iterators that are used up when
\* one shape is a suffix of the other: longest_equal_range then answers 0.  An
\* equal range and suffix that overlap fail an assertion, -1 too.
LongestEqualRange(a, b) ==
    CHOOSE n \in 0 .. Len(a) :
        /\ n <= Len(b) /\ SubSeq(a, 1, n) = SubSeq(b, 1, n)
        /\ n < Len(a) /\ n < Len(b) => a[n + 1] # b[n + 1]
LongestEqualSuffix(a, b) ==
    LET n == LongestEqualRange(Reverse(a), Reverse(b))
    IN IF n = Len(a) \/ n = Len(b) THEN 0 ELSE n
SingleSplitDim(from, to) ==
    LET i == LongestEqualRange(from, to)
        j == Len(to) - LongestEqualSuffix(from, to)
        size == Prod(SubSeq(to, i + 1, j))
    IN IF Len(to) < Len(from) THEN -1
       ELSE IF i = Len(from) THEN i
       ELSE IF i < j /\ (size = 1 \/ size = from[i + 1]) THEN i ELSE -1

\* view_split: the size of the split dimension is divided among the shards.
ViewDim(x, shape) ==
    IF x.dim > SingleSplitDim(Shape(x), shape) THEN x.dim + Len(shape) - ShapeRank(x)
    ELSE x.dim
ViewShard(x, shape) == [shape EXCEPT ![ViewDim(x, shape) + 1] = @ \div ShardCount]
CanView(x, shape) ==
    /\ SingleSplitDim(Shape(x), shape) >= 0
    /\ SingleSplitDim(Shape(x), shape) = x.dim =>
           Shape(x)[x.dim + 1] % ShardCount = 0 /\ shape[x.dim + 1] % ShardCount = 0
    /\ \A i \in DOMAIN x.ts : Prod(x.ts[i].shape) = Prod(ViewShard(x, shape))

-----------------------------------------------------------------------------
\* Binary operators.

\* elementwise of two split tensors, when the constructor accepts the result.
SplitPair(f, x, y) ==
    Split([i \in Shards |-> elementwise(f, x.ts[i], y.ts[i])], x.dim)
SplitPairOK(x, y) ==
    /\ x.dim + MaxOf(ShapeRank(x), ShapeRank(y)) - ShapeRank(x)
         = y.dim + MaxOf(ShapeRank(x), ShapeRank(y)) - ShapeRank(y)
    /\ Broadcastable(Shape(x), Shape(y))
    /\ \A i \in Shards : Broadcastable(x.ts[i].shape, y.ts[i].shape)
    /\ \E r \in {SplitPair("add", x, y)} :
           SplitOK(r) /\ Shape(r) = BroadcastShape(Shape(x), Shape(y))

\* A replicated right operand is used whole where its size along the split
\* dimension is 1 or absent, and is split like the left one elsewhere.
DimInResult(x, y) == x.dim + MaxOf(ShapeRank(x), ShapeRank(y)) - ShapeRank(x)
DimInOperand(x, y) == DimInResult(x, y) - (MaxOf(ShapeRank(x), ShapeRank(y)) - ShapeRank(y))
UsedWhole(x, y) == DimInOperand(x, y) < 0 \/ Shape(y)[DimInOperand(x, y) + 1] = 1

\* The operands after the overrides have resharded them to one kind, <<>> if
\* they raise or there is no override.
Aligned(x, y) ==
    CASE x.kind = "replicated" /\ y.kind \in {"replicated", "unreduced", "tensor"} ->
           <<x, replicate(y)>>
      [] x.kind = "tensor" /\ y.kind = "replicated" -> <<replicate(x), y>>
      [] x.kind = "replicated" /\ y.kind = "split" ->
           IF CanReshardSplit(x, y.dim) THEN <<reshard_split(x, y.dim), y>> ELSE <<>>
      [] x.kind = "split" /\ y.kind = "split" -> <<x, y>>
      [] x.kind = "split" /\ y.kind = "replicated" ->
           IF UsedWhole(x, y) THEN <<x, y>>
           ELSE IF CanReshardSplit(y, x.dim) THEN <<x, reshard_split(y, x.dim)>> ELSE <<>>
      [] x.kind = "split" /\ y.kind = "tensor" ->
           IF CanReshardSplit(y, x.dim) THEN <<x, reshard_split(y, x.dim)>> ELSE <<>>
      [] OTHER -> <<>>

ElementwiseOK(p) ==
    /\ p # <<>>
    /\ p[1].kind = "split" /\ p[2].kind = "split" => SplitPairOK(p[1], p[2])
    /\ p[1].kind = "replicated" => Broadcastable(Shape(p[1]), Shape(p[2]))
ElementwiseSharded(f, p) ==
    CASE p[1].kind = "replicated" ->
           Replicated([i \in Shards |-> elementwise(f, p[1].ts[i], p[2].ts[i])])
      [] p[2].kind = "replicated" ->
           Split([i \in Shards |-> elementwise(f, p[1].ts[i], p[2].ts[i])],
                 DimInResult(p[1], p[2]))
      [] OTHER -> SplitPair(f, p[1], p[2])

\* matmul of a replicated or split left operand and a split matrix.  The
\* product over a dimension split on both sides is left unreduced; columns
\* split on the right are gathered unless the left is replicated.
PerShardMatmul(x, y) == [i \in Shards |-> matmul(x.ts[i], y.ts[i])]
MatmulOK(x, y) ==
    \/ /\ x.kind = "replicated" /\ y.kind = "split"
       /\ y.dim = 0 => \A i \in Shards :
             Size(y.ts[i], 0) = Size(x.ts[1], ShapeRank(x) - 1) \div ShardCount
    \/ x.kind = "split" /\ y.kind \in {"tensor", "replicated"} /\ x.dim < ShapeRank(x) - 1
    \/ x.kind = "tensor" /\ y.kind = "split" /\ y.dim = 1
    \/ /\ x.kind = "split" /\ y.kind = "split"
       /\ \/ /\ x.dim = ShapeRank(x) - 1 /\ y.dim = 0
             /\ \A i \in Shards : Size(x.ts[i], x.dim) = Size(y.ts[i], 0)
          \/ x.dim < ShapeRank(x) - 1 /\ y.dim = 1
MatmulSharded(x, y) ==
    LET last == ShapeRank(x) - 1
    IN CASE x.kind = "replicated" /\ y.dim = 1 ->
              Split(PerShardMatmul(x, y), last)
         [] x.kind = "replicated" /\ y.dim = 0 ->
              Unreduced(PerShardMatmul(reshard_split(x, last), y))
         [] x.kind = "tensor" -> Split(PerShardMatmul(replicate(x), y), last)
         [] x.kind = "split" /\ y.kind = "tensor" -> Split(PerShardMatmul(x, replicate(y)), x.dim)
         [] x.kind = "split" /\ y.kind = "replicated" -> Split(PerShardMatmul(x, y), x.dim)
         [] x.dim = last -> Unreduced(PerShardMatmul(x, y))
         [] OTHER -> Split(PerShardMatmul(x, replicate(y)), x.dim)

\* The linear layers' weight and bias, split by the two specifications of
\* types/sharding.py; the layer multiplies by the transposed weight.
LinearSplitParallel(w, b) == [weight |-> SplitTensor(w, 0), bias |-> SplitTensor(b, 0)]
LinearSplitReductionDim(w) == [weight |-> SplitTensor(w, 1)]
TransposedWeight(w) ==
    Split([i \in Shards |-> permute(w.ts[i], <<1, 0>>)], PermutedDim(w, <<1, 0>>))
FFNSharding(gate, up, down) ==
    [ffn_gate |-> SplitTensor(gate, 0), ffn_up |-> SplitTensor(up, 0),
     ffn_down |-> SplitTensor(down, 1)]

-----------------------------------------------------------------------------
\* Programs.

ShardInit ==
    /\ whole = Arange(<<1>>, 0)
    /\ sharded = Plain(whole)
    /\ shardOps = 0
    /\ beyond = {}

BecomesBy(uses, x, t) ==
    /\ Constructs(x)
    /\ sharded' = x
    /\ whole' = t
    /\ shardOps' = shardOps + 1
    /\ beyond' = uses
Becomes(x, t) == BecomesBy({}, x, t)

\* The uses an override accepts and may get wrong: a dimension that it takes for
\* another one or does not find to be the split one, for it is negative; a
\* permutation that moves the split dimension elsewhere; a replicated tensor that
\* is split along a dimension whose size the shard count does not divide.
Misread(taken, meant) == IF taken = meant THEN {} ELSE {"negative"}
Misplaced(x, dims) ==
    IF PermutedDim(x, dims) = (CHOOSE i \in DOMAIN dims : dims[i] = x.dim) - 1
    THEN {} ELSE {"permute"}
Uneven(x, d) ==
    IF x.kind = "replicated" /\ Size(x.ts[1], d) % ShardCount # 0 THEN {"uneven"} ELSE {}

\* Operators with an override for replicated tensors.
ReplicatedOps ==
    {"elementwise", "flatten", "index_select", "mean", "permute", "repeat",
     "to", "unsqueeze", "view_as_real", "getitem", "gather"}

\* An operator applied shard by shard.
PerShardBy(uses, op, ok, dim, t, F(_)) ==
    /\ sharded.kind \in {"split", "replicated"}
    /\ sharded.kind = "replicated" => op \in ReplicatedOps
    /\ sharded.kind = "split" => ok
    /\ BecomesBy(IF sharded.kind = "split" THEN uses ELSE {},
                 [sharded EXCEPT !.ts = [i \in DOMAIN @ |-> F(@[i])],
                                 !.dim = IF sharded.kind = "split" THEN dim ELSE 0], t)
PerShard(op, ok, dim, t, F(_)) == PerShardBy({}, op, ok, dim, t, F)

Dims == 0 .. Rank(whole) - 1
SignedDims == - Rank(whole) .. Rank(whole) - 1
Positive(d) == Resolve(d, Rank(whole))

Load == \E shape \in Shapes :
    /\ shardOps = 0
    /\ Becomes(Plain(Arange(shape, 0)), Arange(shape, 0))

\* reshard, reshard_split, replicate and unshard.
Reshard ==
    /\ \/ \E d \in Dims :
            /\ CanReshardSplit(sharded, d)
            /\ BecomesBy(Uneven(sharded, d), reshard_split(sharded, d), whole)
       \/ Becomes(replicate(sharded), whole)
       \/ Becomes(Plain(unshard(sharded)), whole)

\* reshard_like: the value takes the sharding of another tensor of its shape.
ReshardLike ==
    \E like \in {Plain(whole), replicate(Plain(whole))}
                \cup {SplitTensor(whole, d) : d \in {e \in Dims : SplitsEvenly(whole, e)}} :
        /\ CanReshardLike(sharded, like)
        /\ BecomesBy(IF like.kind = "split" THEN Uneven(sharded, like.dim) ELSE {},
                     reshard_like(sharded, like), whole)

SaveAndLoad ==
    /\ sharded.kind # "tensor"
    /\ Becomes(Created(Archived(sharded)), whole)

Permute == \E dims \in {p \in Perms : Len(p) = Rank(whole)} :
    PerShardBy(Misplaced(sharded, dims), "permute", TRUE, PermutedDim(sharded, dims),
               permute(whole, dims), LAMBDA t : permute(t, dims))

Transpose == \E d0, d1 \in SignedDims :
    PerShardBy(Misread(TransposedDim(sharded, d0, d1),
                       TransposedDim(sharded, Positive(d0), Positive(d1))),
               "transpose", TRUE, TransposedDim(sharded, d0, d1),
               transpose(whole, Positive(d0), Positive(d1)),
               LAMBDA t : transpose(t, Positive(d0), Positive(d1)))

Flatten == \E start, end \in SignedDims :
    LET first == Positive(start)
        last == Positive(end)
    IN /\ first <= last
       /\ PerShardBy(Misread(<<TRUE, FlattenedDim(sharded, start, end)>>,
                             <<FlattensSplit(sharded, first, last), FlattenedDim(sharded, first, last)>>),
                     "flatten", FlattensSplit(sharded, start, end),
                     FlattenedDim(sharded, start, end), flatten(whole, first, last),
                     LAMBDA t : flatten(t, first, last))

Unflatten == \E d \in {e \in SignedDims : Size(whole, Positive(e)) = 4} :
    PerShardBy(Misread(<<d # sharded.dim, UnflattenedDim(sharded, d, <<2, 2>>)>>,
                       <<Positive(d) # sharded.dim, UnflattenedDim(sharded, Positive(d), <<2, 2>>)>>),
               "unflatten", d # sharded.dim, UnflattenedDim(sharded, d, <<2, 2>>),
               unflatten(whole, Positive(d), <<2, 2>>),
               LAMBDA t : unflatten(t, Positive(d), <<2, 2>>))

Unsqueeze == \E d \in - Rank(whole) - 1 .. Rank(whole) :
    PerShard("unsqueeze", TRUE, UnsqueezedDim(sharded, d), unsqueeze(whole, d),
             LAMBDA t : unsqueeze(t, d))

\* view, and reshape where it splits a dimension: of 4 in two, or inserts a 1.
View == \E d \in Dims, sizes \in {<<2, 2>>, <<4, 1>>, <<1, 4>>} :
    /\ Size(whole, d) = 4
    /\ \E shape \in {unflatten(whole, d, sizes).shape} :
           PerShard("view", CanView(sharded, shape), ViewDim(sharded, shape),
                    view(whole, shape), LAMBDA t : view(t, ViewShard(sharded, shape)))

\* reshape where it merges dimensions: flatten of the range it finds.
ReshapeFlattens == \E start, end \in Dims :
    /\ start < end
    /\ \E to \in {flatten(whole, start, end).shape} :
           LET at == SingleSplitDim(to, Shape(sharded))
               last == at + Rank(whole) - Len(to)
           IN /\ sharded.kind = "split" /\ at >= 0 /\ last < Rank(whole)
              /\ PerShard("reshape", FlattensSplit(sharded, at, last),
                          FlattenedDim(sharded, at, last), view(whole, to),
                          LAMBDA t : flatten(t, at, last))

\* Expand a dimension of size 1; every shard keeps its size along its own.
Expand == \E d \in {e \in Dims : Size(whole, e) = 1} :
    PerShard("expand", d # sharded.dim, sharded.dim, expand(whole, WithSize(whole.shape, d, 2)),
             LAMBDA t : expand(t, WithSize(WithSize(whole.shape, d, 2), sharded.dim,
                                           Size(t, sharded.dim))))

IndexSelect == \E d \in SignedDims :
    PerShardBy(Misread(d # sharded.dim, Positive(d) # sharded.dim), "index_select",
               d # sharded.dim, sharded.dim, index_select(whole, Positive(d), <<0, 0>>),
               LAMBDA t : index_select(t, Positive(d), <<0, 0>>))

IndexCopy == \E d \in SignedDims, y \in {Arange(WithSize(whole.shape, d, 1), 50) : d \in Dims} :
    /\ sharded.kind = "split" /\ sharded.dim # d
    /\ y.shape = WithSize(whole.shape, Positive(d), 1) /\ SplitsEvenly(y, sharded.dim)
    /\ \E src \in {SplitTensor(y, sharded.dim)} :
           /\ \A i \in Shards : Size(src.ts[i], sharded.dim) = Size(sharded.ts[i], sharded.dim)
           /\ BecomesBy(Misread(TRUE, Positive(d) # sharded.dim),
                        Split([i \in Shards |-> index_copy(sharded.ts[i], Positive(d), <<0>>, src.ts[i])],
                              sharded.dim), index_copy(whole, Positive(d), <<0>>, y))

\* x[..., i, ...]: an index before the split dimension moves it, if it is not
\* negative.
GetItem == \E d \in Dims, i \in {0, -1} :
    /\ Rank(whole) > 1
    /\ \E at \in {Resolve(i, Size(whole, d))} :
           PerShardBy(Misread(d < sharded.dim /\ i >= 0, d < sharded.dim), "getitem",
                      d # sharded.dim,
                      IF d < sharded.dim /\ i >= 0 THEN sharded.dim - 1 ELSE sharded.dim,
                      Select(whole, d, at), LAMBDA t : Select(t, d, at))

CatSelf == \E d \in SignedDims :
    LET twice(t) == cat(<<t, t>>, Positive(d))
        each == [i \in DOMAIN sharded.ts |-> twice(sharded.ts[i])]
    IN \/ sharded.kind = "replicated" /\ Becomes(Replicated(each), twice(whole))
       \/ sharded.kind = "split" /\ d # sharded.dim
          /\ BecomesBy(Misread(TRUE, Positive(d) # sharded.dim),
                       Split(each, sharded.dim), twice(whole))
       \/ sharded.kind = "split" /\ d = sharded.dim
          /\ \E t \in {cat(sharded.ts \o sharded.ts, d)} :
                 SplitsEvenly(t, d) /\ Becomes(SplitTensor(t, d), twice(whole))

\* mean, which has no override for split tensors.
Mean == \E d \in {-1} \cup Dims :
    PerShard("mean", FALSE, sharded.dim, mean(whole, d), LAMBDA t : mean(t, d))

\* elementwise of one tensor, softmax and repeat.
Unary ==
    \/ PerShard("elementwise", TRUE, sharded.dim, elementwise_unary(whole), elementwise_unary)
    \/ \E d \in {-1} \cup Dims :
           PerShard("softmax", Resolve(d, Rank(whole)) # sharded.dim, sharded.dim,
                    softmax(whole, d), LAMBDA t : softmax(t, d))
    \/ \E d \in Dims :
           PerShard("repeat", FALSE, sharded.dim, repeat(whole, d, 2), LAMBDA t : repeat(t, d, 2))

\* The second operand of a binary operator: of a shape that broadcasts with the
\* value's, and of any kind.
Operands ==
    LET shapes == {whole.shape, SubSeq(whole.shape, Rank(whole), Rank(whole)),
                   WithSize(whole.shape, 0, 1), <<1>> \o whole.shape}
        tensors == {Arange(s, 50) : s \in shapes}
    IN {Plain(t) : t \in tensors} \cup {replicate(Plain(t)) : t \in tensors}
       \cup {SplitTensor(a[1], a[2]) : a \in
                {b \in tensors \X (0 .. 3) : b[2] < Rank(b[1]) /\ SplitsEvenly(b[1], b[2])}}
       \cup {Unreduced([i \in Shards |-> t]) : t \in tensors}

Binary == \E y \in Operands :
    /\ sharded.kind # "tensor" \/ y.kind # "tensor"
    /\ \E p \in {Aligned(sharded, y)} :
           /\ ElementwiseOK(p)
           /\ Becomes(ElementwiseSharded("add", p), elementwise("add", whole, unshard(y)))

\* matmul with a matrix of any kind, and the two linear layers of a sharded
\* model: columns split with a bias, then the reduction dimension.
Columns == 4
Matrix == Arange(<<whole.shape[Rank(whole)], Columns>>, 20)
Matmul == \E y \in {Plain(Matrix), replicate(Plain(Matrix))}
                  \cup {SplitTensor(Matrix, d) : d \in {e \in 0 .. 1 : SplitsEvenly(Matrix, e)}} :
    /\ Rank(whole) > 1
    /\ sharded.kind # "tensor" \/ y.kind # "tensor"
    /\ MatmulOK(sharded, y)
    /\ Becomes(MatmulSharded(sharded, y), matmul(whole, Matrix))

\* LinearLayer over a replicated input, split by output features.
Linear == \E w \in {Arange(<<Columns, whole.shape[Rank(whole)]>>, 30)}, b \in {Arange(<<Columns>>, 40)} :
    /\ sharded.kind = "replicated" /\ Rank(whole) > 1
    /\ \E theta \in {LinearSplitParallel(w, b)} :
           \E p \in {Aligned(MatmulSharded(sharded, TransposedWeight(theta.weight)), theta.bias)} :
               /\ ElementwiseOK(p)
               /\ Becomes(ElementwiseSharded("add", p), linear(whole, w, b))

\* FFN.forward: the gate and up projections split by columns, their product
\* projected down over the split dimension, then added to the residual.
Feed == \E gate \in {Arange(<<Columns, whole.shape[Rank(whole)]>>, 30)},
           up \in {Arange(<<Columns, whole.shape[Rank(whole)]>>, 60)},
           down \in {Arange(<<whole.shape[Rank(whole)], Columns>>, 90)} :
    /\ sharded.kind = "replicated" /\ Rank(whole) > 1
    /\ \E theta \in {FFNSharding(gate, up, down)} :
         LET g == MatmulSharded(sharded, TransposedWeight(theta.ffn_gate))
             act == Split([i \in Shards |-> elementwise_unary(g.ts[i])], g.dim)
             u == MatmulSharded(sharded, TransposedWeight(theta.ffn_up))
             hidden == SplitPair("mul", act, u)
             out == MatmulSharded(hidden, TransposedWeight(theta.ffn_down))
             wholeHidden == elementwise("mul", elementwise_unary(matmul(whole, Mt(gate))),
                                        matmul(whole, Mt(up)))
         IN Becomes(ElementwiseSharded("add", Aligned(sharded, out)),
                    elementwise("add", whole, matmul(wholeHidden, Mt(down))))

\* The layers that work on channels: a convolution split by output channels over
\* an input that is whole, replicated or gathered, and a group norm of a value
\* split by channels.
Convolve ==
    /\ Rank(whole) = 3
    /\ sharded.kind \in {"tensor", "replicated"} \/ (sharded.kind = "split" /\ sharded.dim = 1)
    /\ LET input == replicate(sharded)
           w == Arange(<<Columns, Size(whole, 1)>>, 30)
           b == Arange(<<Columns>>, 40)
       IN Becomes(Split([i \in Shards |-> conv2d(input.ts[i], SplitTensor(w, 0).ts[i],
                                                SplitTensor(b, 0).ts[i])], 1),
                  conv2d(whole, w, b))

GroupNorm == \E groups \in 1 .. 4 :
    /\ Rank(whole) = 3 /\ sharded.kind = "split" /\ sharded.dim = 1
    /\ Size(whole, 1) % groups = 0 /\ groups % ShardCount = 0
    /\ \E w \in {Arange(<<Size(whole, 1)>>, 30)} : Becomes(Split([i \in Shards |-> group_norm_affine(sharded.ts[i],
                         SplitTensor(w, 0).ts[i], SplitTensor(w, 0).ts[i],
                         groups \div ShardCount)], 1),
               group_norm_affine(whole, w, w, groups))

\* layer_norm of a value split along a dimension it does not normalise, rms_norm
\* of a replicated one, and attention of queries, keys and values split alike: along
\* a batch dimension or, for the check lets that pass, along the sequence, where
\* each shard attends to its own keys only.
Norms == \E w \in {Arange(<<whole.shape[Rank(whole)]>>, 30)} :
    \/ PerShard("layer_norm", sharded.dim < Rank(whole) - 1, sharded.dim,
                layer_norm(whole, w, w), LAMBDA t : layer_norm(t, w, w))
    \/ /\ sharded.kind = "replicated"
       /\ Becomes(Replicated([i \in Shards |-> rms_norm(sharded.ts[i], w)]), rms_norm(whole, w))

Attention ==
    /\ Rank(whole) = 3 /\ sharded.kind = "split"
    /\ sharded.dim <= Rank(whole) - 2
    /\ BecomesBy(IF sharded.dim = Rank(whole) - 2 THEN {"attention"} ELSE {},
                 Split([i \in Shards |-> scaled_dot_product_attention(
                            sharded.ts[i], sharded.ts[i], sharded.ts[i])], sharded.dim),
                 scaled_dot_product_attention(whole, whole, whole))

ShardNext ==
    \/ Load
    \/ /\ shardOps \in 1 .. MaxShardOps - 1 /\ beyond = {}
       /\ \/ Reshard \/ ReshardLike \/ SaveAndLoad \/ Permute \/ Transpose \/ Flatten \/ Unflatten
          \/ Unsqueeze \/ View \/ ReshapeFlattens \/ Expand \/ IndexSelect \/ IndexCopy
          \/ GetItem \/ CatSelf \/ Mean \/ Unary \/ Binary \/ Matmul \/ Linear \/ Feed
          \/ Convolve \/ GroupNorm \/ Norms \/ Attention

-----------------------------------------------------------------------------
\* Gathering the value gives what the program computes on one device, and every
\* replica holds all of it.
GathersWhole ==
    /\ unshard(sharded) = whole
    /\ sharded.kind = "replicated" => \A i \in DOMAIN sharded.ts : sharded.ts[i] = whole

\* Whatever operators a program applied and however the value was split,
\* replicated or left unreduced in between, gathering it gives exactly what the
\* program computes on one device: all that an override accepts, it computes
\* rightly, but for four uses.  They are a permutation that moves the split dimension
\* to another place than dims says of it (sharded_impls.py:867), attention split
\* along the sequence (:826), a replicated tensor split along a size that the shard
\* count does not divide (:1010), and a negative dimension or index that the
\* override does not resolve (:100, :465, :578, :1147, :1158, tensors.py:1076).
ShardingTransparent == beyond = {} => GathersWhole

\* signatures.py:695: "The semantics are the same as torch.permute."  The program may
\* permute a split tensor in any way.
PermuteTransparent == beyond \subseteq {"permute"} => GathersWhole
=============================================================================
