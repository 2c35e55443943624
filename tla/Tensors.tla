------------------------------ MODULE Tensors -------------------------------
(***************************************************************************)
(* Dense tensors and the unsharded implementations of sharktank's operators *)
(* (sharktank/ops/default_impls.py), each one call of torch.               *)
(*                                                                         *)
(* A tensor is its shape and its elements in row-major order, so a reshape *)
(* keeps the elements.  Elements are integers modulo Ring, a ring in which *)
(* sums and products of different operands are told apart; a nonlinear     *)
(* row operation (softmax, a norm) is any function of the row, here the    *)
(* element plus a multiple of the row's sum.  Dimensions count from 0.     *)
(***************************************************************************)
EXTENDS Integers, Sequences, SequencesExt

Ring == 9973

Rank(t) == Len(t.shape)
Size(t, d) == t.shape[d + 1]
Prod(shape) ==
    LET p[i \in 0 .. Len(shape)] == IF i = 0 THEN 1 ELSE p[i - 1] * shape[i]
    IN p[Len(shape)]
SumOf(s) ==
    LET p[i \in 0 .. Len(s)] == IF i = 0 THEN 0 ELSE (p[i - 1] + s[i]) % Ring
    IN p[Len(s)]
Stride(shape, i) == Prod(SubSeq(shape, i + 1, Len(shape)))

\* The element at coordinates c, and the tensor whose elements are F of theirs.
At(t, c) ==
    LET offset[i \in 0 .. Rank(t)] ==
            IF i = 0 THEN 0 ELSE offset[i - 1] * t.shape[i] + c[i]
    IN t.data[1 + offset[Rank(t)]]
Build(shape, F(_)) ==
    LET stride == [i \in 1 .. Len(shape) |-> Stride(shape, i)]
        coord(k) == [i \in 1 .. Len(shape) |-> (k \div stride[i]) % shape[i]]
    IN [shape |-> shape, data |-> [k \in 1 .. Prod(shape) |-> F(coord(k - 1))]]

\* A tensor of distinct elements.
Arange(shape, from) ==
    [shape |-> shape, data |-> [k \in 1 .. Prod(shape) |-> from + k]]

\* A shape with one size replaced, without one, or with another inserted.
WithSize(shape, d, n) == [shape EXCEPT ![d + 1] = n]
With(c, d, n) == [c EXCEPT ![d + 1] = n]
Resolve(d, rank) == IF d < 0 THEN d + rank ELSE d

-----------------------------------------------------------------------------
\* torch.permute: dimension i of the result is dimension dims[i] of the tensor.
permute(t, dims) ==
    LET from(c) == [j \in 1 .. Rank(t) |->
                       c[CHOOSE i \in 1 .. Rank(t) : dims[i] = j - 1]]
    IN Build([i \in 1 .. Rank(t) |-> t.shape[dims[i] + 1]], LAMBDA c : At(t, from(c)))

transpose(t, d0, d1) ==
    permute(t, [i \in 1 .. Rank(t) |-> IF i - 1 = d0 THEN d1
                                       ELSE IF i - 1 = d1 THEN d0 ELSE i - 1])

view(t, shape) == [shape |-> shape, data |-> t.data]

flatten(t, start, end) ==
    LET e == Resolve(end, Rank(t))
    IN view(t, SubSeq(t.shape, 1, start)
               \o <<Prod(SubSeq(t.shape, start + 1, e + 1))>>
               \o SubSeq(t.shape, e + 2, Rank(t)))

unflatten(t, d, sizes) ==
    view(t, SubSeq(t.shape, 1, d) \o sizes \o SubSeq(t.shape, d + 2, Rank(t)))

unsqueeze(t, d) ==
    LET r == Resolve(d, Rank(t) + 1)
    IN view(t, SubSeq(t.shape, 1, r) \o <<1>> \o SubSeq(t.shape, r + 1, Rank(t)))

\* torch.cat of two tensors, and of a sequence of them.
Cat2(a, b, d) ==
    Build(WithSize(a.shape, d, Size(a, d) + Size(b, d)),
          LAMBDA c : IF c[d + 1] < Size(a, d) THEN At(a, c)
                     ELSE At(b, With(c, d, c[d + 1] - Size(a, d))))
cat(ts, d) == FoldLeft(LAMBDA a, b : Cat2(a, b, d), ts[1], Tail(ts))

\* t[..., start:start+n, ...] along dimension d.
Narrow(t, d, start, n) ==
    Build(WithSize(t.shape, d, n), LAMBDA c : At(t, With(c, d, start + c[d + 1])))

\* t[i] along dimension d, which disappears.
Select(t, d, i) ==
    Build(SubSeq(t.shape, 1, d) \o SubSeq(t.shape, d + 2, Rank(t)),
          LAMBDA c : At(t, SubSeq(c, 1, d) \o <<i>> \o SubSeq(c, d + 1, Len(c))))

index_select(t, d, index) ==
    Build(WithSize(t.shape, d, Len(index)),
          LAMBDA c : At(t, With(c, d, index[c[d + 1] + 1])))

\* inout.index_copy_(d, index, src): the slices of src at the indices.
index_copy(t, d, index, src) ==
    Build(t.shape, LAMBDA c :
        IF \E i \in 1 .. Len(index) : index[i] = c[d + 1]
        THEN At(src, With(c, d, (CHOOSE i \in 1 .. Len(index) : index[i] = c[d + 1]) - 1))
        ELSE At(t, c))

expand(t, shape) ==
    Build(shape, LAMBDA c :
        At(t, [i \in 1 .. Len(c) |-> IF t.shape[i] = 1 THEN 0 ELSE c[i]]))

\* input.repeat(n along dimension d).
repeat(t, d, n) ==
    Build(WithSize(t.shape, d, n * Size(t, d)),
          LAMBDA c : At(t, With(c, d, c[d + 1] % Size(t, d))))

-----------------------------------------------------------------------------
\* Operators that compute.

MaxOf(a, b) == IF a > b THEN a ELSE b

\* The shape two operands broadcast to, and the element one contributes.
BroadcastShape(a, b) ==
    LET n == MaxOf(Len(a), Len(b))
        size(s, i) == IF i <= n - Len(s) THEN 1 ELSE s[i - (n - Len(s))]
    IN [i \in 1 .. n |-> MaxOf(size(a, i), size(b, i))]
Broadcastable(a, b) ==
    LET s == BroadcastShape(a, b)
        n == Len(s)
    IN /\ \A i \in 1 .. Len(a) : a[i] \in {1, s[i + n - Len(a)]}
       /\ \A i \in 1 .. Len(b) : b[i] \in {1, s[i + n - Len(b)]}
Operand(t, c) ==
    At(t, [i \in 1 .. Rank(t) |->
              IF t.shape[i] = 1 THEN 0 ELSE c[i + Len(c) - Rank(t)]])

elementwise_unary(t) == [t EXCEPT !.data = [k \in DOMAIN t.data |-> (t.data[k] * t.data[k] + 1) % Ring]]
elementwise(f, a, b) ==
    Build(BroadcastShape(a.shape, b.shape), LAMBDA c :
        (IF f = "add" THEN Operand(a, c) + Operand(b, c)
         ELSE Operand(a, c) * Operand(b, c)) % Ring)

\* The sum of the row through c along dimension d.
RowSum(t, c, d) == SumOf([i \in 1 .. Size(t, d) |-> At(t, With(c, d, i - 1))])
softmax(t, d) ==
    Build(t.shape, LAMBDA c : (At(t, c) + 7 * RowSum(t, c, Resolve(d, Rank(t)))) % Ring)
mean(t, d) ==  \* keepdim=True
    Build(WithSize(t.shape, Resolve(d, Rank(t)), 1), LAMBDA c :
        RowSum(t, c, Resolve(d, Rank(t))))

\* layer_norm over the last dimension, with its weight and bias.
layer_norm(t, w, b) ==
    elementwise("add", elementwise("mul", softmax(t, Rank(t) - 1), w), b)

\* rms_norm: mean of the squares of the row, then the weight.
rms_norm(t, w) ==
    elementwise("mul", w, elementwise("mul", t, mean(elementwise("mul", t, t), -1)))

\* group_norm over dimension 1 split in groups, with its weight and bias.
group_norm_affine(t, w, b, groups) ==
    LET per == Size(t, 1) \div groups
        first(c) == (c[2] \div per) * per
        group(c) == SumOf([i \in 1 .. per |-> RowSum(t, With(c, 1, first(c) + i - 1), 2)])
    IN Build(t.shape, LAMBDA c :
           ((At(t, c) + 7 * group(c)) * w.data[c[2] + 1] + b.data[c[2] + 1]) % Ring)

\* matmul: a stack of rows times a matrix, or two stacks of matrices.
matmul(a, b) ==
    LET n == Size(a, Rank(a) - 1)
        rows(c) == SubSeq(c, 1, Rank(a) - 1)
        col(c) == c[Len(c)]
        batch(c) == IF Rank(b) = 2 THEN <<>> ELSE SubSeq(c, 1, Rank(b) - 2)
    IN Build(SubSeq(a.shape, 1, Rank(a) - 1) \o <<Size(b, Rank(b) - 1)>>, LAMBDA c :
           SumOf([k \in 1 .. n |->
               (At(a, Append(rows(c), k - 1))
                * At(b, batch(c) \o <<k - 1, col(c)>>)) % Ring]))

Mt(t) == transpose(t, Rank(t) - 2, Rank(t) - 1)
linear(x, w, b) == elementwise("add", matmul(x, Mt(w)), b)

\* conv2d with a 1x1 kernel: channels are dimension 1 of the input.
conv2d(x, w, b) ==
    Build(WithSize(x.shape, 1, Size(w, 0)), LAMBDA c :
        SumOf([k \in 1 .. Size(w, 1) |->
                  (At(x, With(c, 1, k - 1)) * At(w, <<c[2], k - 1>>)) % Ring]
              \o <<b.data[c[2] + 1]>>))

scaled_dot_product_attention(q, k, v) == matmul(softmax(matmul(q, Mt(k)), -1), v)

\* F.embedding: rows of the matrix.
embedding_lookup(ids, m) ==
    Build(Append(ids.shape, Size(m, 1)), LAMBDA c :
        At(m, <<At(ids, SubSeq(c, 1, Len(c) - 1)), c[Len(c)]>>))
=============================================================================
