------------------------------ MODULE QuantOps ------------------------------
(***************************************************************************)
(* Quantized tensors: the layouts of sharktank/types/layouts.py, the bit   *)
(* packings of types/layout_utils.py, the GGUF block formats of            *)
(* types/gguf_interop/layouts.py, the quantizers of types/quantizers.py,   *)
(* and the integer kernels of ops/qlinear_impls.py and ops/qconv_impls.py. *)
(*                                                                         *)
(* A tensor is read from a GGUF block or quantized, and goes through a     *)
(* program of operators.  Beside it goes the value it stands for, as the   *)
(* format defines it and as unquantized operators would transform it.      *)
(* Scales are positive integers, so that scaling is exact; a real division *)
(* happens in a quantizer only.  Values compare modulo Tensors!Ring.       *)
(***************************************************************************)
EXTENDS Tensors

CONSTANTS
    RawBlocks,    \* GGUF tensors: [type, shape, blocks]
    Inputs,       \* unquantized ones: [type |-> "dense", t |-> integer tensor]
    Quantizers,   \* how an activation is quantized: [d, m, axis]
    Weights,      \* the right operands: [t, quantizer, bias], see QLinear
    MaxQuantOps   \* the length of the programs explored

VARIABLES
    source,       \* the GGUF block or the unquantized tensor
    layout,       \* the quantized tensor's layout, or a plain tensor
    value,        \* the tensor it stands for
    misfixed,     \* the wrong corrections applied: "linear" or "padding"
    quantOps      \* the number of operators applied

quantVars == <<source, layout, value, misfixed, quantOps>>

NoneTensor == [shape |-> <<>>, data |-> <<>>]
Scalar(x) == [shape |-> <<>>, data |-> <<x>>]
Neg(t) == [t EXCEPT !.data = [k \in DOMAIN t.data |-> (0 - t.data[k]) % Ring]]
Add(a, b) == elementwise("add", a, b)
Sub(a, b) == elementwise("add", a, Neg(b))
Mul(a, b) == elementwise("mul", a, b)
Reduced(t) == [t EXCEPT !.data = [k \in DOMAIN t.data |-> t.data[k] % Ring]]
SumKeep(t, d) == Build(WithSize(t.shape, d, 1), LAMBDA c : RowSum(t, c, d))

-----------------------------------------------------------------------------
\* layout_utils: bytes and the small integers packed in them.
Low(b) == b % 16
High(b) == b \div 16
Byte(lo, hi) == lo + 16 * hi

\* linearize_interleaved_i4_block: low nibbles first, then the high ones.
PairUp(s) == [i \in 1 .. Len(s) \div 2 |-> Byte(s[2 * i - 1], s[2 * i])]
LowNibbles(bs) == [i \in 1 .. Len(bs) |-> Low(bs[i])]
HighNibbles(bs) == [i \in 1 .. Len(bs) |-> High(bs[i])]
KeepInterleaved(bs) == bs
LinearizeI4(bs) == PairUp(LowNibbles(bs)) \o PairUp(HighNibbles(bs))

\* promote_linear_i4_block_to_i8 (unsigned), and the same for 2 bits; a 6 bit
\* value is a nibble and the 2 bits above it.
PromoteI4(bs) ==
    [k \in 1 .. 2 * Len(bs) |->
        IF k % 2 = 1 THEN Low(bs[(k + 1) \div 2]) ELSE High(bs[k \div 2])]
PromoteI2(bs) ==
    [k \in 1 .. 4 * Len(bs) |->
        (bs[(k - 1) \div 4 + 1] \div <<1, 4, 16, 64>>[((k - 1) % 4) + 1]) % 4]
PromoteI6(high, low) ==
    [k \in 1 .. 2 * Len(low) |-> PromoteI4(low)[k] + 16 * PromoteI2(high)[k]]

\* saturate_cast to int8: torch.round goes to the even neighbour of a half.
RoundDiv(t, d) ==
    LET q == (2 * t + d) \div (2 * d)
    IN IF (2 * t + d) % (2 * d) = 0 /\ q % 2 = 1 THEN q - 1 ELSE q
SaturateInt8(q) == IF q > 127 THEN 127 ELSE IF q < -128 THEN -128 ELSE q

-----------------------------------------------------------------------------
\* The layouts.  The elements of a block layout are rows of equal blocks, each
\* with its scale.
TensorScaled(d, m, qs) == [type |-> "TensorScaledLayout", d |-> d, m |-> m, qs |-> qs]
BlockScaled(shape, d, qs) ==
    [type |-> "BlockScaledLayout", shape |-> shape, d |-> d, qs |-> qs]
BlockScaledI4(shape, d, m, qs) ==
    [type |-> "BlockScaledI4Layout", shape |-> shape, d |-> d, m |-> m, qs |-> qs]
SuperBlock(shape, d, dmin, scales, mins, qs) ==
    [type |-> "SuperBlockOffsetScaled_4_6_Layout", shape |-> shape, d |-> d,
     dmin |-> dmin, sb_scales |-> scales, sb_mins |-> mins, qs |-> qs]
PlainLayout(t) == [type |-> "tensor", t |-> t]

HasOffset(l) == l.m # NoneTensor

\* A tensor from one sequence of elements per block.
FromBlocks(shape, blocks) ==
    [shape |-> shape, data |-> FlattenSeq(blocks)]

Dequant(l) ==
    CASE l.type = "tensor" -> l.t
      [] l.type = "TensorScaledLayout" ->
           Mul(IF HasOffset(l) THEN Sub(l.qs, l.m) ELSE l.qs, l.d)
      [] l.type = "BlockScaledLayout" ->
           FromBlocks(l.shape, [b \in DOMAIN l.qs |->
               [k \in DOMAIN l.qs[b] |-> (l.d[b] * l.qs[b][k]) % Ring]])
      [] l.type = "BlockScaledI4Layout" ->
           FromBlocks(l.shape, [b \in DOMAIN l.qs |->
               LET q == PromoteI4(l.qs[b])
               IN [k \in DOMAIN q |-> (l.d[b] * q[k] + l.m[b]) % Ring]])
      [] l.type = "SuperBlockOffsetScaled_4_6_Layout" ->
           FromBlocks(l.shape, [b \in DOMAIN l.qs |->
               LET scales == PromoteI6(l.sb_scales[b].high, l.sb_scales[b].low)
                   mins == PromoteI6(l.sb_mins[b].high, l.sb_mins[b].low)
                   q == PromoteI4(l.qs[b])
                   sub(k) == (k - 1) \div (Len(q) \div 8) + 1
               IN [k \in DOMAIN q |->
                      (l.d[b] * scales[sub(k)] * q[k] - l.dmin[b] * mins[sub(k)]) % Ring]])

-----------------------------------------------------------------------------
\* GGUF.  A raw tensor is a sequence of blocks.

\* _unpack_gguf_i6_scale_mins: 16 values of 6 bits from 12 bytes (raw[0..11] is
\* b[1..12]), as planes of nibbles and of the two bits above.
Bits(b, shift) == (b \div shift) % 4
TwoBits(b, first, shift) ==
    Bits(b[first], shift) + 4 * Bits(b[first + 1], shift)
    + 16 * Bits(b[first + 2], shift) + 64 * Bits(b[first + 3], shift)
UnpackScales(b) ==
    [low |-> <<Byte(Low(b[1]), Low(b[2])), Byte(Low(b[3]), Low(b[4])),
               Byte(Low(b[9]), Low(b[10])), Byte(Low(b[11]), Low(b[12]))>>,
     high |-> <<TwoBits(b, 1, 16), TwoBits(b, 1, 64)>>]
UnpackMins(b) ==
    [low |-> <<Byte(Low(b[5]), Low(b[6])), Byte(Low(b[7]), Low(b[8])),
               Byte(High(b[9]), High(b[10])), Byte(High(b[11]), High(b[12]))>>,
     high |-> <<TwoBits(b, 5, 16), TwoBits(b, 5, 64)>>]

\* Q4_K.unpack: the bytes hold four pairs of sub-blocks, the low nibbles of a
\* pair's bytes the first and the high nibbles the second.
Quarter(s, g) == SubSeq(s, (g - 1) * (Len(s) \div 4) + 1, g * (Len(s) \div 4))
UnpackQ4K(r) ==
    LET part(f(_)) == [b \in DOMAIN r.blocks |-> f(r.blocks[b])]
    IN SuperBlock(r.shape, part(LAMBDA x : x.d), part(LAMBDA x : x.m),
                  part(LAMBDA x : UnpackScales(x.scales)),
                  part(LAMBDA x : UnpackMins(x.scales)),
                  part(LAMBDA x : FlattenSeq([g \in 1 .. 4 |-> LinearizeI4(Quarter(x.qs, g))])))
UnpackQ41(r) ==
    LET part(f(_)) == [b \in DOMAIN r.blocks |-> f(r.blocks[b])]
    IN BlockScaledI4(r.shape, part(LAMBDA x : x.d), part(LAMBDA x : x.m),
                     part(LAMBDA x : LinearizeI4(x.qs)))
UnpackQ80(r) ==
    LET part(f(_)) == [b \in DOMAIN r.blocks |-> f(r.blocks[b])]
    IN BlockScaled(r.shape, part(LAMBDA x : x.d), part(LAMBDA x : x.qs))
Unpack(r) ==
    CASE r.type = "Q8_0" -> UnpackQ80(r)
      [] r.type = "Q4_1" -> UnpackQ41(r)
      [] r.type = "Q4_K" -> UnpackQ4K(r)

-----------------------------------------------------------------------------
\* Quantizers.  StaticScaledQuantizer: d is the reciprocal scale, per tensor
\* (axis -1) or one per index of an axis; the offset m has the shape of d.
BroadcastParam(p, t, axis) ==
    IF axis < 0 \/ p = NoneTensor THEN p
    ELSE view(p, [i \in 1 .. Rank(t) |-> IF i - 1 = axis THEN Size(t, axis) ELSE 1])
QuantizeStatic(t, quantizer) ==
    LET d == BroadcastParam(quantizer.d, t, quantizer.axis)
        m == BroadcastParam(quantizer.m, t, quantizer.axis)
        offset(c) == IF m = NoneTensor THEN 0 ELSE Operand(m, c)
    IN TensorScaled(d, m, Build(t.shape, LAMBDA c :
           SaturateInt8(RoundDiv(At(t, c) + offset(c) * Operand(d, c), Operand(d, c)))))

\* DynamicScaledQuantizer: the largest magnitude becomes 127.
AbsMax(t) == FoldLeft(LAMBDA a, x : MaxOf(a, MaxOf(x, 0 - x)), 0, t.data)
ScalesExactly(t) == AbsMax(t) % 127 = 0
QuantizeDynamic(t) ==
    LET d == MaxOf(AbsMax(t) \div 127, 1)
    IN TensorScaled(Scalar(d), NoneTensor,
                    Build(t.shape, LAMBDA c : SaturateInt8(RoundDiv(At(t, c), d))))

\* Layouts are saved as planes and metadata, and rebuilt by create.
Planes(l) ==
    CASE l.type = "TensorScaledLayout" -> [d |-> l.d, m |-> l.m, qs |-> l.qs]
      [] l.type = "BlockScaledLayout" -> [d |-> l.d, qs |-> l.qs]
      [] l.type = "BlockScaledI4Layout" -> [d |-> l.d, m |-> l.m, qs |-> l.qs]
      [] l.type = "SuperBlockOffsetScaled_4_6_Layout" ->
           [d |-> l.d, dmin |-> l.dmin, scales |-> l.sb_scales, mins |-> l.sb_mins,
            qs |-> l.qs]
Create(type, shape, p) ==
    CASE type = "TensorScaledLayout" -> TensorScaled(p.d, p.m, p.qs)
      [] type = "BlockScaledLayout" -> BlockScaled(shape, p.d, p.qs)
      [] type = "BlockScaledI4Layout" -> BlockScaledI4(shape, p.d, p.m, p.qs)
      [] type = "SuperBlockOffsetScaled_4_6_Layout" ->
           SuperBlock(shape, p.d, p.dmin, p.scales, p.mins, p.qs)

-----------------------------------------------------------------------------
\* qlinear_tensor_scaled.
T(t) == IF Rank(t) = 2 THEN Mt(t) ELSE t
PerRow(d) == Rank(d) > 0 => Size(d, Rank(d) - 1) = 1
KernelMmt(x, w) == matmul(x, Mt(w))

XOffsetFix(x, w) == Mul(SumKeep(w.qs, 0), x.m)
WeightOffsetFix(x, w) == Mul(SumKeep(x.qs, Rank(x.qs) - 1), T(w.m))
JointFix(x, w) == Mul(Mul(x.m, T(w.m)), Scalar(Size(x.qs, Rank(x.qs) - 1)))
Minus(y, has, fix) == IF has THEN Sub(y, fix) ELSE y

\* An offset whose shape does not broadcast with the product raises.
QLinearRuns(x, w) ==
    /\ PerRow(x.d) /\ PerRow(w.d)
    /\ Rank(x.qs) = 2 /\ Size(x.qs, 1) = Size(w.qs, 1)
    /\ HasOffset(x) => Broadcastable(XOffsetFix(x, w).shape, <<Size(x.qs, 0), Size(w.qs, 0)>>)
QLinearAccum(x, w) ==
    LET y0 == KernelMmt(x.qs, w.qs)
        y1 == Minus(y0, HasOffset(x), XOffsetFix(x, w))
        y2 == Minus(y1, HasOffset(w), WeightOffsetFix(x, w))
    IN IF HasOffset(x) /\ HasOffset(w) THEN Add(y2, JointFix(x, w)) ELSE y2
\* A quantized bias is added in integers and brings the output scale, which it
\* must have been quantized with; any other is added to the dequantized result.
WithBias(y, d, b) ==
    CASE b = NoneTensor -> TensorScaled(d, NoneTensor, y)
      [] b # NoneTensor /\ "qs" \in DOMAIN b -> TensorScaled(b.d, NoneTensor, Add(y, b.qs))
      [] OTHER -> PlainLayout(Add(Mul(y, d), b))
BiasScaled(x, w, b) == "qs" \in DOMAIN b => b.d = Mul(x.d, T(w.d))
QLinear(x, w, b) == WithBias(QLinearAccum(x, w), Mul(x.d, T(w.d)), b)

\* qconv2d_tensor_scaled, of a batch of images (dimensions N, C, H, W).
Pad(t, p) ==
    Build(<<t.shape[1], t.shape[2], t.shape[3] + 2 * p, t.shape[4] + 2 * p>>,
          LAMBDA c : IF /\ c[3] >= p /\ c[3] < p + t.shape[3]
                        /\ c[4] >= p /\ c[4] < p + t.shape[4]
                     THEN At(t, <<c[1], c[2], c[3] - p, c[4] - p>>) ELSE 0)
ConvOut(x, w, s, i) == (x.shape[i] - w.shape[i]) \div s + 1
KernelConv(x, w, s) ==
    Build(<<x.shape[1], w.shape[1], ConvOut(x, w, s, 3), ConvOut(x, w, s, 4)>>, LAMBDA c :
        SumOf([k \in 1 .. w.shape[2] * w.shape[3] * w.shape[4] |->
            LET i == (k - 1) % w.shape[4]
                j == ((k - 1) \div w.shape[4]) % w.shape[3]
                ch == (k - 1) \div (w.shape[4] * w.shape[3])
            IN (At(x, <<c[1], ch, c[3] * s + j, c[4] * s + i>>)
                * At(w, <<c[2], ch, j, i>>)) % Ring]))
KernelPoolSum(x, w, s) ==
    KernelConv(x, Build(<<1, 1, w.shape[3], w.shape[4]>>, LAMBDA c : 1), s)
\* Scales and offsets of an operand as [1, channel, 1, 1] of the output.
Channels(p) == IF Rank(p) = 0 THEN p ELSE view(p, <<1, Prod(p.shape), 1, 1>>)
InputFix(x, w) ==
    Mul(Channels(SumKeep(flatten(w.qs, 1, 3), 1)), Channels(x.m))
WeightFix(x, w, p, s) ==
    Mul(KernelPoolSum(SumKeep(Pad(x.qs, p), 1), w.qs, s), Channels(w.m))
JointConvFix(x, w) ==
    Mul(Mul(Channels(x.m), Channels(w.m)), Scalar(Prod(Tail(w.qs.shape))))
QConvAccum(x, w, p, s) ==
    LET y0 == KernelConv(Pad(x.qs, p), w.qs, s)
        y1 == Minus(y0, HasOffset(x), InputFix(x, w))
        y2 == Minus(y1, HasOffset(w), WeightFix(x, w, p, s))
    IN IF HasOffset(x) /\ HasOffset(w) THEN Add(y2, JointConvFix(x, w)) ELSE y2
ChannelBias(b) ==
    IF b = NoneTensor THEN b
    ELSE IF "qs" \in DOMAIN b THEN TensorScaled(Channels(b.d), NoneTensor, Channels(b.qs))
    ELSE Channels(b)
QConv2d(x, w, b, p, s) ==
    WithBias(QConvAccum(x, w, p, s), Mul(Channels(x.d), Channels(w.d)), ChannelBias(b))

-----------------------------------------------------------------------------
\* What the operands stand for.

\* ggml's definition of its blocks.
GgmlQ41(x) ==
    [k \in 1 .. 2 * Len(x.qs) |->
        (x.m + x.d * (IF k <= Len(x.qs) THEN Low(x.qs[k]) ELSE High(x.qs[k - Len(x.qs)]))) % Ring]
GgmlScale(b, j) ==
    IF j < 4 THEN b[j + 1] % 64 ELSE Low(b[j + 5]) + 16 * (b[j - 3] \div 64)
GgmlMin(b, j) ==
    IF j < 4 THEN b[j + 5] % 64 ELSE High(b[j + 5]) + 16 * (b[j + 1] \div 64)
GgmlQ4K(x) ==
    LET n == Len(x.qs) \div 4  \* samples of a sub-block
    IN [k \in 1 .. 8 * n |->
           LET j == (k - 1) \div n
               byte == x.qs[(j \div 2) * n + ((k - 1) % n) + 1]
               q == IF j % 2 = 0 THEN Low(byte) ELSE High(byte)
           IN (x.d * GgmlScale(x.scales, j) * q - x.m * GgmlMin(x.scales, j)) % Ring]
GgmlValue(r) ==
    FromBlocks(r.shape, [b \in DOMAIN r.blocks |->
        CASE r.type = "Q8_0" -> [k \in DOMAIN r.blocks[b].qs |->
                                    (r.blocks[b].d * r.blocks[b].qs[k]) % Ring]
          [] r.type = "Q4_1" -> GgmlQ41(r.blocks[b])
          [] r.type = "Q4_K" -> GgmlQ4K(r.blocks[b])])

\* The value nearest to x that an int8 sample can stand for; of two, the one of
\* the even sample.
Distance(q, x, d, m) == MaxOf((q - m) * d - x, x - (q - m) * d)
NearestSample(x, d, m) ==
    CHOOSE q \in -128 .. 127 : \A r \in -128 .. 127 \ {q} :
        \/ Distance(q, x, d, m) < Distance(r, x, d, m)
        \/ Distance(q, x, d, m) = Distance(r, x, d, m) /\ q % 2 = 0
Nearest(x, d, m) == (NearestSample(x, d, m) - m) * d
NearestTensor(t, quantizer) ==
    LET d == BroadcastParam(quantizer.d, t, quantizer.axis)
        m == BroadcastParam(quantizer.m, t, quantizer.axis)
    IN Reduced(Build(t.shape, LAMBDA c :
           Nearest(At(t, c), Operand(d, c), IF m = NoneTensor THEN 0 ELSE Operand(m, c))))
BiasValue(b) == IF "qs" \in DOMAIN b THEN Dequant(b) ELSE b

-----------------------------------------------------------------------------
QuantInit ==
    /\ source \in RawBlocks \union Inputs
    /\ layout = PlainLayout(NoneTensor)
    /\ value = NoneTensor
    /\ misfixed = {}
    /\ quantOps = 0

MayApply == layout # PlainLayout(NoneTensor) /\ quantOps < MaxQuantOps
AppliedBut(l, v, wrong) ==
    /\ layout' = l
    /\ value' = v
    /\ misfixed' = misfixed \cup wrong
    /\ quantOps' = quantOps + 1
    /\ UNCHANGED source
Applied(l, v) == AppliedBut(l, v, {})

\* A tensor of a GGUF file is unpacked.
UnpackGguf ==
    /\ layout = PlainLayout(NoneTensor) /\ source.type # "dense"
    /\ Applied(Unpack(source), GgmlValue(source))

\* An unquantized tensor is quantized, with given scales or with its own.
Quantize ==
    /\ layout = PlainLayout(NoneTensor) /\ source.type = "dense"
    /\ \E quantizer \in Quantizers :
        /\ quantizer.axis < Rank(source.t)
        /\ quantizer.axis >= 0 => Prod(quantizer.d.shape) = Size(source.t, quantizer.axis)
        /\ Applied(QuantizeStatic(source.t, quantizer), NearestTensor(source.t, quantizer))
QuantizeByRange ==
    /\ layout = PlainLayout(NoneTensor) /\ source.type = "dense"
    /\ ScalesExactly(source.t)
    /\ \E l \in {QuantizeDynamic(source.t)} :
          Applied(l, NearestTensor(source.t, [d |-> l.d, m |-> NoneTensor, axis |-> -1]))

ArchiveQuantized ==
    /\ MayApply /\ layout.type # "tensor"
    /\ Applied(Create(layout.type, IF "shape" \in DOMAIN layout THEN layout.shape ELSE <<>>,
                      Planes(layout)), value)

\* TensorScaledLayout.view and .flatten keep the scale: one for the tensor.
ViewQuantized ==
    /\ MayApply /\ layout.type = "TensorScaledLayout" /\ Rank(layout.d) = 0
    /\ Applied([layout EXCEPT !.qs = flatten(layout.qs, 0, Rank(layout.qs) - 1)],
               flatten(value, 0, Rank(value) - 1))

\* view and get_index of a BlockScaledI4Layout: whole blocks.
ViewBlocks ==
    /\ MayApply /\ layout.type = "BlockScaledI4Layout"
    /\ Applied([layout EXCEPT !.shape = <<Prod(layout.shape)>>],
               view(value, <<Prod(layout.shape)>>))
IndexBlocks ==
    /\ MayApply /\ layout.type = "BlockScaledI4Layout" /\ Len(layout.shape) = 2
    /\ \E i \in 0 .. layout.shape[1] - 1 :
       \E per \in {Len(layout.qs) \div layout.shape[1]} :
          Applied(BlockScaledI4(<<layout.shape[2]>>,
                                SubSeq(layout.d, i * per + 1, (i + 1) * per),
                                SubSeq(layout.m, i * per + 1, (i + 1) * per),
                                SubSeq(layout.qs, i * per + 1, (i + 1) * per)),
                  Select(value, 0, i))

\* The correction for an offset of x sums the weight over its outputs, not over
\* the inputs that it shares with x (qlinear_impls.py:106-108): it has the size of
\* the inputs, and is wrong also where that is the number of outputs.
LinearQuantized ==
    /\ MayApply /\ layout.type = "TensorScaledLayout"
    /\ \E weight \in Weights :
       \E w \in {QuantizeStatic(weight.t, weight.quantizer)} :
          /\ Rank(w.qs) = 2 /\ QLinearRuns(layout, w)
          /\ BiasScaled(layout, w, weight.bias)
          /\ AppliedBut(QLinear(layout, w, weight.bias),
                        IF weight.bias = NoneTensor THEN matmul(value, Mt(Dequant(w)))
                        ELSE Add(matmul(value, Mt(Dequant(w))), BiasValue(weight.bias)),
                        IF HasOffset(layout) THEN {"linear"} ELSE {})

\* The input has one scale: the code also takes one scale per input channel and
\* multiplies it into the output channels, which no caller here does.  Samples are
\* padded with 0, also when it is not 0 that they stand for (qconv_impls.py:123).
ConvQuantized ==
    /\ MayApply /\ layout.type = "TensorScaledLayout"
    /\ Rank(layout.qs) = 4 /\ Rank(layout.d) = 0
    /\ \E weight \in Weights, p \in 0 .. 1, s \in 1 .. 2 :
       \E w \in {QuantizeStatic(weight.t, weight.quantizer)} :
          /\ Rank(w.qs) = 4 /\ w.qs.shape[2] = layout.qs.shape[2]
          /\ \A i \in {3, 4} : layout.qs.shape[i] + 2 * p >= w.qs.shape[i]
          /\ AppliedBut(QConv2d(layout, w, weight.bias, p, s),
                        IF weight.bias = NoneTensor THEN KernelConv(Pad(value, p), Dequant(w), s)
                        ELSE Add(KernelConv(Pad(value, p), Dequant(w), s),
                                 Channels(BiasValue(weight.bias))),
                        IF HasOffset(layout) /\ p > 0 THEN {"padding"} ELSE {})

QuantNext ==
    \/ UnpackGguf \/ Quantize \/ QuantizeByRange \/ ArchiveQuantized \/ ViewQuantized
    \/ ViewBlocks \/ IndexBlocks \/ LinearQuantized \/ ConvQuantized

-----------------------------------------------------------------------------
\* A quantized tensor stands for the value its format defines: unpacking a GGUF
\* block (gguf_interop/layouts.py), a trip through an archive, a view, and the
\* integer kernels with their offset corrections (qlinear_impls.py,
\* qconv_impls.py) give what unquantized operators give on the dequantized
\* operands, and a quantizer gives the nearest value it can represent.  What a
\* linear layer or a padded convolution makes of an activation with an offset is
\* excepted: there the corrections are wrong (LinearQuantized, ConvQuantized).
QuantTransparent ==
    misfixed = {} /\ layout # PlainLayout(NoneTensor) => Dequant(layout) = value
=============================================================================
