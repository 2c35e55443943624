---------------------------- MODULE MCSharktank -----------------------------
(***************************************************************************)
(* The five parts of sharktank that are modelled, for one run of TLC: the  *)
(* behaviours of the run are those of one part, chosen at the start, while *)
(* the others rest in an initial state.                                    *)
(***************************************************************************)
EXTENDS Registry, ShardedOps, PagedLlm, QuantOps, ThetaArchive, TLC

CONSTANT Units  \* the parts to explore

VARIABLE unit   \* the part that runs

\* The dispatcher: the forms of specification ops/*_impls.py register.
MCSpecs ==
    { [kind |-> "positional", spec |-> <<{"Tensor"}>>,
       autoUnbox |-> TRUE, autoDequant |-> FALSE],
      [kind |-> "positional", spec |-> <<{"Tensor"}, {"Tensor"}>>,
       autoUnbox |-> TRUE, autoDequant |-> TRUE],
      [kind |-> "positional", spec |-> <<{"Tensor"}, {"QuantizedTensor"}, {}>>,
       autoUnbox |-> TRUE, autoDequant |-> FALSE],
      [kind |-> "AllOfType", spec |-> <<{"Tensor", "InferenceTensor"}>>,
       autoUnbox |-> TRUE, autoDequant |-> FALSE],
      [kind |-> "AllOfExprsVariadic", spec |-> <<{"Tensor"}, AnyTensor>>,
       autoUnbox |-> TRUE, autoDequant |-> FALSE] }

\* The operators with one, two or three tensor arguments, and the others.
MCUnary ==
    {"all_gather", "all_reduce", "expand", "get_index", "flatten", "interpolate",
     "permute", "mean", "repeat", "replicate", "reshape", "reshard_split",
     "sharded_cat", "sharded_sum", "softmax", "to", "transfer_to_logical_device",
     "transpose", "unflatten", "unshard", "unsqueeze", "view", "view_as_complex",
     "view_as_real", "squeeze"}
MCBinary ==
    {"einsum_2args", "embedding_lookup", "equal", "gather", "index_select",
     "matmul", "rms_norm", "reshard_like"}
MCTernary ==
    {"conv2d", "gemm", "group_norm_affine", "index_copy_", "layer_norm", "linear"}
MCCalls ==
    [op \in MCUnary |-> {<<"Tensor">>, <<"SplitPrimitiveTensor">>}]
    @@ [op \in MCBinary |-> {<<"Tensor", "DefaultPrimitiveTensor">>,
                             <<"SplitPrimitiveTensor", "Tensor">>}]
    @@ [op \in MCTernary |-> {<<"Tensor", "PlanarQuantizedTensor", "NoneType">>,
                              <<"Tensor", "Tensor", "DefaultPrimitiveTensor">>}]
    @@ [op \in {"cat", "index_put_"} |->
           {<<"Tensor", "Tensor">>, <<"ReplicatedTensor", "Tensor", "Tensor">>}]
    @@ [op \in {"elementwise"} |-> {<<"Tensor", "float">>, <<"Tensor", "Tensor">>}]
    @@ [op \in {"module_register_buffer"} |-> {<<"Module", "Tensor">>}]
    @@ [op \in {"reshard"} |-> {<<"Tensor", "Sharding">>}]
    @@ [op \in {"scaled_dot_product_attention"} |->
           {<<"Tensor", "Tensor", "Tensor", "NoneType">>}]

\* Shapes that the shard count divides along some dimension and not along others;
\* permutations of order two, and one of order three.
MCShapes == {<<3, 4>>, <<4, 2, 2>>}
MCPerms == {<<1, 0>>, <<0, 1>>, <<1, 0, 2>>, <<2, 1, 0>>, <<0, 2, 1>>, <<1, 2, 0>>}

\* GGUF blocks (shorter than ggml's, with its layout), activations and weights.
MCRawBlocks ==
    { [type |-> "Q8_0", shape |-> <<2, 4>>,
       blocks |-> << [d |-> 3, qs |-> <<-128, 127, 0, 5>>], [d |-> 7, qs |-> <<1, 2, -3, 4>>] >>],
      [type |-> "Q4_1", shape |-> <<2, 8>>,
       blocks |-> << [d |-> 3, m |-> 5, qs |-> <<128, 145, 162, 179>>],
                     [d |-> 2, m |-> -9, qs |-> <<1, 35, 69, 239>>] >>] }
    \union
    { [type |-> "Q4_K", shape |-> <<1, 16>>,
       blocks |-> << [d |-> 3, m |-> 2, qs |-> <<128, 145, 162, 179, 196, 213, 230, 247>>,
                      scales |-> [i \in 1 .. 12 |-> IF i = k THEN 255 ELSE (17 * i + x) % 256]] >>] :
      k \in 1 .. 12, x \in {0, 90} }
Tn(shape, data) == [shape |-> shape, data |-> data]
MCInputs ==
    { [type |-> "dense", t |-> t] :
      t \in { Tn(<<2, 2>>, <<9, -7, 20, 4>>), Tn(<<2, 2>>, <<-254, 127, 0, 13>>),
              Tn(<<2, 2>>, <<1000, -1000, 3, 0>>),
              Tn(<<1, 2, 2, 2>>, <<9, -7, 20, 4, 0, 12, -3, 6>>) } }
Sym == {[d |-> Scalar(d), m |-> NoneTensor, axis |-> -1] : d \in {1, 3}}
Asym == {[d |-> Scalar(3), m |-> Scalar(2), axis |-> -1]}
MCQuantizers ==
    Sym \union Asym \union {[d |-> Tn(<<2>>, <<3, 5>>), m |-> NoneTensor, axis |-> 0]}
AsymW == [d |-> Tn(<<2>>, <<3, 5>>), m |-> Tn(<<2>>, <<4, -7>>), axis |-> 0]
MCWeights ==
    { [t |-> t, quantizer |-> quant, bias |-> b] :
      t \in {Tn(<<2, 2>>, <<3, 31, -15, 50>>),
             Tn(<<2, 2, 2, 1>>, <<3, 31, -15, 50, 4, 8, 1, -9>>)},
      quant \in {[d |-> Scalar(3), m |-> NoneTensor, axis |-> -1], AsymW},
      b \in {NoneTensor, Tn(<<2>>, <<100, 7>>)} }
    \union
    { [t |-> t, quantizer |-> [d |-> Scalar(3), m |-> NoneTensor, axis |-> -1],
       bias |-> TensorScaled(Scalar(9), NoneTensor, Tn(<<2>>, <<4, -6>>))] :
      t \in {Tn(<<2, 2>>, <<3, 31, -15, 50>>)} }

\* GGUF files: names of which one begins another as a string, every type, and a
\* tensor whose name is a branch of another's.
MCGgufFiles ==
    { { <<<<"a", "1", "w">>, "F16">>, <<<<"a", "10", "w">>, "F16">> },
      { <<<<"a", "1">>, "Q4_1">>, <<<<"b">>, "BF16">>, <<<<"c">>, "Q4_K">> },
      { <<<<"a", "1", "w">>, "Q8_0">>, <<<<"1", "w">>, "F16">> } }
MCPopPaths == {<<"a">>, <<"a", "1">>}
MCStrPrefixes == {<<"1", "10">>}
MCRankNames == <<"0", "1">>
MCImportLayers == <<"1", "10">>

-----------------------------------------------------------------------------
SharktankInit ==
    /\ unit \in Units
    /\ RegInit /\ (unit # "registry" => regOp = CHOOSE op \in RegOps : TRUE)
    /\ ShardInit
    /\ PagedInit /\ (unit # "paged" => cacheType = "paged" /\ arch = "llama")
    /\ QuantInit /\ (unit # "quantized" => source = CHOOSE r \in RawBlocks : TRUE)
    /\ ThetaInit
    /\ unit # "theta" =>
          heap = Enumerated({WrapTensor(item) : item \in CHOOSE f \in GgufFiles : TRUE})

SharktankNext ==
    \/ unit = "registry" /\ RegNext /\ UNCHANGED <<unit, thetaVars, shardVars, pagedVars, quantVars>>
    \/ unit = "sharded" /\ ShardNext /\ UNCHANGED <<unit, thetaVars, regVars, pagedVars, quantVars>>
    \/ unit = "paged" /\ PagedNext /\ UNCHANGED <<unit, thetaVars, regVars, shardVars, quantVars>>
    \/ unit = "quantized" /\ QuantNext /\ UNCHANGED <<unit, thetaVars, regVars, shardVars, pagedVars>>
    \/ unit = "theta" /\ ThetaNext /\ UNCHANGED <<unit, regVars, shardVars, pagedVars, quantVars>>
=============================================================================
