---------------------------- MODULE ThetaArchive ----------------------------
(***************************************************************************)
(* The parameters of a model: types/theta.py (Theta, Dataset and its       *)
(* archive), the serialization of types/tensors.py and quantizers.py,      *)
(* utils/io.py (one file per rank), gguf_interop/base.py, and the importer  *)
(* models/llama/tools/import_quark_dataset.py.                             *)
(*                                                                         *)
(* A dotted name is the sequence of its parts.  A theta maps paths to      *)
(* tensor objects; the objects are on a heap because thetas share them     *)
(* (__call__ and pop copy no tensor, rename_tensors_to_paths writes to     *)
(* them).  The elements of a tensor are a term that says where they come   *)
(* from; `ext' is the archive entry ExternalTensorTrait names, if any.     *)
(***************************************************************************)
EXTENDS Integers, Sequences, FiniteSets, SequencesExt, TLC

CONSTANTS
    GgufFiles,    \* GGUF files: sets of <<name, type>>
    PopPaths,     \* what pop and __call__ are given
    StrPrefixes,  \* the pairs of different parts of which the first begins the second
    RankNames,    \* "0", "1", ...: the shards, in order
    ImportLayers, \* the layers of a quark model
    MaxThetaOps   \* bound: operations explored

VARIABLES
    heap,        \* the tensor objects
    root,        \* Dataset.root_theta: path -> object
    side,        \* a second theta, from pop or __call__
    props,       \* Dataset.properties
    files,       \* the archive on disk: per file its content
    unwritten,   \* the files commit has still to write
    saved,       \* history: the tensors, and the properties, of the last save
    origin,      \* history: the entries of the file the dataset was loaded from
    updated,     \* updated_tensors of the import
    imported,    \* layers of the import that are done
    thetaPhase,  \* "ready", "loaded", "committing", "importing" or "raised"
    thetaOps

thetaVars == <<heap, root, side, props, files, unwritten, saved, origin, updated,
               imported, thetaPhase, thetaOps>>

\* The elements of a set in one order (the order of a dict's keys decides only
\* which of two tensors of the same name is kept).
Enumerated(S) == FoldSet(LAMBDA x, acc : Append(acc, x), <<>>, S)

-----------------------------------------------------------------------------
\* Tensors.  raws: the torch tensors by local name; shardNames: a sharded
\* tensor's shards have names of their own; extra: what metadata is kept.
Unnamed == <<"<unnamed>">>
RawTensor(data) == [data |-> data, ext |-> <<>>]
ShardNames(name, ranks) == [r \in ranks |-> name \o <<"shard", r>>]
InferenceTensor(type, name, raws, extra) ==
    [type |-> type, name |-> name, raws |-> raws, extra |-> extra,
     shardNames |-> IF type \in {"SplitPrimitiveTensor", "ReplicatedTensor"}
                    THEN ShardNames(name, DOMAIN raws) ELSE <<>>]
DefaultPrimitive(name, data) ==
    InferenceTensor("PrimitiveTensor", name, [l \in {""} |-> RawTensor(data)], <<>>)

\* The setter of InferenceTensor.name; a sharded tensor renames its shards.
Renamed(t, name) ==
    [t EXCEPT !.name = name, !.shardNames = ShardNames(name, DOMAIN t.shardNames)]

\* The layouts of the GGUF types, and their planes.
LayoutType == [Q8_0 |-> "BlockScaledLayout", Q4_1 |-> "BlockScaledI4Layout",
               Q4_K |-> "SuperBlockOffsetScaled_4_6_Layout"]
TensorScaledPlanes == {"d", "qs"}
BlockScaledPlanes == {"d", "qs"}
BlockScaledI4Planes == BlockScaledPlanes \union {"m"}
SuperBlockPlanes == {"d", "dmin", "sb_scales_high", "sb_scales_low", "sb_mins_high",
                     "sb_mins_low", "qs"}
LayoutPlanes(layoutType) ==
    CASE layoutType = "BlockScaledLayout" -> BlockScaledPlanes
      [] layoutType = "BlockScaledI4Layout" -> BlockScaledI4Planes
      [] layoutType = "SuperBlockOffsetScaled_4_6_Layout" -> SuperBlockPlanes
      [] layoutType = "TensorScaledLayout" -> TensorScaledPlanes

\* QuantizedTensor.to_planar, through unpack.
ToPlanar(t) ==
    IF t.type # "packed" THEN t
    ELSE InferenceTensor("PlanarQuantizedTensor", t.name,
             [p \in LayoutPlanes(t.extra) |-> RawTensor(<<p, t.raws[""].data>>)], t.extra)

\* _clone_with_globals, which makes the tensor again from new raw tensors: the
\* packed and the sharded tensors cannot do so.
CanMove(t) == t.type \in {"PrimitiveTensor", "PlanarQuantizedTensor", "StaticScaledQuantizer"}

\* transform_globals with a move to a device: new raw tensors with the elements
\* and the trait of the old ones.
Moved(t) == InferenceTensor(t.type, t.name,
                            [l \in DOMAIN t.raws |-> [data |-> t.raws[l].data, ext |-> t.raws[l].ext]],
                            t.extra)

-----------------------------------------------------------------------------
\* Trees of names.
StartsWith(path, prefix) ==
    /\ Len(prefix) <= Len(path)
    /\ \A i \in 1 .. Len(prefix) - 1 : path[i] = prefix[i]
    /\ \/ path[Len(prefix)] = prefix[Len(prefix)]
       \/ <<prefix[Len(prefix)], path[Len(prefix)]>> \in StrPrefixes

\* flat_to_nested_dict, over a sequence of <<name, object>>: a tensor that is in
\* the way of a longer name is a collision; one that comes after the longer name
\* takes the place of its whole branch.
Collides(tree, name) == \E p \in DOMAIN tree : IsStrictPrefix(p, name)
Nest1(acc, item) ==
    IF acc.raised \/ Collides(acc.tree, item[1]) THEN [acc EXCEPT !.raised = TRUE]
    ELSE [raised |-> FALSE,
          tree |-> [p \in {q \in DOMAIN acc.tree : ~ IsPrefix(item[1], q)} \union {item[1]} |->
                       IF p = item[1] THEN item[2] ELSE acc.tree[p]]]
Nested(items) == FoldLeft(Nest1, [raised |-> FALSE, tree |-> <<>>], items)

\* Theta(tensors): keyed by name, the last tensor of a name wins, in the place of
\* the first.
ByName(ids, h) == [i \in 1 .. Len(ids) |-> <<h[ids[i]].name, ids[i]>>]

Restricted(f, S) == [x \in S |-> f[x]]
SubTheta(tree, path) ==
    [p \in {SubSeq(q, Len(path) + 1, Len(q)) : q \in {r \in DOMAIN tree : IsStrictPrefix(path, r)}}
        |-> tree[path \o p]]

-----------------------------------------------------------------------------
\* The archive.  What the add_to_archive of each class adds: per local name its
\* file, and its entry there.
RootFile == "root"
PrimitivePlaces(t) == [l \in {""} |-> <<RootFile, t.name>>]
\* Mutant: every plane is added under the name of the tensor.
PlanesUnderName(t) == [l \in DOMAIN t.raws |-> <<RootFile, t.name>>]

PlanarPlaces(t) == [l \in DOMAIN t.raws |-> <<RootFile, t.name \o <<":", l>>>>]
QuantizerPlaces(t) == [l \in DOMAIN t.raws |-> <<RootFile, t.name \o <<":", l>>>>]
SplitPlaces(t) == [r \in DOMAIN t.raws |-> <<r, t.shardNames[r]>>]
ReplicatedPlaces(t) == [l \in {""} |-> <<Head(RankNames), t.name>>]
ArchivePlaces(t) ==
    CASE t.type = "PrimitiveTensor" -> PrimitivePlaces(t)
      [] t.type = "PlanarQuantizedTensor" -> PlanarPlaces(t)
      [] t.type = "StaticScaledQuantizer" -> QuantizerPlaces(t)
      [] t.type = "SplitPrimitiveTensor" -> SplitPlaces(t)
      [] t.type = "ReplicatedTensor" -> ReplicatedPlaces(t)
LocalRaw(t, l) == IF t.type = "ReplicatedTensor" THEN t.raws[Head(RankNames)] ELSE t.raws[l]
ArchiveEntries(t, file) ==
    LET at == ArchivePlaces(t)
    IN [n \in {at[l][2] : l \in {k \in DOMAIN at : at[k][1] = file}} |->
           LocalRaw(t, CHOOSE l \in DOMAIN at : at[l] = <<file, n>>).data]
MetaOf(t) ==
    LET at == ArchivePlaces(t)
    IN [type |-> t.type, extra |-> t.extra, ranks |-> DOMAIN t.shardNames,
        raws |-> [l \in DOMAIN at |-> at[l][2]]]

Overlay(f, g) == [x \in DOMAIN f \union DOMAIN g |-> IF x \in DOMAIN g THEN g[x] ELSE f[x]]

\* add_tensors_to_archive, the metadata, and the files in the order commit
\* writes them: the root first.
ArchiveFiles(tensors, properties) ==
    LET entries(file) == FoldLeft(LAMBDA acc, t : Overlay(acc, ArchiveEntries(ToPlanar(t), file)),
                                  <<>>, tensors)
        metas == FoldLeft(LAMBDA acc, t : Overlay(acc, [n \in {t.name} |-> MetaOf(ToPlanar(t))]),
                          <<>>, tensors)
        ranks == SelectSeq(RankNames, LAMBDA r : DOMAIN entries(r) # {})
    IN << <<RootFile, [entries |-> entries(RootFile), metas |-> metas, ranks |-> ranks,
                       props |-> properties \union {"SHARK_DATASET_VERSION"}]>> >>
       \o [i \in 1 .. Len(ranks) |-> <<ranks[i], [entries |-> entries(ranks[i])]>>]

\* load_tensors: the create of the tensor's class makes it from its raw tensors,
\* which are tagged with their entries.
PlanarCreate(meta) == LayoutPlanes(meta.extra) \union ({"m"} \intersect DOMAIN meta.raws)
QuantizerCreate(meta) == {"scale", "rscale"} \union ({"offset"} \intersect DOMAIN meta.raws)
ShardedCreate(meta) == [r \in meta.ranks |-> r]
ReplicatedCreate(meta) == [r \in meta.ranks |-> ""]
CreateTensor(name, meta, entries) ==
    LET raw(l) == [data |-> entries[meta.raws[l]], ext |-> meta.raws[l]]
    IN InferenceTensor(meta.type, name,
           CASE meta.type = "PrimitiveTensor" -> [l \in {""} |-> raw(l)]
             [] meta.type = "PlanarQuantizedTensor" -> [l \in PlanarCreate(meta) |-> raw(l)]
             [] meta.type = "StaticScaledQuantizer" -> [l \in QuantizerCreate(meta) |-> raw(l)]
             [] meta.type = "SplitPrimitiveTensor" ->
                   [r \in meta.ranks |-> raw(ShardedCreate(meta)[r])]
             [] meta.type = "ReplicatedTensor" ->
                   [r \in meta.ranks |-> raw(ReplicatedCreate(meta)[r])],
           meta.extra)

TensorsOf(tree, h) == {h[tree[p]] : p \in DOMAIN tree}

-----------------------------------------------------------------------------
\* Operations.

\* gguf_interop.load_file, _wrap_tensor: the trait is set before the tensor is
\* viewed as bfloat16, so that the view has none.
WrapTensor(item) ==
    LET type == item[2]
        tagged == [data |-> <<"gguf", item[1]>>, ext |-> item[1]]
    IN CASE type = "F16" ->
              InferenceTensor("PrimitiveTensor", item[1], [l \in {""} |-> tagged], <<>>)
         [] type = "BF16" -> DefaultPrimitive(item[1], <<"gguf", item[1]>>)
         [] type \in DOMAIN LayoutType ->
              InferenceTensor("packed", item[1], [l \in {""} |-> tagged], LayoutType[type])

\* What import_quark_dataset reads: the tensors of each layer, with or without
\* the optional scales.
SubLayers == << <<"mlp", "gate_proj">>, <<"mlp", "down_proj">>, <<"mlp", "up_proj">>,
                <<"self_attn", "o_proj">>, <<"self_attn", "q_proj">>,
                <<"self_attn", "k_proj">>, <<"self_attn", "v_proj">> >>
LayerName(i) == <<"model", "layers", i>>
Stragglers == << << <<"model", "embed_tokens">>, <<"token_embd", "weight">> >>,
                 << <<"model", "norm">>, <<"output_norm", "weight">> >>,
                 << <<"lm_head">>, <<"output", "weight">> >> >>
QuarkNames(optional) ==
    UNION { { LayerName(i) \o s \o <<n>> :
              s \in ToSet(SubLayers), n \in {"weight", "weight_scale"} \union optional }
            \union { LayerName(i) \o <<s, "weight">> :
                     s \in {"input_layernorm", "post_attention_layernorm"} }
            \union { LayerName(i) \o <<"self_attn", "kv_scale">> } : i \in ToSet(ImportLayers) }
    \union { s[1] \o <<"weight">> : s \in ToSet(Stragglers) }
QuarkTheta(optional) == Enumerated({DefaultPrimitive(n, n) : n \in QuarkNames(optional)})

ThetaInit ==
    /\ \/ \E f \in GgufFiles :
            /\ heap = Enumerated({WrapTensor(item) : item \in f})
            /\ origin = [n \in {item[1] : item \in f} |-> <<"gguf", n>>]
            /\ thetaPhase = "loaded"
       \/ /\ \E optional \in SUBSET {"input_scale", "output_scale"} : heap = QuarkTheta(optional)
          /\ origin = <<>>
          /\ thetaPhase = "importing"
    /\ root = Nested(ByName([i \in 1 .. Len(heap) |-> i], heap)).tree
    /\ side = <<>>
    /\ props = {}
    /\ files = <<>>
    /\ unwritten = <<>>
    /\ saved = [tensors |-> {}, props |-> {}, done |-> FALSE]
    /\ updated = <<>>
    /\ imported = 0
    /\ thetaOps = 0

CanOperate == thetaPhase \in {"ready", "loaded"} /\ thetaOps < MaxThetaOps
Operated == thetaOps' = thetaOps + 1
ThetaRaises == thetaPhase' = "raised" /\ UNCHANGED <<heap, root, side>>

\* Theta.transform: every tensor has a replacement; the new theta is keyed by the
\* tensors' names.
TransformTheta(replacement, fails) ==
    /\ CanOperate /\ Operated
    /\ LET ids == Enumerated(DOMAIN root)
           new == heap \o [i \in 1 .. Len(ids) |-> replacement[root[ids[i]]]]
           nested == Nested(ByName([i \in 1 .. Len(ids) |-> Len(heap) + i], new))
       IN \/ /\ ~ fails /\ ~ nested.raised
             /\ heap' = new /\ root' = nested.tree /\ thetaPhase' = "ready"
             /\ UNCHANGED side
          \/ ~ (~ fails /\ ~ nested.raised) /\ ThetaRaises
    /\ UNCHANGED <<props, files, unwritten, saved, origin, updated, imported>>
MoveTheta == TransformTheta([i \in Range(root) |-> Moved(heap[i])],
                            \E t \in TensorsOf(root, heap) : ~ CanMove(t))
PlanarTheta == TransformTheta([i \in Range(root) |-> ToPlanar(heap[i])], FALSE)

\* Theta.pop: the names that begin with the string of the path leave the theta.
PopTheta(path) ==
    /\ CanOperate /\ Operated
    /\ LET out == {p \in DOMAIN root : StartsWith(p, path)}
       IN /\ side' = Restricted(root, out)
          /\ root' = Restricted(root, DOMAIN root \ out)
    /\ thetaPhase' = "ready"
    /\ UNCHANGED <<heap, props, files, unwritten, saved, origin, updated, imported>>

\* Theta.__call__: a branch, with the same tensors; or KeyError.
CallTheta(path) ==
    /\ CanOperate /\ Operated
    /\ \/ /\ \E p \in DOMAIN root : IsStrictPrefix(path, p)
          /\ side' = SubTheta(root, path)
          /\ thetaPhase' = "ready"
          /\ UNCHANGED <<heap, root>>
       \/ ~ (\E p \in DOMAIN root : IsPrefix(path, p)) /\ ThetaRaises
    /\ UNCHANGED <<props, files, unwritten, saved, origin, updated, imported>>

\* rename_tensors_to_paths, on the dataset's theta or on the other one; and the
\* other theta made the dataset's.
RenameTensorsToPaths(theta) ==
    /\ CanOperate /\ Operated /\ DOMAIN theta # {}
    /\ heap' = [i \in DOMAIN heap |->
                   IF \E p \in DOMAIN theta : theta[p] = i
                   THEN Renamed(heap[i], CHOOSE p \in DOMAIN theta : theta[p] = i) ELSE heap[i]]
    /\ thetaPhase' = "ready"
    /\ UNCHANGED <<root, side, props, files, unwritten, saved, origin, updated, imported>>
UseSide ==
    /\ CanOperate /\ Operated /\ DOMAIN side # {}
    /\ root' = side /\ side' = <<>> /\ thetaPhase' = "ready"
    /\ UNCHANGED <<heap, props, files, unwritten, saved, origin, updated, imported>>

\* reshard of a theta: every tensor is split, replicated or ignored; the result
\* takes the name of the tensor it was made of.
Resharded(t, spec) ==
    Renamed(InferenceTensor(IF spec = "split" THEN "SplitPrimitiveTensor" ELSE "ReplicatedTensor",
                            Unnamed,
                            [r \in ToSet(RankNames) |-> RawTensor(
                                IF spec = "split" THEN <<"piece", r, t.raws[""].data>>
                                ELSE t.raws[""].data)], <<>>),
            t.name)
ReshardTheta ==
    /\ CanOperate /\ Operated
    /\ \A p \in DOMAIN root : heap[root[p]].type = "PrimitiveTensor"
    /\ \E spec \in [DOMAIN root -> {"split", "replicated", "ignore"}] :
          LET kept == {p \in DOMAIN root : spec[p] # "ignore"}
              ids == Enumerated(kept)
          IN /\ heap' = heap \o [i \in 1 .. Len(ids) |->
                                     Resharded(heap[root[ids[i]]], spec[ids[i]])]
             /\ root' = [p \in kept |-> Len(heap) + CHOOSE i \in DOMAIN ids : ids[i] = p]
    /\ props' = props \union {"tensor_parallelism_size"}
    /\ thetaPhase' = "ready"
    /\ UNCHANGED <<side, files, unwritten, saved, origin, updated, imported>>

\* Dataset.save.  commit writes file after file; the process may die in between.
SaveDataset ==
    /\ CanOperate /\ Operated
    /\ unwritten' = ArchiveFiles([i \in DOMAIN Enumerated(DOMAIN root) |-> heap[root[Enumerated(DOMAIN root)[i]]]], props)
    /\ saved' = [tensors |-> {<<p, heap[root[p]]>> : p \in DOMAIN root},
                 props |-> props, done |-> FALSE]
    /\ thetaPhase' = "committing"
    /\ UNCHANGED <<heap, root, side, props, files, origin, updated, imported>>
WriteFile ==
    /\ thetaPhase = "committing"
    /\ files' = Overlay(files, [f \in {Head(unwritten)[1]} |-> Head(unwritten)[2]])
    /\ unwritten' = Tail(unwritten)
    /\ saved' = [saved EXCEPT !.done = Tail(unwritten) = <<>>]
    /\ thetaPhase' = IF Tail(unwritten) = <<>> THEN "ready" ELSE "committing"
    /\ UNCHANGED <<heap, root, side, props, origin, updated, imported, thetaOps>>
SaveDies ==
    /\ thetaPhase = "committing"
    /\ unwritten' = <<>>
    /\ thetaPhase' = "ready"
    /\ UNCHANGED <<heap, root, side, props, files, saved, origin, updated, imported, thetaOps>>

\* load_metadata: the root says which rank files there are.
RankFilesMissing(main) == ~ ToSet(main.ranks) \subseteq DOMAIN files

\* Dataset.load of an archive.  A missing file or entry, or a collision of names, raises.
LoadDataset ==
    /\ CanOperate /\ Operated /\ RootFile \in DOMAIN files
    /\ LET main == files[RootFile]
           entries == FoldLeft(LAMBDA acc, r : Overlay(acc, files[r].entries),
                               main.entries, main.ranks)
           absent == \E n \in DOMAIN main.metas : \E l \in DOMAIN main.metas[n].raws :
                        main.metas[n].raws[l] \notin DOMAIN entries
           names == Enumerated(DOMAIN main.metas)
           new == heap \o [i \in 1 .. Len(names) |->
                              CreateTensor(names[i], main.metas[names[i]], entries)]
           nested == Nested(ByName([i \in 1 .. Len(names) |-> Len(heap) + i], new))
           loads == ~ RankFilesMissing(main) /\ ~ absent /\ ~ nested.raised
       IN \/ /\ loads
             /\ heap' = new /\ root' = nested.tree /\ side' = <<>>
             /\ props' = main.props /\ origin' = entries
             /\ thetaPhase' = "loaded"
          \/ ~ loads /\ ThetaRaises /\ UNCHANGED <<props, origin>>
    /\ UNCHANGED <<files, unwritten, saved, updated, imported>>

-----------------------------------------------------------------------------
\* The quark importer.

\* hf_to_gguf.
HfToGguf(s) ==
    CASE s = <<"input_layernorm">> -> "attn_norm"
      [] s = <<"self_attn", "q_proj">> -> "attn_q"
      [] s = <<"self_attn", "k_proj">> -> "attn_k"
      [] s = <<"self_attn", "v_proj">> -> "attn_v"
      [] s = <<"self_attn", "o_proj">> -> "attn_output"
      [] s = <<"post_attention_layernorm">> -> "ffn_norm"
      [] s = <<"mlp", "gate_proj">> -> "ffn_gate"
      [] s = <<"mlp", "up_proj">> -> "ffn_up"
      [] s = <<"mlp", "down_proj">> -> "ffn_down"

\* The weight is rescaled and quantized with its layer's scale; the scales of the
\* input and the output become quantizers.
QuantizedWeight(name, layer) ==
    InferenceTensor("PlanarQuantizedTensor", name,
        ("d" :> RawTensor(layer \o <<"weight_scale">>))
        @@ ("qs" :> RawTensor(layer \o <<"weight">>)), "TensorScaledLayout")
ScaledQuantizer(name, scale) ==
    InferenceTensor("StaticScaledQuantizer", name,
        ("scale" :> RawTensor(<<"reciprocal", scale>>)) @@ ("rscale" :> RawTensor(scale)), <<>>)
PerLayerQuant(i, s, tree) ==
    LET layer == LayerName(i) \o s
        new == <<"blk", i, HfToGguf(s)>>
        quantizer(part, scale) ==
            IF layer \o <<scale>> \in DOMAIN tree
            THEN (new \o <<part>>) :> ScaledQuantizer(new \o <<part>>, layer \o <<scale>>) ELSE <<>>
    IN ((new \o <<"weight">>) :> QuantizedWeight(new \o <<"weight">>, layer))
       @@ quantizer("q_input", "input_scale") @@ quantizer("qdq_output", "output_scale")

\* Theta.tensor: a name that is not there raises.
HasTensor(tree, path) == path \in DOMAIN tree

\* A layer's linear layers are converted one by one, each taken out of the theta
\* by pop.
ApplyPerLayerQuant ==
    /\ thetaPhase = "importing"
    /\ imported < Len(ImportLayers) * Len(SubLayers)
    /\ LET i == ImportLayers[(imported \div Len(SubLayers)) + 1]
           s == SubLayers[(imported % Len(SubLayers)) + 1]
           layer == LayerName(i) \o s
           found == \A n \in {"weight", "weight_scale"} : HasTensor(root, layer \o <<n>>)
       IN \/ /\ found
             /\ updated' = Overlay(updated, PerLayerQuant(i, s, root))
             /\ root' = Restricted(root, {p \in DOMAIN root : ~ StartsWith(p, layer)})
             /\ imported' = imported + 1
             /\ UNCHANGED <<heap, side, thetaPhase>>
          \/ ~ found /\ ThetaRaises /\ UNCHANGED <<updated, imported>>
    /\ UNCHANGED <<props, files, unwritten, saved, origin, thetaOps>>

\* update_norm_layer for every layer, the stragglers, and the new dataset.  The
\* quantizer of the cache has another name than its key.
NormLayer(i) ==
    LET norm(s) == LET n == <<"blk", i, HfToGguf(<<s>>), "weight">>
                   IN n :> DefaultPrimitive(n, LayerName(i) \o <<s, "weight">>)
        cache == <<"blk", i, "kv_cache">>
    IN norm("input_layernorm") @@ norm("post_attention_layernorm")
       @@ (cache :> ScaledQuantizer(cache \o <<"quantizer">>,
                                    LayerName(i) \o <<"self_attn", "kv_scale">>))
SingleReplace(s) == s[2] :> DefaultPrimitive(s[2], s[1] \o <<"weight">>)
ImportEnds ==
    /\ thetaPhase = "importing"
    /\ imported = Len(ImportLayers) * Len(SubLayers)
    /\ LET all == FoldLeft(Overlay, updated,
                      [k \in 1 .. Len(ImportLayers) |-> NormLayer(ImportLayers[k])]
                      \o [k \in 1 .. Len(Stragglers) |-> SingleReplace(Stragglers[k])])
           used == { LayerName(i) \o n : i \in ToSet(ImportLayers),
                     n \in { <<"input_layernorm", "weight">>, <<"self_attn", "kv_scale">>,
                             <<"post_attention_layernorm", "weight">> } }
                   \union {s[1] \o <<"weight">> : s \in ToSet(Stragglers)}
           names == Enumerated(DOMAIN all)
           nested == Nested([k \in 1 .. Len(names) |-> <<names[k], k>>])
       IN \/ /\ (\A n \in used : HasTensor(root, n)) /\ ~ nested.raised
             /\ heap' = [k \in 1 .. Len(names) |-> all[names[k]]]
             /\ root' = nested.tree
             /\ side' = <<>>
             /\ thetaPhase' = "ready"
          \/ ~ ((\A n \in used : HasTensor(root, n)) /\ ~ nested.raised) /\ ThetaRaises
    /\ UNCHANGED <<props, files, unwritten, saved, origin, updated, imported, thetaOps>>

ThetaNext ==
    \/ MoveTheta \/ PlanarTheta
    \/ \E path \in PopPaths : PopTheta(path) \/ CallTheta(path)
    \/ RenameTensorsToPaths(root) \/ RenameTensorsToPaths(side) \/ UseSide
    \/ ReshardTheta \/ SaveDataset \/ WriteFile \/ SaveDies \/ LoadDataset
    \/ ApplyPerLayerQuant \/ ImportEnds

-----------------------------------------------------------------------------
\* What is loaded from an archive is what the last save, if it was completed,
\* put there: every tensor, at the path of its name, with the same elements (a
\* packed tensor in planar form), whatever renamed, moved, split or shared the
\* tensors before, and whatever rank files an earlier save has left
\* (Dataset.save: "Sufficient metadata is stored such that load() can
\* reconstitute the Dataset").  It is said of thetas whose tensors can be told
\* apart by name.
ApartByName(S) ==
    \A x, y \in S : x # y => ~ IsPrefix(x[2].name, y[2].name)
Contents(t) == [type |-> t.type, extra |-> t.extra,
                raws |-> [l \in DOMAIN t.raws |-> t.raws[l].data]]
LoadedAsSaved ==
    (thetaPhase = "loaded" /\ saved.done /\ ApartByName(saved.tensors))
        => /\ {<<p, Contents(heap[root[p]])>> : p \in DOMAIN root}
                 = {<<x[2].name, Contents(ToPlanar(x[2]))>> : x \in saved.tensors}
           /\ saved.props \subseteq props

\* A tensor of the dataset that is tagged as external is tagged with the entry
\* of the file it was loaded from that holds its elements, also after moves,
\* renames and pops: a program compiled with it finds its parameters there.
ExternalsResolve ==
    thetaPhase # "raised" =>
        \A p \in DOMAIN root : \A l \in DOMAIN heap[root[p]].raws :
            LET raw == heap[root[p]].raws[l]
            IN raw.ext # <<>> => raw.ext \in DOMAIN origin /\ origin[raw.ext] = raw.data

\* The importer, which pops a layer after it is converted, never misses a tensor
\* and keeps every weight it was given, once, with the scale of its own layer.
WeightNames == {n \in QuarkNames({}) : Last(n) = "weight"}
ImportKeepsWeights ==
    (imported > 0 /\ thetaPhase # "importing") =>
        /\ thetaPhase # "raised" \/ thetaOps > 0
        /\ (thetaPhase = "ready" /\ thetaOps = 0) =>
              \A n \in WeightNames :
                 Cardinality({p \in DOMAIN root : \E l \in DOMAIN heap[root[p]].raws :
                                 heap[root[p]].raws[l].data = n}) = 1

\* The three of them.
ParametersKept == LoadedAsSaved /\ ExternalsResolve /\ ImportKeepsWeights

\* base.py:96: "The annotation tag must be set on the actual leaf tensor which is
\* stored in the root theta": every tensor of a dataset that was just loaded is
\* tagged.
LeavesTagged ==
    (thetaPhase = "loaded" /\ \A p \in DOMAIN root : heap[root[p]].type # "ReplicatedTensor") =>
        \A p \in DOMAIN root : \A l \in DOMAIN heap[root[p]].raws :
            heap[root[p]].raws[l].ext # <<>>
=============================================================================
