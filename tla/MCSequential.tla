---------------------------- MODULE MCSequential -----------------------------
(***************************************************************************)
(* Four parts that one caller drives, for one run of TLC: the behaviours   *)
(* of the run are those of one part, chosen at the start, and the others   *)
(* rest in an initial state.  They are the two attention caches of the LLM *)
(* server, each with a pool of its own, of which prefix_sharing_algorithm  *)
(* chooses one (service.py); the generation of the tuner's candidates; and *)
(* the dimensions of arrays.                                               *)
(*                                                                         *)
(* The trie's prompts, of two tokens, share a first page, are equal,       *)
(* differ, or end inside a page.                                           *)
(***************************************************************************)
EXTENDS BaseCache, TrieCache, CandidateGen, InlinedDims

CONSTANTS Parts,   \* the parts to explore
          u, v, a1, a2

VARIABLE part      \* "none" or "trie" (of caches), "candidates" or "dims"

MCAllocs == {a1, a2}
MCSymmetry == Permutations(MCAllocs)
MCToken == {u, v}
MCPrompts == {<<u, u>>, <<u, u, u>>, <<u, u, v, v>>}
MCGenerated == {u}

Mma(name, mn, k, in, out) ==
    [name |-> name, m |-> mn, n |-> mn, k |-> k, a |-> in, b |-> in, c |-> out]
MCAllIntrinsics ==
    <<Mma("MFMA_F32_16x16x16_F16", 16, 16, "f16", "f32"),
      Mma("MFMA_F32_32x32x8_F16", 32, 8, "f16", "f32"),
      Mma("MFMA_I32_16x16x32_I8", 16, 32, "i8", "i32"),
      Mma("MFMA_I32_32x32x16_I8", 32, 16, "i8", "i32")>>
MCTargetMma == ToSet(MCAllIntrinsics)

Ty(elem, shape) == [elem |-> elem, shape |-> shape]
Types(in, out, l, r, s) == <<Ty(in, l), Ty(in, r), Ty(out, s)>>

\* A dispatch with all attributes, for a name; the names contain each other.
File(names, op, iters, maps, types) ==
    [mode |-> "files", names |-> names, translation |-> TRUE, lowering_config |-> TRUE,
     op |-> op, iters |-> iters, maps |-> maps, args |-> <<"x", "y", "z">>, types |-> types,
     attrs |-> TemplateAttrs, root |-> FALSE,
     lhs_dims |-> <<"m", "k">>, rhs_dims |-> <<"n", "k">>]
AsSpecs(f) == [f EXCEPT !.mode = "specs", !.root = TRUE]

BatchMmtName == {"batch_matmul_transpose_b", "batch_matmul", "matmul_transpose_b"}
BatchMaps == <<<<0, 1, 3>>, <<0, 2, 3>>, <<0, 1, 2>>>>
BroadcastMaps == <<<<0, 1, 3>>, <<2, 3>>, <<0, 1, 2>>>>
MmtMaps == <<<<0, 2>>, <<1, 2>>, <<0, 1>>>>

Mmt(in, out, M, N, K) ==
    File({"matmul_transpose_b"}, "generic", <<P, P, R>>, MmtMaps,
         Types(in, out, <<M, K>>, <<N, K>>, <<M, N>>))
BatchMmt == File(BatchMmtName, "generic", <<P, P, P, R>>, BatchMaps,
                 Types("i8", "i32", <<2, 64, 32>>, <<2, 64, 32>>, <<2, 64, 64>>))
Broadcast == File({"matmul_like"}, "generic", <<P, P, P, R>>, BroadcastMaps,
                  Types("i8", "i32", <<2, 64, 32>>, <<64, 32>>, <<2, 64, 64>>))
BatchMatmul(elem) ==
    [File({"batch_matmul"}, "batch_matmul", << >>, << >>,
          Types(elem, "f32", <<2, 64, 32>>, <<2, 32, 64>>, <<2, 64, 64>>))
     EXCEPT !.lhs_dims = <<"b", "m", "k">>, !.rhs_dims = <<"b", "k", "n">>]
Conv == File({"conv_2d_nhwc_hwcf"}, "conv_2d_nhwc_hwcf", << >>, << >>,
             Types("f16", "f32", <<2, 2, 64, 64>>, <<1, 1, 64, 64>>, <<2, 2, 64, 64>>))
Contraction == [Mmt("f16", "f32", 64, 64, 32) EXCEPT !.names = {"matmul_like"}]

MCDispatches ==
    { Mmt("f16", "f32", 64, 64, 64), Mmt("i8", "i32", 64, 96, 64), Mmt("i8", "i32", 64, 32, 32),
      Mmt("f16", "i32", 64, 64, 64),
      BatchMmt, Broadcast, BatchMatmul("f16"), BatchMatmul("bf16"), Conv, Contraction,
      [Mmt("f16", "f32", 64, 64, 32) EXCEPT !.translation = FALSE],
      [Contraction EXCEPT !.attrs = {"workgroup", "reduction"}],
      AsSpecs(Mmt("f16", "f32", 64, 64, 64)), AsSpecs(BatchMmt), AsSpecs(Broadcast), AsSpecs(Conv),
      [AsSpecs(Mmt("f16", "f32", 64, 64, 64)) EXCEPT !.args = <<"x", "x", "z">>] }

-----------------------------------------------------------------------------
\* The dispatch for which nothing is generated while another part runs.
GenRests == dispatch = Contraction

SequentialInit ==
    /\ part \in Parts
    /\ Init /\ TrieInit /\ DimsInit
    /\ GenInit /\ (part # "candidates" => GenRests)

\* A generation that is over, which is no deadlock.
GenOver == genStep \in {"done", "raised"} /\ UNCHANGED genVars

SequentialNext ==
    \/ part = "none" /\ Next /\ UNCHANGED <<part, trieCacheVars, genVars, dimsVars>>
    \/ part = "trie" /\ TrieNext /\ UNCHANGED <<part, vars, genVars, dimsVars>>
    \/ /\ part = "candidates" /\ (GenNext \/ GenOver)
       /\ UNCHANGED <<part, vars, trieCacheVars, dimsVars>>
    \/ part = "dims" /\ DimsNext /\ UNCHANGED <<part, vars, trieCacheVars, genVars>>

sequentialVars == <<part, vars, trieCacheVars, genVars, dimsVars>>

SequentialSpec == SequentialInit /\ [][SequentialNext]_sequentialVars
=============================================================================
