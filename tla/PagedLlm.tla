------------------------------ MODULE PagedLlm ------------------------------
(***************************************************************************)
(* Batched generation by a llama model over a K/V cache:                   *)
(* sharktank/examples/paged_llm_v1.py (TorchGenerator, Batch),             *)
(* layers/causal_llm.py (the masks), layers/paged_llama_attention_block.py, *)
(* layers/kv_cache.py (the paged and the direct cache) and                 *)
(* models/llama, models/mixtral and models/grok (prefill, decode, the       *)
(* experts); and the perplexity of prompts, measured with such a batch:    *)
(* evaluate/perplexity_*.py, utils/load_llm.py and utils/tokenizer.py.      *)
(*                                                                         *)
(* The arithmetic is left uninterpreted: a hidden state is the term that   *)
(* computes it.  A key is <<"k", block, hidden, rotary position>>, a value  *)
(* <<"v", block, hidden>>, and attention a query with the set of key/value  *)
(* pairs the mask lets through.  A masked position has weight zero; that   *)
(* its element is finite is assumed (torch.empty does not promise it).     *)
(* Rows, positions, blocks and pages count from 0, as in the code.         *)
(***************************************************************************)
EXTENDS Integers, Sequences, FiniteSets, FiniteSetsExt, SequencesExt

CONSTANTS
    Rows,            \* the number of prompts of the batch
    PromptLens,      \* the lengths a prompt may have
    BlockSeqStride,  \* positions per page
    BlockCount,      \* transformer blocks
    PageCount,       \* page_cache_size
    Archs,           \* of "llama", "mixtral" and "grok"
    Evaluators,      \* of "torch", "iree" and "prefill"
    ContextLength,   \* hp.context_length
    MaxTokens        \* bound: decode steps explored

VARIABLES
    arch,            \* the model: hp.expert_count and hp.model_arch
    evaluator,       \* the perplexity tool that runs, or "none": generation
    promptLens,      \* the lengths of the prompts it measures
    scored,          \* its out_logits
    cacheType,       \* kv_cache_type
    freePages,       \* TorchGenerator.free_pages
    cells,           \* cache_state
    seqLens,         \* Batch.seq_lens
    blockIds,        \* Batch.seq_block_ids
    nextTokens,      \* Batch.next_tokens
    doneRows,        \* Batch.done_result_indices
    logits,          \* the logits the last call extracted tokens from
    fed,             \* history: the tokens each row has shown to the model
    steps,           \* decode steps taken
    pagedPhase       \* "begin", "prefill", "decode", "evaluated" or "failed"

pagedVars == <<arch, evaluator, promptLens, scored, cacheType, freePages, cells, seqLens,
               blockIds, nextTokens, doneRows, logits, fed, steps, pagedPhase>>

RowIds == 0 .. Rows - 1
EndToken == <<"end">>
PadToken == <<"pad">>
Ceil(a, b) == (a + b - 1) \div b
MaxRow(f) == Max({f[r] : r \in RowIds})

-----------------------------------------------------------------------------
\* The cache.  Where an element lives: a paged cache flattens its table to
\* sub-blocks [page, transformer block, partition] of BlockSeqStride positions;
\* a direct cache has a tensor [row, position] per transformer block and
\* partition.
PartitionCount == 2
SubblockIdTight(page, blk, part) ==
    page * BlockCount + blk * PartitionCount + part
SubblockId(page, blk, part) ==
    page * (BlockCount * PartitionCount) + blk * PartitionCount + part
PagedLoc(ids, r, blk, part, pos) ==
    <<SubblockId(ids[r][pos \div BlockSeqStride + 1], blk, part), pos % BlockSeqStride>>
DirectLoc(r, blk, part, pos) == <<blk * PartitionCount + part, r, pos>>
Loc(ids, r, blk, part, pos) ==
    IF cacheType = "paged" THEN PagedLoc(ids, r, blk, part, pos)
    ELSE DirectLoc(r, blk, part, pos)

\* An element that was never written: allocate fills nothing in.
Garbage == <<"garbage">>
Read(c, loc) == IF loc \in DOMAIN c THEN c[loc] ELSE Garbage

\* The elements of the cache after some are written; W is a set of <<loc, value>>
\* with one value per location.
Written(c, W) ==
    LET locs == {w[1] : w \in W}
    IN [l \in DOMAIN c \union locs |->
           IF l \in locs THEN (CHOOSE w \in W : w[1] = l)[2] ELSE c[l]]

-----------------------------------------------------------------------------
\* The model.
Key(blk, h, pos) == <<"k", blk, h, pos>>
Val(blk, h) == <<"v", blk, h>>
Partition(blk, part, h, pos) == IF part = 0 THEN Key(blk, h, pos) ELSE Val(blk, h)

\* What a transformer block adds to its input: attention of the query at a
\* position over the pairs, and a feed-forward network.  h is a batch of hidden
\* states, n positions a row.
PagedAttention(h, pos, pairs) == <<h, pos, pairs>>
Ffn(h, n) == [r \in RowIds |-> [p \in 0 .. n - 1 |-> <<"ffn", h[r][p]>>]]

\* A mixture of experts works on the batch as a list of Rows * n rows: each has
\* its own experts, and the weights of those are gathered for it.
RouterChoice(a) == <<"router", a>>
PreGatherFfn(inputs, experts, m) == <<"moe", inputs[m], experts[m]>>
FlatRows(h, n) == [m \in 0 .. Rows * n - 1 |-> h[m \div n][m % n]]
MoeBlock(h, n) ==
    LET inputs == FlatRows(h, n)
        experts == [m \in DOMAIN inputs |-> RouterChoice(inputs[m])]
    IN [r \in RowIds |-> [p \in 0 .. n - 1 |-> PreGatherFfn(inputs, experts, r * n + p)]]

\* What follows the attention of a block.
BlockFeed(moe, h, n) == IF moe THEN MoeBlock(h, n) ELSE Ffn(h, n)

\* CausalLMModel: what is masked.
InputMask(len, t) == t >= len
CausalMask(p, t) == t > p
Attends(len, p, t) == ~ CausalMask(p, t) /\ ~ InputMask(len, t)

\* prefill: the hidden states that enter block b, for every row and position
\* of the padded batch; keys and values come from the batch itself.
PrefillHidden(embedded, lens, seqLen, moe) ==
    LET hid[b \in 0 .. BlockCount] ==
            IF b = 0 THEN embedded
            ELSE BlockFeed(moe, [r \in RowIds |-> [p \in 0 .. seqLen - 1 |->
                     PagedAttention(hid[b - 1][r][p], p,
                           { <<Key(b - 1, hid[b - 1][r][t], t), Val(b - 1, hid[b - 1][r][t])>> :
                             t \in {u \in 0 .. seqLen - 1 : Attends(lens[r], p, u)} })]], seqLen)
    IN hid

\* decode: one position per row, whose key and value are written before the
\* whole sequence is read back, block by block.
DecodeHidden(c, embedded, start, lens, ids, kvLen, moe) ==
    LET hid[b \in 0 .. BlockCount] ==
            IF b = 0 THEN embedded
            ELSE LET h == hid[b - 1]
                     now == Written(c, { <<Loc(ids, r, b - 1, part, start[r]),
                                           Partition(b - 1, part, h[r][0], start[r])>> :
                                         r \in RowIds, part \in {0, 1} })
                 IN BlockFeed(moe, [r \in RowIds |-> [p \in {0} |->
                        PagedAttention(h[r][0], start[r],
                              { <<Read(now, Loc(ids, r, b - 1, 0, t)),
                                  Read(now, Loc(ids, r, b - 1, 1, t))>> :
                                t \in {u \in 0 .. kvLen - 1 : ~ InputMask(lens[r], u)} })]], 1)
    IN hid

\* The three models: the hidden states of their blocks, and their logits.  grok
\* scales its embeddings and its logits.
OnBatch(F(_), h) == [r \in RowIds |-> [p \in DOMAIN h[r] |-> F(h[r][p])]]
Scaled(x) == <<"scaled", x>>
PlainLogits(hid) == [hid |-> hid, logits |-> hid[BlockCount]]
ScaledLogits(hid) == [hid |-> hid, logits |-> OnBatch(Scaled, hid[BlockCount])]

LlamaPrefill(tokens, lens, n) == PlainLogits(PrefillHidden(tokens, lens, n, FALSE))
MixtralPrefill(tokens, lens, n) == PlainLogits(PrefillHidden(tokens, lens, n, TRUE))
GrokPrefill(tokens, lens, n) ==
    ScaledLogits(PrefillHidden(OnBatch(Scaled, tokens), lens, n, TRUE))
ModelPrefill(tokens, lens, n) ==
    CASE arch = "llama" -> LlamaPrefill(tokens, lens, n)
      [] arch = "mixtral" -> MixtralPrefill(tokens, lens, n)
      [] arch = "grok" -> GrokPrefill(tokens, lens, n)

LlamaDecode(tokens, start, lens, ids, kvLen) ==
    PlainLogits(DecodeHidden(cells, tokens, start, lens, ids, kvLen, FALSE))
MixtralDecode(tokens, start, lens, ids, kvLen) ==
    PlainLogits(DecodeHidden(cells, tokens, start, lens, ids, kvLen, TRUE))
GrokDecode(tokens, start, lens, ids, kvLen) ==
    ScaledLogits(DecodeHidden(cells, OnBatch(Scaled, tokens), start, lens, ids, kvLen, TRUE))
ModelDecode(tokens, start, lens, ids, kvLen) ==
    CASE arch = "llama" -> LlamaDecode(tokens, start, lens, ids, kvLen)
      [] arch = "mixtral" -> MixtralDecode(tokens, start, lens, ids, kvLen)
      [] arch = "grok" -> GrokDecode(tokens, start, lens, ids, kvLen)

-----------------------------------------------------------------------------
\* Batch.

\* free_pages.pop takes the last page; a direct cache needs none.
PagesOf(pages, n) == IF cacheType = "direct" THEN [i \in 1 .. n |-> 0]
                     ELSE [i \in 1 .. n |-> pages[Len(pages) + 1 - i]]
RemainingOf(pages, n) == IF cacheType = "direct" THEN pages
                         ELSE SubSeq(pages, 1, Len(pages) - n)
EnoughOf(pages, n) == cacheType = "direct" \/ n <= Len(pages)

\* The pages of each row after the missing ones are allocated row by row.
Missing(ids, needed, r) == IF needed[r] > Len(ids[r]) THEN needed[r] - Len(ids[r]) ELSE 0
MissingBefore(ids, needed, r) == MapThenSumSet(LAMBDA q : Missing(ids, needed, q), 0 .. r - 1)
AllocatedOf(pages, ids, needed) ==
    LET all == PagesOf(pages, MissingBefore(ids, needed, Rows))
    IN [r \in RowIds |->
           ids[r] \o SubSeq(all, MissingBefore(ids, needed, r) + 1,
                            MissingBefore(ids, needed, r + 1))]

\* allocate_seq_block_ids: a full last page asks for one more.
NeededBlocks(sl) ==
    IF sl % BlockSeqStride = 0 THEN sl \div BlockSeqStride + 1 ELSE Ceil(sl, BlockSeqStride)

\* pad_block_ids: rows are padded with page 0, which no row owns.
PadBlockIds(ids) ==
    LET n == Max({Len(ids[r]) : r \in RowIds})
    IN [r \in RowIds |-> ids[r] \o [i \in 1 .. n - Len(ids[r]) |-> 0]]

\* Which padded block's elements stay in page 0: index_copy_ with an index that
\* occurs several times leaves one of them.
PaddedBlocks(ids) == {<<r, j>> \in RowIds \X (1 .. Len(ids[0])) : ids[r][j] = 0}
Survivors(ids) == IF PaddedBlocks(ids) = {} THEN {<<>>} ELSE PaddedBlocks(ids)
Lands(ids, survivor, r, p) ==
    \/ cacheType = "direct"
    \/ ids[r][p \div BlockSeqStride + 1] # 0
    \/ survivor = <<r, p \div BlockSeqStride + 1>>

\* A row's logits give any token, one not seen yet or the end (the argmax is
\* left open).  add_result_token marks the rows that ended; they go on being
\* decoded with the others.
AddResultToken ==
    \E ends \in SUBSET RowIds :
        /\ nextTokens' = [r \in RowIds |-> IF r \in ends THEN EndToken
                                           ELSE <<"token", r, seqLens'[r]>>]
        /\ doneRows' = doneRows \union ends

PagedInit ==
    /\ arch \in Archs
    /\ evaluator = "none"
    /\ promptLens = [r \in RowIds |-> 0]
    /\ scored = [r \in RowIds |-> <<>>]
    /\ cacheType \in {"paged", "direct"}
    /\ freePages = [i \in 1 .. PageCount - 1 |-> i]
    /\ cells = <<>>
    /\ seqLens = [r \in RowIds |-> 0]
    /\ blockIds = [r \in RowIds |-> <<>>]
    /\ nextTokens = [r \in RowIds |-> PadToken]
    /\ doneRows = {}
    /\ logits = [r \in RowIds |-> Garbage]
    /\ fed = [r \in RowIds |-> <<>>]
    /\ steps = 0
    /\ pagedPhase = "begin"

\* Batch.__init__: each row gets a page for every BlockSeqStride of its tokens.
\* Without a free page, pop raises.
Assemble(lens, pages) ==
    \E needed \in {[r \in RowIds |-> Ceil(lens[r], BlockSeqStride)]} :
    \E total \in {MissingBefore([r \in RowIds |-> <<>>], needed, Rows)} :
        /\ seqLens' = lens
        /\ cells' = <<>> /\ doneRows' = {}
        /\ \/ /\ EnoughOf(pages, total)
              /\ blockIds' = AllocatedOf(pages, [r \in RowIds |-> <<>>], needed)
              /\ freePages' = RemainingOf(pages, total)
              /\ pagedPhase' = "prefill"
           \/ /\ ~ EnoughOf(pages, total)
              /\ pagedPhase' = "failed"
              /\ UNCHANGED <<blockIds, freePages>>

\* begin_batch: the prompts are tokenized.
BeginBatch ==
    /\ pagedPhase = "begin"
    /\ \E lens \in [RowIds -> PromptLens] :
          /\ fed' = [r \in RowIds |-> [i \in 1 .. lens[r] |-> <<"token", r, i - 1>>]]
          /\ Assemble(lens, freePages)
    /\ UNCHANGED <<arch, evaluator, promptLens, scored, cacheType, nextTokens, logits, steps>>

\* What each tool keeps of a prefill's logits.
TorchScore(out, row, seqLen) == Append(out, row[0])
IreeScore(out, row, seqLen) == Append(out, row[seqLen - 1])
PrefixScore(out, row, seqLen) == Append(out, row[0])
Score(out, row, seqLen) ==
    CASE evaluator = "none" -> out
      [] evaluator = "torch" -> TorchScore(out, row, seqLen)
      [] evaluator = "iree" -> IreeScore(out, row, seqLen)
      [] evaluator = "prefill" -> PrefixScore(out, row, seqLen)

\* The forward pass of a batch's prefill, on rows padded to a whole number of
\* pages; a batch longer than the rotary table fails.
PrefillBatch ==
    /\ \E seqLen \in {BlockSeqStride * Ceil(MaxRow(seqLens), BlockSeqStride)} :
       \E ids \in {PadBlockIds(blockIds)} :
       \E out \in { ModelPrefill(
                      [r \in RowIds |-> [p \in 0 .. seqLen - 1 |->
                          IF p < seqLens[r] THEN fed[r][p + 1] ELSE PadToken]],
                      seqLens, seqLen) } :
       \E survivor \in Survivors(ids) :
          /\ seqLen <= ContextLength
          /\ cells' = Written(cells,
                 UNION { { <<Loc(ids, r, b, part, p), Partition(b, part, out.hid[b][r][p], p)>> :
                           b \in 0 .. BlockCount - 1, part \in {0, 1},
                           p \in {q \in 0 .. seqLen - 1 : Lands(ids, survivor, r, q)} } :
                         r \in RowIds })
          /\ logits' = [r \in RowIds |-> out.logits[r][seqLens[r] - 1]]
          /\ scored' = [r \in RowIds |-> Score(scored[r], out.logits[r], seqLen)]
    /\ UNCHANGED <<arch, evaluator, promptLens, cacheType, freePages, seqLens, blockIds, fed, steps>>
    /\ AddResultToken

\* The forward pass of a decode step: a row's token goes to the position after
\* its last one.
DecodeBatch(tokens) ==
    /\ \E lens \in {[r \in RowIds |-> seqLens[r] + 1]} :
       \E needed \in {[r \in RowIds |-> NeededBlocks(lens[r])]} :
       \E total \in {MissingBefore(blockIds, needed, Rows)} :
          /\ EnoughOf(freePages, total)
          /\ seqLens' = lens
          /\ blockIds' = AllocatedOf(freePages, blockIds, needed)
          /\ freePages' = RemainingOf(freePages, total)
    /\ \E ids \in {PadBlockIds(blockIds')} :
       \E kvLen \in {Len(ids[0]) * BlockSeqStride} :
       \E out \in {ModelDecode([r \in RowIds |-> [p \in {0} |-> tokens[r]]],
                               seqLens, seqLens', ids, kvLen)} :
          /\ kvLen <= ContextLength
          /\ cells' = Written(cells,
                 { <<Loc(ids, r, b, part, seqLens[r]),
                     Partition(b, part, out.hid[b][r][0], seqLens[r])>> :
                   r \in RowIds, b \in 0 .. BlockCount - 1, part \in {0, 1} })
          /\ logits' = [r \in RowIds |-> out.logits[r][0]]
          /\ scored' = IF evaluator = "none" THEN scored
                       ELSE [r \in RowIds |-> Append(scored[r], out.logits[r][0])]
    /\ fed' = [r \in RowIds |-> Append(fed[r], tokens[r])]
    /\ steps' = steps + 1
    /\ AddResultToken
    /\ UNCHANGED <<arch, evaluator, promptLens, cacheType>>

\* Generation: Batch.prefill and Batch.decode of paged_llm_v1.py.
Prefill ==
    /\ pagedPhase = "prefill" /\ evaluator = "none"
    /\ PrefillBatch
    /\ pagedPhase' = "decode"
Decode ==
    /\ pagedPhase = "decode" /\ evaluator = "none"
    /\ doneRows # RowIds
    /\ steps < MaxTokens
    /\ DecodeBatch(nextTokens)
    /\ UNCHANGED pagedPhase

-----------------------------------------------------------------------------
\* The perplexity tools.  The prompts, padded by the tokenizer, are fed token by
\* token: the first by prefill, the others by decode (or every prefix by a
\* prefill of its own); row r's logits of position i are compared with its token
\* i + 1, where that is no padding.
TokenId(r, p) == IF p < promptLens[r] THEN <<"token", r, p>> ELSE PadToken
PaddedLen(lens) == BlockSeqStride * Ceil(MaxRow(lens), BlockSeqStride)
Compared(r, i) == TokenId(r, i) # PadToken
PageCacheSize(lens) == (PaddedLen(lens) \div BlockSeqStride) * Rows + 1

\* begin_eval_batch, with the first token of every row; without a second token
\* anywhere nothing is scored, and what follows raises.
BeginEvaluation ==
    /\ pagedPhase = "begin"
    /\ evaluator' \in Evaluators
    /\ promptLens' \in [RowIds -> PromptLens]
    /\ fed' = [r \in RowIds |-> <<TokenId(r, 0)'>>]
    /\ \/ /\ MaxRow(promptLens') > 1
          /\ Assemble([r \in RowIds |-> 1],
                      [i \in 1 .. PageCacheSize(promptLens') - 1 |-> i])
       \/ /\ MaxRow(promptLens') <= 1
          /\ pagedPhase' = "failed"
          /\ UNCHANGED <<seqLens, cells, doneRows, blockIds, freePages>>
    /\ UNCHANGED <<arch, scored, cacheType, nextTokens, logits, steps>>

\* The loop over range(max_prompt_length - 1) goes on.
Continues(done) == done < MaxRow(promptLens) - 1
Continued == IF Continues(Len(scored'[0])) THEN "decode" ELSE "evaluated"
EvalPrefill ==
    /\ pagedPhase = "prefill" /\ evaluator = "torch"
    /\ PrefillBatch
    /\ pagedPhase' = Continued
PrefillVmfb ==
    /\ pagedPhase = "prefill" /\ evaluator = "iree"
    /\ PrefillBatch
    /\ pagedPhase' = Continued
EvalDecode ==
    /\ pagedPhase = "decode" /\ evaluator = "torch"
    /\ DecodeBatch([r \in RowIds |-> TokenId(r, Len(fed[r]))])
    /\ pagedPhase' = Continued
DecodeVmfb ==
    /\ pagedPhase = "decode" /\ evaluator = "iree"
    /\ DecodeBatch([r \in RowIds |-> TokenId(r, Len(fed[r]))])
    /\ pagedPhase' = Continued

\* perplexity_prefill.py: a new batch for every prefix.
PrefixPrefill ==
    /\ pagedPhase = "prefill" /\ evaluator = "prefill"
    /\ PrefillBatch
    /\ pagedPhase' = Continued
NextPrefix ==
    /\ pagedPhase = "decode" /\ evaluator = "prefill"
    /\ fed' = [r \in RowIds |-> Append(fed[r], TokenId(r, Len(fed[r])))]
    /\ Assemble([r \in RowIds |-> Len(fed'[r])], [i \in 1 .. PageCount - 1 |-> i])
    /\ UNCHANGED <<arch, evaluator, promptLens, scored, cacheType, nextTokens, logits, steps>>

-----------------------------------------------------------------------------
\* The steps that raise: no free page, or a cache longer than the context.
Raised ==
    /\ pagedPhase' = "failed"
    /\ UNCHANGED <<arch, evaluator, promptLens, scored, cacheType, freePages, cells, seqLens,
                   blockIds, nextTokens, doneRows, logits, fed, steps>>
DecodeFails ==
    /\ pagedPhase = "decode" /\ evaluator # "prefill"
    /\ evaluator = "none" => doneRows # RowIds
    /\ \E needed \in {[r \in RowIds |-> NeededBlocks(seqLens[r] + 1)]} :
          \/ ~ EnoughOf(freePages, MissingBefore(blockIds, needed, Rows))
          \/ MaxRow(needed) * BlockSeqStride > ContextLength
    /\ Raised
PrefillFails ==
    /\ pagedPhase = "prefill"
    /\ BlockSeqStride * Ceil(MaxRow(seqLens), BlockSeqStride) > ContextLength
    /\ Raised

PagedNext ==
    \/ BeginBatch \/ Prefill \/ PrefillFails \/ Decode \/ DecodeFails
    \/ BeginEvaluation \/ EvalPrefill \/ EvalDecode \/ PrefillVmfb \/ DecodeVmfb
    \/ PrefixPrefill \/ NextPrefix

-----------------------------------------------------------------------------
\* The logits of a sequence, computed from its tokens alone: no cache, no
\* padding, no other row.
UncachedFfn(a) == IF arch = "llama" THEN <<"ffn", a>> ELSE <<"moe", a, RouterChoice(a)>>
ScaledIf(x) == IF arch = "grok" THEN Scaled(x) ELSE x
Uncached(tokens) ==
    LET n == Len(tokens)
        hid[b \in 0 .. BlockCount] ==
            IF b = 0 THEN [p \in 0 .. n - 1 |-> ScaledIf(tokens[p + 1])]
            ELSE [p \in 0 .. n - 1 |->
                     UncachedFfn(PagedAttention(hid[b - 1][p], p,
                           { <<Key(b - 1, hid[b - 1][t], t), Val(b - 1, hid[b - 1][t])>> :
                             t \in 0 .. p }))]
    IN ScaledIf(hid[BlockCount][n - 1])

\* Every token a row is given, by prefill or by a decode step, is chosen from
\* the logits its own tokens alone would give, whatever pages hold them, however
\* the rows are padded, and whichever rows have ended: batching and caching
\* (paged_llm_v1.py Batch, kv_cache.py) never change what a row generates.
GeneratesAsUncached ==
    pagedPhase = "decode" => \A r \in RowIds : logits[r] = Uncached(fed[r])

\* The logits that are compared with a token of a prompt are those the tokens
\* before it alone would give; a run that ends has scored every token but the
\* first; and the pages page_cache_size provides are always enough
\* (perplexity_torch.py get_logits, get_perplexity).  The other two tools do not
\* do so everywhere: the first logits of perplexity_iree.py are those of the last
\* padded position, and all those of perplexity_prefill.py are of position 0.
ScoresPrompt(i) ==
    \A r \in RowIds : Compared(r, i) =>
        scored[r][i] = Uncached([j \in 1 .. i |-> TokenId(r, j - 1)])
AlignedAt == CASE evaluator = "torch" -> 1 .. Len(scored[0])
             [] evaluator = "iree" -> 2 .. Len(scored[0])
             [] evaluator = "prefill" -> {1} \intersect (1 .. Len(scored[0]))
PerplexityOfPrompts ==
    evaluator # "none" =>
        /\ \A i \in AlignedAt : ScoresPrompt(i)
        /\ pagedPhase = "evaluated" => \A r \in RowIds : Len(scored[r]) >= promptLens[r] - 1
        /\ (pagedPhase = "failed" /\ evaluator # "prefill") =>
              MaxRow(promptLens) <= 1 \/ PaddedLen(promptLens) > ContextLength

\* Both.
BatchedAsAlone == GeneratesAsUncached /\ PerplexityOfPrompts

\* perplexity_iree.py:56 and perplexity_prefill.py:47: "It is defined as the
\* exponentiated average negative log-likelihood of a sequence": each tool compares
\* every token with the logits of the tokens before it.
EveryToolScoresPrompts ==
    evaluator # "none" => \A i \in 1 .. Len(scored[0]) : ScoresPrompt(i)
=============================================================================
