----------------------------- MODULE TrieCache -----------------------------
(***************************************************************************)
(* TriePagedAttentionCache: prefix sharing with reference counts and LRU   *)
(* eviction (kvcache/trie_attention_cache.py) on top of the page pool.     *)
(*                                                                         *)
(* The cache has no lock: all calls come from the processes of one worker, *)
(* and none of them awaits, so each call is one step, with everything the  *)
(* call does before it returns or raises.                                  *)
(*                                                                         *)
(* time.monotonic() is only ever compared: lru lists the nodes by their    *)
(* access_time, oldest first, and two readings of the clock are taken to   *)
(* differ.                                                                 *)
(***************************************************************************)
EXTENDS Integers, SequencesExt

CONSTANTS PoolPages,       \* alloc_page_count of the cache's pool
          TrieAllocs,      \* variables that refer to an allocation
          Token,           \* token ids
          Prompts,         \* token sequences that acquire is called with
          Generated,       \* tokens that the model generates
          BlockTokens,     \* tokens_per_page
          MaxNodes,        \* bound: nodes ever created, without the root
          MaxExtended,     \* bound: longest sequence extended with
          MaxGrown,        \* bound: longest list that grows in place
          MaxRefs          \* bound: largest ref_count reached by acquire

ASSUME TrieCacheAssumption ==
    /\ PoolPages \in Nat /\ IsFiniteSet(TrieAllocs)
    /\ Prompts \subseteq Seq(Token)
    /\ Generated \subseteq Token
    /\ BlockTokens \in Nat \ {0}
    /\ MaxNodes \in Nat
    /\ MaxExtended \in Nat
    /\ MaxGrown \in Nat
    /\ MaxRefs \in Nat

Root == 0
None == -1
Nodes == 0 .. MaxNodes           \* TrieNode objects in order of creation
Block == [1 .. BlockTokens -> Token]   \* the token tuple of a full page

VARIABLES free_list, \* available_pages of the pool
          node,      \* tokens (block), page, parent and ref_count of each node
          children,  \* children of each node: a dict from block to node
          born,      \* number of nodes created
          leaves,    \* self.leaves
          lru,       \* the nodes but the root, by access_time
          alloc,     \* the allocation object each variable refers to
          outcome    \* what the last call did: "ok" or the exception it raised

Pool == INSTANCE PagePool WITH AllocPageCount <- PoolPages, available_pages <- free_list

trieVars == <<node, children, born, leaves, lru>>
trieCacheVars == <<free_list, trieVars, alloc, outcome>>

NoBlock == << >>
Errors == {"CacheAllocationFailure", "KeyError", "AttributeError"}

\* The variables keep their types; leaves are nodes that exist, never the root,
\* and every node but the root has its place in the access order.
TrieTypeOK ==
    /\ Pool!PoolTypeOK
    /\ node \in [Nodes -> [block : Block \cup {NoBlock}, page : Pool!Pages \cup {None},
                           parent : Nodes \cup {None}, ref : Int]]
    /\ \A n \in Nodes : DOMAIN children[n] \subseteq Block /\ Range(children[n]) \subseteq Nodes
    /\ born \in 0 .. MaxNodes
    /\ leaves \subseteq 1 .. born
    /\ IsInjective(lru) /\ Range(lru) = 1 .. born
    /\ alloc \in [TrieAllocs -> [live : BOOLEAN, tokens : Seq(Token), last : Nodes,
                             pages : Seq(Pool!Pages), published : Nat,
                             same : BOOLEAN]]
    /\ outcome \in {"ok"} \cup Errors

\* The root's page is a PageInfo made for it, with index 0: not one of the
\* pool's objects.
TrieInit ==
    /\ Pool!PoolInit
    /\ node = [n \in Nodes |-> [block |-> NoBlock, page |-> None,
                                parent |-> None, ref |-> 0]]
    /\ children = [n \in Nodes |-> << >>]
    /\ born = 0
    /\ leaves = {}
    /\ lru = << >>
    /\ alloc = [a \in TrieAllocs |-> [live |-> FALSE, tokens |-> << >>, last |-> Root,
                                  pages |-> << >>, published |-> 0, same |-> FALSE]]
    /\ outcome = "ok"

----------------------------------------------------------------------------
(***************************************************************************)
(* Token blocks and the walk down the trie.                                *)
(***************************************************************************)

TriePagesFor(n) == (n + BlockTokens - 1) \div BlockTokens

\* tokens[i * tokens_per_page : (i + 1) * tokens_per_page], i counted from 1.
BlockAt(tokens, i) ==
    SubSeq(tokens, (i - 1) * BlockTokens + 1, i * BlockTokens)

FullBlocks(tokens) == Len(tokens) \div BlockTokens

\* _match: the nodes on the longest matching path, without the root.  A last
\* block that is not full is no key of any children dict.
MatchedPath(tokens) ==
    LET walk[i \in 0 .. FullBlocks(tokens)] ==
          IF i = 0 THEN << >>
          ELSE LET path == walk[i - 1]
                   cur == IF path = << >> THEN Root ELSE Last(path)
                   b == BlockAt(tokens, i)
               IN  IF Len(path) = i - 1 /\ b \in DOMAIN children[cur]
                   THEN Append(path, children[cur][b])
                   ELSE path
    IN  walk[FullBlocks(tokens)]

\* access_time = time.monotonic() on every node of a path, in order.
Touch(order, path) ==
    LET others[i \in 0 .. Len(order)] ==
          IF i = 0 THEN << >>
          ELSE IF order[i] \in Range(path) THEN others[i - 1]
          ELSE Append(others[i - 1], order[i])
    IN  others[Len(order)] \o path

----------------------------------------------------------------------------
(***************************************************************************)
(* _evict_pages(max_pages), given the access order.  The local heap may    *)
(* hold a node twice.  An exception ends the loop where it is raised and   *)
(* skips the final free_pages.                                             *)
(***************************************************************************)

\* A node's place in the access order, 0 for one that is not there.
Position(order, leaf) == SelectInSeq(order, LAMBDA n : n = leaf)

\* heappop: the entry with the oldest access_time.
OldestEntry(heap, order) ==
    CHOOSE i \in DOMAIN heap :
       \A j \in DOMAIN heap : /\ Position(order, heap[i]) <= Position(order, heap[j])
                              /\ heap[i] = heap[j] => i <= j

\* Mutant: the parent keeps the evicted child.
UnlinkedHalf(st, leaf) == [st EXCEPT !.node[leaf].parent = None]

\* TrieNode.unlink on the loop's state: del parent.children[tokens].
Unlinked(st, leaf) ==
    LET parent == st.node[leaf].parent
        b == st.node[leaf].block
    IN  IF parent = None THEN st
        ELSE IF b \notin DOMAIN st.children[parent]
             THEN [st EXCEPT !.error = "KeyError"]
             ELSE [st EXCEPT !.children[parent] = Restrict(@, DOMAIN @ \ {b}),
                             !.node[leaf].parent = None]

\* self.leaves.remove(leaf)
LeafRemoved(st, leaf) ==
    IF st.error # "ok" THEN st
    ELSE IF leaf \in st.leaves THEN [st EXCEPT !.leaves = @ \ {leaf}]
    ELSE [st EXCEPT !.error = "KeyError"]

\* "If parent becomes childless, it becomes a leaf"
ParentBecomesLeaf(st, parent) ==
    IF st.error # "ok" THEN st
    ELSE IF parent = None THEN [st EXCEPT !.error = "AttributeError"]
    ELSE IF parent = Root \/ DOMAIN st.children[parent] # {} THEN st
    ELSE [st EXCEPT !.leaves = @ \cup {parent},
                    !.heap = IF st.node[parent].ref <= 0
                             THEN Append(@, parent) ELSE @]

Popped(st, i) == [st EXCEPT !.heap = RemoveAt(@, i),
                            !.evicted = Append(@, st.node[st.heap[i]].page)]

\* What the loop does with the i-th entry of the heap.
EvictEntry(st, i) ==
    LET leaf == st.heap[i]
    IN  ParentBecomesLeaf(LeafRemoved(Unlinked(Popped(st, i), leaf), leaf),
                          st.node[leaf].parent)

\* One iteration of the loop.
EvictOne(st, order) ==
    IF st.heap = << >> \/ st.error # "ok" THEN st
    ELSE EvictEntry(st, OldestEntry(st.heap, order))


UnusedLeaves(nodes) == {n \in leaves : nodes[n].ref <= 0}

\* The state after the loop: at most max_pages iterations, since each of them
\* evicts one page.
Evict(nodes, order, max_pages) ==
    LET heap == SetToSeq(UnusedLeaves(nodes))
        loop[k \in 0 .. max_pages] ==
          IF k = 0
          THEN [heap |-> heap, leaves |-> leaves, node |-> nodes,
                children |-> children, evicted |-> << >>, error |-> "ok"]
          ELSE EvictOne(loop[k - 1], order)
    IN  loop[max_pages]

\* free_pages of what was evicted and the second attempt to get `count` pages.
Retry(st, count) ==
    LET freed == free_list \o (IF st.error = "ok" THEN st.evicted ELSE << >>)
        left == Len(freed) - count
        enough == st.error = "ok" /\ left >= 0
    IN  [node |-> st.node, children |-> st.children, leaves |-> st.leaves,
         available |-> IF enough THEN SubSeq(freed, 1, left) ELSE freed,
         obtained |-> IF enough THEN Reverse(SubSeq(freed, left + 1, Len(freed)))
                                ELSE << >>,
         error |-> IF st.error = "ok" /\ ~enough THEN "CacheAllocationFailure"
                                                ELSE st.error]

\* The part of acquire and extend that gets `count` pages, evicting if the
\* pool has too few: the new free_list, the pages obtained, and the rest
\* of the state.
ObtainPages(nodes, order, count) ==
    LET short == count - Len(free_list)
    IN  IF short > 0 THEN Retry(Evict(nodes, order, short), count)
        ELSE [node |-> nodes, children |-> children, leaves |-> leaves,
              available |-> SubSeq(free_list, 1, -short),
              obtained |-> Pool!PoppedPages(count), error |-> "ok"]

Commit(got) == /\ free_list' = got.available
               /\ node' = got.node
               /\ children' = got.children
               /\ leaves' = got.leaves
               /\ outcome' = got.error

----------------------------------------------------------------------------
(***************************************************************************)
(* The operations.                                                         *)
(***************************************************************************)

\* acquire_pages_for_tokens(tokens, extra_token_slots).  The reference to the
\* matched node is taken before the pages are, and stays when that fails.
trie_acquire_pages(a, tokens, extra) ==
    \E path \in {MatchedPath(tokens)} :
       LET cur == IF path = << >> THEN Root ELSE Last(path)
           cached == [i \in 1 .. Len(path) |-> node[path[i]].page]
           order == Touch(lru, path)
           needed == TriePagesFor(Len(tokens) - Len(path) * BlockTokens + extra)
       IN  /\ ~alloc[a].live
           /\ node[cur].ref < MaxRefs
           /\ lru' = order
           /\ \E got \in {ObtainPages([node EXCEPT ![cur].ref = @ + 1], order, needed)} :
                 /\ Commit(got)
                 /\ alloc' = IF got.error # "ok" THEN alloc
                             ELSE [alloc EXCEPT ![a] =
                                     [live |-> TRUE, tokens |-> tokens, last |-> cur,
                                      pages |-> cached \o got.obtained,
                                      published |-> Len(cached), same |-> FALSE]]
           /\ UNCHANGED born

\* Mutant: start_token_index is forgotten.
UnpublishedFromStart(al, i) == BlockAt(al.tokens, i)

\* unpublished_tokens[i], i counted from 1.
UnpublishedBlock(al, i) == BlockAt(al.tokens, al.published + i)

\* publish_pages_for_tokens(tokens[:len]).  Callers publish all the tokens (the
\* server) or growing prefixes of them (the tests), never fewer pages than
\* before.  No caller passes a list longer than the allocation's, which would take
\* its place (156-157): extend_allocation has been given it before, and the method
\* with a longer one is not modelled.  Every node made is a child of the one
\* before it.
trie_publish_pages(a, len) ==
    LET al == alloc[a]
        upto == len \div BlockTokens
        made == Max({0, Min({upto, Len(al.pages)}) - al.published})
        id(i) == IF i = 0 THEN al.last ELSE born + i
        cur == id(made)
        b(i) == UnpublishedBlock(al, i)
        unpublished == Len(al.tokens) > al.published * BlockTokens
        created == [n \in Nodes |->
                      IF n \in born + 1 .. born + made
                      THEN [block |-> b(n - born), page |-> al.pages[al.published + n - born],
                            parent |-> id(n - born - 1), ref |-> 0]
                      ELSE node[n]]
    IN  /\ al.live
        /\ upto >= al.published
        /\ born + made <= MaxNodes
        /\ born' = born + made
        /\ node' = IF unpublished
                   THEN [n \in Nodes |->
                           [created[n] EXCEPT !.ref = @ + (IF n = cur THEN 1 ELSE 0)
                                                        - (IF n = al.last THEN 1 ELSE 0)]]
                   ELSE created
        /\ children' = [n \in Nodes |->
              IF \E i \in 1 .. made : n = id(i - 1)
              THEN LET i == CHOOSE j \in 1 .. made : n = id(j - 1)
                   IN  [k \in DOMAIN children[n] \cup {b(i)} |->
                          IF k = b(i) THEN id(i) ELSE children[n][k]]
              ELSE children[n]]
        /\ lru' = lru \o [i \in 1 .. made |-> born + i]
        /\ leaves' = leaves \cup ({cur} \ {Root})
        /\ alloc' = [alloc EXCEPT ![a].last = IF unpublished THEN cur ELSE @,
                                  ![a].published = upto]
        /\ outcome' = "ok"
        /\ UNCHANGED free_list

\* extend_allocation(tokens, extra_token_slots), tokens longer than before.
\* The allocation keeps the caller's list itself; `same` says whether the caller
\* goes on with that list (the server does) or with a new one (the tests do).
trie_extend_allocation(a, tokens, extra, same) ==
    LET needed == TriePagesFor(Len(tokens) + extra) - Len(alloc[a].pages)
        extended == [alloc EXCEPT ![a].tokens = tokens, ![a].same = same]
    IN  /\ alloc[a].live /\ ~alloc[a].same
        /\ IsStrictPrefix(alloc[a].tokens, tokens)
        /\ \/ /\ needed <= 0
              /\ alloc' = extended
              /\ outcome' = "ok"
              /\ UNCHANGED <<free_list, trieVars>>
           \/ /\ needed > 0
              /\ \E got \in {ObtainPages(node, lru, needed)} :
                    /\ Commit(got)
                    /\ alloc' = IF got.error # "ok" THEN alloc
                                ELSE [extended EXCEPT ![a].pages = @ \o got.obtained]
              /\ UNCHANGED <<born, lru>>

\* The caller appends to the list that the allocation has kept, and extends with
\* it: the list has the length of itself, and nothing is done.
ExtendWithSameList(a, tokens) ==
    /\ alloc[a].live /\ alloc[a].same
    /\ alloc' = [alloc EXCEPT ![a].tokens = tokens]
    /\ outcome' = "ok"
    /\ UNCHANGED <<free_list, trieVars>>

\* release_pages.  A released object is only ever released again, which reads
\* nothing but its flag (and, were it not for the flag, its last node).
TrieReleaseLive(a) ==
    /\ alloc[a].live
    /\ node' = [node EXCEPT ![alloc[a].last].ref = @ - 1]
    /\ alloc' = [alloc EXCEPT ![a] = [live |-> FALSE, tokens |-> << >>, last |-> @.last,
                                      pages |-> << >>, published |-> 0,
                                      same |-> FALSE]]
    /\ outcome' = "ok"
    /\ UNCHANGED <<free_list, children, born, leaves, lru>>

TrieReleaseAgain(a) ==
    /\ ~alloc[a].live
    /\ UNCHANGED trieCacheVars

TrieAcquire(a) == \E tokens \in Prompts : trie_acquire_pages(a, tokens, 0)

TriePublish(a) == \E len \in 0 .. Len(alloc[a].tokens) : trie_publish_pages(a, len)

\* The server's decode step: one more token, and one slot for the next one.
TrieExtend(a) == \E t \in Generated :
                LET tokens == Append(alloc[a].tokens, t)
                IN  \/ /\ Len(tokens) <= MaxExtended
                       /\ \E same \in BOOLEAN : trie_extend_allocation(a, tokens, 1, same)
                    \/ /\ Len(tokens) <= MaxGrown
                       /\ ExtendWithSameList(a, tokens)

TrieRelease(a) == TrieReleaseLive(a) \/ TrieReleaseAgain(a)

TrieNext == \E a \in TrieAllocs : TrieAcquire(a) \/ TriePublish(a) \/ TrieExtend(a) \/ TrieRelease(a)

TrieSpec == TrieInit /\ [][TrieNext]_trieCacheVars
----------------------------------------------------------------------------
(***************************************************************************)
(* Properties that hold                                                    *)
(***************************************************************************)

NodeHolders(n) == {a \in TrieAllocs : alloc[a].live /\ alloc[a].last = n}

\* Every allocation that was acquired and not released counts in the ref_count
\* of its last_cached_node, across publications that move it down the trie,
\* failed calls and repeated releases; and that node, with the page it stands
\* for, is never evicted while it is held.
HeldNodesStay ==
    /\ \A n \in Nodes : node[n].ref >= Cardinality(NodeHolders(n))
    /\ \A n \in Nodes \ {Root} :
          NodeHolders(n) # {} => /\ node[n].parent # None
                             /\ node[n].page \notin Range(free_list)

\* The nodes that _match can reach.
Reachable ==
    LET level[d \in 0 .. MaxNodes] ==
          IF d = 0 THEN {Root}
          ELSE level[d - 1] \cup UNION {Range(children[n]) : n \in level[d - 1]}
    IN  level[MaxNodes] \ {Root}

\* The pages that an allocation has not published: it alone writes to them.
PrivatePages(a) ==
    IF alloc[a].live
    THEN Range(SubSeq(alloc[a].pages, alloc[a].published + 1, Len(alloc[a].pages)))
    ELSE {}

\* A page has one home: it is free, or it is being written by one allocation,
\* or it is one node of the trie that a lookup can find.  So a lookup never
\* returns a page that was freed or that another request is writing, no page is
\* freed twice, and no page is handed out twice, whatever evictions, duplicate
\* publications and exceptions happened before.
OneHomePerPage ==
    /\ IsInjective(free_list)
    /\ \A n \in Reachable :
          /\ node[n].page \notin Range(free_list)
          /\ \A m \in Reachable : node[m].page = node[n].page => m = n
          /\ \A a \in TrieAllocs : node[n].page \notin PrivatePages(a)
    /\ \A a \in TrieAllocs : PrivatePages(a) \cap Range(free_list) = {}
    /\ \A a, c \in TrieAllocs : a # c => PrivatePages(a) \cap PrivatePages(c) = {}

\* Both: what is held stays, and what is found is where it belongs.
TrieSound == HeldNodesStay /\ OneHomePerPage

\* The path from the root to a node that a lookup can find spells the tokens
\* the page was computed for: the allocation that holds the node has them as a
\* prefix of its own tokens, as many blocks of them as it has published pages.
LookupsMatchTokens ==
    \A a \in TrieAllocs :
       alloc[a].live /\ alloc[a].last \in Reachable =>
          LET path == MatchedPath(alloc[a].tokens)
              depth == Min({alloc[a].published, Len(alloc[a].pages)})
          IN  /\ depth <= Len(path)
              /\ path[depth] = alloc[a].last

----------------------------------------------------------------------------
(***************************************************************************)
(* Claims of the documentation that the code does not keep                 *)
(***************************************************************************)

\* BasePagedAttentionCache: "Reference counting prevents eviction of in-use
\* pages".
InUsePagesNotEvicted ==
    \A a \in TrieAllocs :
       alloc[a].live => Range(alloc[a].pages) \cap Range(free_list) = {}

\* acquire_pages_for_tokens: "Raises: CacheAllocationFailure: If unable to
\* allocate required pages", and nothing else.
OnlyDocumentedExceptions == outcome \in {"ok", "CacheAllocationFailure"}

\* extend_allocation: "Extend the current allocation to accommodate additional
\* tokens".
ExtensionAccommodatesTokens ==
    \A a \in TrieAllocs :
       alloc[a].live => Len(alloc[a].pages) * BlockTokens >= Len(alloc[a].tokens)

\* TrieNode: "ref_count: Number of active references to this node".
RefCountIsNumberOfReferences ==
    \A n \in Nodes : node[n].ref = Cardinality(NodeHolders(n))

\* "Writing -> Caching: When writing is complete and page is released": a page
\* that no allocation holds is in the pool or in the cache.
ReleasedPagesComeBack ==
    \A p \in Pool!Pages : \/ p \in Range(free_list)
                     \/ \E n \in 1 .. born : node[n].page = p
                     \/ \E a \in TrieAllocs : p \in Range(alloc[a].pages)

\* "Root uses reserved index 0": no request is given that page.
PageZeroReserved == \A a \in TrieAllocs : 0 \notin Range(alloc[a].pages)
=============================================================================
