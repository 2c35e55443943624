----------------------------- MODULE BaseCache -----------------------------
(***************************************************************************)
(* BasePagedAttentionCache and its allocations                             *)
(* (kvcache/base_attention_cache.py) on top of the page pool.              *)
(*                                                                         *)
(* An element of Allocs is a variable of the program that refers to an     *)
(* allocation object (`InferenceExecRequest.allocation`).  Several threads *)
(* may call the cache (test_concurrent_page_allocation does): they share   *)
(* nothing but the pool, whose operations are atomic, and each allocation  *)
(* object is used by one of them.  The tokens themselves do not matter to  *)
(* this cache, only how many there are.                                    *)
(***************************************************************************)
EXTENDS PagePool

CONSTANTS Allocs,            \* variables that refer to an allocation
          TokensPerPage,     \* BasePagedAttentionCache.tokens_per_page
          MaxTokens,         \* bound: longest token sequence
          MaxExtraSlots      \* bound: largest extra_token_slots

ASSUME BaseCacheAssumption == /\ TokensPerPage \in Nat \ {0}
                              /\ MaxTokens \in Nat
                              /\ MaxExtraSlots \in Nat
                              /\ "caller" \notin Allocs

VARIABLES status,      \* "none" before acquire, then "live", then "released"
          pages,       \* _pages of the allocation object
          tokens,      \* len(tokens) in the last call that succeeded
          extra,       \* extra_token_slots in that call
          copies       \* pages handed out by copy_page, owned by its caller

vars == <<available_pages, status, pages, tokens, extra, copies>>

Status == {"none", "live", "released"}

\* The variables of the pool and of its allocations keep their types: only pages
\* of the pool are handed out or taken back.
TypeOK == /\ PoolTypeOK
          /\ status \in [Allocs -> Status]
          /\ pages \in [Allocs -> Seq(Pages)]
          /\ tokens \in [Allocs -> Nat]
          /\ extra \in [Allocs -> Nat]
          /\ copies \in SUBSET Pages

Init == /\ PoolInit
        /\ status = [a \in Allocs |-> "none"]
        /\ pages = [a \in Allocs |-> << >>]
        /\ tokens = [a \in Allocs |-> 0]
        /\ extra = [a \in Allocs |-> 0]
        /\ copies = {}

\* Mutant: a last page that is not full is not counted.
PagesForFloored(n) == n \div TokensPerPage

\* math.ceil(token_count / tokens_per_page)
PagesFor(n) == (n + TokensPerPage - 1) \div TokensPerPage

Live(a) == status[a] = "live"

Remember(a, n, x) == /\ tokens' = [tokens EXCEPT ![a] = n]
                     /\ extra' = [extra EXCEPT ![a] = x]

----------------------------------------------------------------------------
(***************************************************************************)
(* The operations.  The ones that fail leave everything as it is; the      *)
(* caller sees CacheAllocationFailure (TypeError for copy_page, which      *)
(* unpacks the None it was given).                                         *)
(***************************************************************************)

\* acquire_pages_for_tokens: a new allocation object replaces a released one.
\* extra_token_slots (x) is accepted and not used.
acquire_pages_for_tokens(a, n, x) ==
    /\ ~Live(a)
    /\ acquire_free_pages(PagesFor(n))
    /\ status' = [status EXCEPT ![a] = "live"]
    /\ pages' = [pages EXCEPT ![a] = PoppedPages(PagesFor(n))]
    /\ Remember(a, n, x)
    /\ UNCHANGED copies

AcquireFails(a, n) == /\ ~Live(a)
                      /\ ~CanAcquire(PagesFor(n))
                      /\ UNCHANGED vars

\* The pages that extend_allocation still needs for n slots.
Missing(a, n) == PagesFor(n) - Len(pages[a])

ExtendInPlace(a, n, x) == /\ Live(a)
                          /\ Missing(a, n + x) <= 0
                          /\ Remember(a, n, x)
                          /\ UNCHANGED <<available_pages, status, pages, copies>>

ExtendGrows(a, n, x) ==
    /\ Live(a)
    /\ Missing(a, n + x) > 0
    /\ acquire_free_pages(Missing(a, n + x))
    /\ pages' = [pages EXCEPT ![a] = @ \o PoppedPages(Missing(a, n + x))]
    /\ Remember(a, n, x)
    /\ UNCHANGED <<status, copies>>

ExtendFails(a, n, x) == /\ Live(a)
                        /\ Missing(a, n + x) > 0
                        /\ ~CanAcquire(Missing(a, n + x))
                        /\ UNCHANGED vars

\* publish_pages_for_tokens: `pass`.
publish_pages_for_tokens(a) == Live(a) /\ UNCHANGED vars

\* release_pages: the object keeps its _pages, only _is_released protects
\* the pool from a second release.
ReleaseLive(a) == /\ Live(a)
                  /\ free_pages(pages[a])
                  /\ status' = [status EXCEPT ![a] = "released"]
                  /\ Remember(a, 0, 0)
                  /\ UNCHANGED <<pages, copies>>

\* Mutant: _is_released is not looked at.
ReleaseAgainFrees(a) == /\ status[a] = "released"
                        /\ free_pages(pages[a])
                        /\ UNCHANGED <<status, pages, tokens, extra, copies>>

ReleaseAgain(a) == /\ status[a] = "released"
                   /\ UNCHANGED vars

release_pages(a) == ReleaseLive(a) \/ ReleaseAgain(a)

\* Mutant: the destination page is looked at, not popped.
CopyPagePeeks(a) ==
    /\ Live(a) /\ pages[a] # << >> /\ CanAcquire(1)
    /\ copies' = copies \cup {PoppedPages(1)[1]}
    /\ UNCHANGED <<available_pages, status, pages, tokens, extra>>

\* PagePool.copy_page of a page of a live allocation: the destination belongs
\* to the caller.
copy_page(a) ==
    /\ Live(a) /\ pages[a] # << >>
    /\ acquire_free_pages(1)
    /\ copies' = copies \cup {PoppedPages(1)[1]}
    /\ UNCHANGED <<status, pages, tokens, extra>>

CopyPageFails(a) == /\ Live(a) /\ pages[a] # << >>
                    /\ ~CanAcquire(1)
                    /\ UNCHANGED vars

\* The owner of a copied page gives it back with free_pages([page]).
FreeCopy(p) == /\ p \in copies
               /\ free_pages(<<p>>)
               /\ copies' = copies \ {p}
               /\ UNCHANGED <<status, pages, tokens, extra>>

Acquire(a) == \E n \in 0 .. MaxTokens :
                 \/ \E x \in 0 .. MaxExtraSlots : acquire_pages_for_tokens(a, n, x)
                 \/ AcquireFails(a, n)

extend_allocation(a) == \E n \in 0 .. MaxTokens, x \in 0 .. MaxExtraSlots :
                           \/ ExtendInPlace(a, n, x)
                           \/ ExtendGrows(a, n, x)
                           \/ ExtendFails(a, n, x)

Next == \/ \E a \in Allocs : \/ Acquire(a)
                             \/ extend_allocation(a)
                             \/ publish_pages_for_tokens(a)
                             \/ release_pages(a)
                             \/ copy_page(a)
                             \/ CopyPageFails(a)
        \/ \E p \in Pages : FreeCopy(p)

Spec == Init /\ [][Next]_vars
----------------------------------------------------------------------------
(***************************************************************************)
(* Properties                                                              *)
(***************************************************************************)

\* The pages that a variable of the program currently owns.
Owned(a) == IF Live(a) THEN Range(pages[a]) ELSE {}

\* No page is lost and none has two owners: over any sequence of acquires,
\* extensions, (repeated) releases and copies, each page is exactly once in
\* one of available_pages, the page list of one live allocation, or the hands
\* of a caller of copy_page.  A page owned twice would mix the attention state
\* of two requests; a lost page would shrink the cache until the server is
\* restarted.
PagesNeverShared ==
    /\ IsInjective(available_pages)
    /\ \A a \in Allocs : Live(a) => IsInjective(pages[a])
    /\ \A a \in Allocs : Owned(a) \cap (Range(available_pages) \cup copies) = {}
    /\ \A a, b \in Allocs : a # b => Owned(a) \cap Owned(b) = {}
    /\ Range(available_pages) \cap copies = {}

PagesNeverLost ==
    \A p \in Pages : \/ p \in Range(available_pages) \cup copies
                     \/ \E a \in Allocs : p \in Owned(a)

PagesConserved == PagesNeverShared /\ PagesNeverLost

\* A live allocation always has room for the tokens it was last given, at page
\* boundaries too and whether or not the last extension found pages: a decode
\* step writes into the slot of its last token.
PagesHoldTokens ==
    \A a \in Allocs : Live(a) => Len(pages[a]) * TokensPerPage >= tokens[a]

\* The cache is a page ledger: pages move only between the free set and one
\* holder at a time, in every step.
Holders == Allocs \cup {"caller"}

Holdings == [h \in Holders |-> IF h = "caller" THEN copies ELSE Owned(h)]

Ledger == INSTANCE PageLedger
             WITH Page <- Pages, Holder <- Holders,
                  free <- Range(available_pages), held <- Holdings

ImplementsLedger == Ledger!LedgerSpec

\* What the docstring of acquire_pages_for_tokens says of extra_token_slots:
\* "number of kvcache slots needed in addition to the ones needed to hold the
\* given tokens".
PagesHoldExtraSlots ==
    \A a \in Allocs :
        Live(a) => Len(pages[a]) * TokensPerPage >= tokens[a] + extra[a]
=============================================================================
