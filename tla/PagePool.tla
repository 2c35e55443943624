------------------------------ MODULE PagePool ------------------------------
(***************************************************************************)
(* The pool of attention pages of the LLM server                           *)
(* (shortfin_apps/llm/components/kvcache/page_pool.py).                    *)
(*                                                                         *)
(* The only state that the pool's operations change is the Python list     *)
(* `available_pages`, a stack: pages are popped from its end and returned  *)
(* pages are appended at its end.  Every operation holds `_lock` from its  *)
(* first read of the list to its last write, so each one is a single step. *)
(*                                                                         *)
(* The operators acquire_free_pages and free_pages constrain the next      *)
(* value of available_pages only; the caches that call them conjoin the    *)
(* rest of their own step.                                                 *)
(***************************************************************************)
EXTENDS Integers, Sequences, Functions

CONSTANT AllocPageCount     \* PagePoolConfig.alloc_page_count

ASSUME AllocPageCountAssumption == AllocPageCount \in Nat

VARIABLE available_pages

\* The PageInfo objects, one per index; the index identifies the object.
Pages == 0 .. AllocPageCount - 1

PoolTypeOK == available_pages \in Seq(Pages)

\* attn_page_entries, in index order.
PoolInit == available_pages = [i \in 1 .. AllocPageCount |-> i - 1]

\* acquire_free_pages returns None exactly when this is false.
CanAcquire(count) == count <= Len(available_pages)

\* The list that `count` calls of pop() build: the end of the stack, last
\* page first.
PoppedPages(count) ==
    [i \in 1 .. count |-> available_pages[Len(available_pages) + 1 - i]]

acquire_free_pages(count) ==
    /\ CanAcquire(count)
    /\ available_pages' =
           SubSeq(available_pages, 1, Len(available_pages) - count)

free_pages(pages) == available_pages' = available_pages \o pages
=============================================================================
