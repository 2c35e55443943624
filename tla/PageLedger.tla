----------------------------- MODULE PageLedger -----------------------------
(***************************************************************************)
(* What a paged attention cache without sharing promises, with no lists,   *)
(* no token counts and no order: a page is free or it is held by exactly   *)
(* one holder, and it only changes hands through the free set.             *)
(***************************************************************************)
CONSTANTS Page,     \* all pages
          Holder    \* everything that can hold pages

VARIABLES free,     \* the set of free pages
          held      \* the set of pages of each holder

ledgerVars == <<free, held>>

LedgerInit == /\ free = Page
              /\ held = [h \in Holder |-> {}]

Grant(h, S) == /\ S \subseteq free
               /\ free' = free \ S
               /\ held' = [held EXCEPT ![h] = @ \cup S]

Return(h, S) == /\ S \subseteq held[h]
                /\ free' = free \cup S
                /\ held' = [held EXCEPT ![h] = @ \ S]

LedgerNext == \E h \in Holder, S \in SUBSET Page : Grant(h, S) \/ Return(h, S)

LedgerSpec == LedgerInit /\ [][LedgerNext]_ledgerVars
=============================================================================
